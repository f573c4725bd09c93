---------------------------- MODULE SourcesProofs ----------------------------
(***************************************************************************)
(* Proofs about the access of source clusters, for every set of sources,   *)
(* users and bounds: the bindings of two sources never have the same name, *)
(* except where NoViewerNames says that they may, so that Handle, which    *)
(* updates whatever binding it finds under the name, leaves others alone.  *)
(***************************************************************************)
EXTENDS Sources, NamesProofs

(* The namespace and the name of a key are parts; names are not empty.     *)
LEMMA KeyParts ==
    ASSUME NEW k \in Keys
    PROVE  /\ k[1] \in Seq(Words) /\ k[2] \in Seq(Words) /\ k[2] # <<>>
           /\ k = <<k[1], k[2]>>
BY KeysAssumption

(* The constant parts of names.                                            *)
LEMMA Constants ==
    /\ <<"source">> \in Seq(Words) /\ <<"cluster-source">> \in Seq(Words)
    /\ <<"viewer">> \in Seq(Words)
    /\ Len(<<"source">>) = 1 /\ Len(<<"cluster-source">>) = 1 /\ Len(<<"viewer">>) = 1
    /\ <<"source">>[1] # <<"cluster-source">>[1]
BY KeysAssumption

(* Source bindings are told apart by namespace and name.                   *)
LEMMA SourceBindings ==
    ASSUME NEW j \in Keys, NEW k \in Keys, SourceBinding(j) = SourceBinding(k)
    PROVE  j = k
<1> DEFINE w == Prefix(j)
<1>1. j[1] = k[1] /\ Prefix(k) = w /\ w \in Seq(Words)
  BY Constants DEF SourceBinding, Prefix, ClusterScoped
<1>2. FromParts(Long, {1}, {}, <<w, j[2]>>) = FromParts(Long, {1}, {}, <<w, k[2]>>)
  BY <1>1 DEF SourceBinding
<1> HIDE DEF w
<1>3. j[2] \in Seq(Words) /\ k[2] \in Seq(Words)
  BY KeyParts
<1>4. j[2] = k[2]
  BY <1>1, <1>2, <1>3, ReadBackLast
<1>. QED
  BY <1>1, <1>4, KeyParts, Zenon

(* What names begin with.                                                  *)
LEMMA Head2 ==
    ASSUME NEW w \in Seq(Words), Len(w) > 0, NEW a \in Seq(Words)
    PROVE  FlattenSeq(<<w, a>>)[1] = w[1]
BY JoinHead, Flatten2

(* The same for three parts.                                               *)
LEMMA Head3 ==
    ASSUME NEW w \in Seq(Words), Len(w) > 0, NEW a \in Seq(Words), NEW b \in Seq(Words)
    PROVE  FlattenSeq(<<w, a, b>>)[1] = w[1]
<1> DEFINE x == Join(w, a)
<1>1. x \in Seq(Words) /\ Len(x) > 0 /\ x[1] = w[1]
  BY JoinLen, JoinHead
<1> HIDE DEF x
<1>2. Join(x, b)[1] = x[1]
  BY <1>1, JoinHead
<1>. QED
  BY <1>1, <1>2, Flatten3 DEF x

(* The same for four parts.                                                *)
LEMMA Head4 ==
    ASSUME NEW w \in Seq(Words), Len(w) > 0, NEW a \in Seq(Words), NEW b \in Seq(Words),
           NEW c \in Seq(Words)
    PROVE  FlattenSeq(<<w, a, b, c>>)[1] = w[1]
<1> DEFINE x == Join(w, a)
           y == Join(x, b)
<1>1. x \in Seq(Words) /\ Len(x) > 0 /\ x[1] = w[1]
  BY JoinLen, JoinHead
<1> HIDE DEF x
<1>2. y \in Seq(Words) /\ Len(y) > 0 /\ y[1] = x[1]
  BY <1>1, JoinLen, JoinHead
<1> HIDE DEF y
<1>3. Join(y, c)[1] = y[1]
  BY <1>2, JoinHead
<1>. QED
  BY <1>1, <1>2, <1>3, Flatten4 DEF x, y

(* The viewer binding of a Source has not the name of a binding of a       *)
(* ClusterSource.                                                          *)
LEMMA OtherHeads ==
    ASSUME NEW a \in Seq(Words), NEW b \in Seq(Words), NEW c \in Seq(Words)
    PROVE  LET cs == <<"cluster-source">>
               s == <<"source">>
               v == <<"viewer">>
               viewer == FromParts(Long, {1, 4}, {}, <<s, a, b, v>>)
           IN /\ FromParts(Long, {1}, {}, <<cs, c>>) # viewer
              /\ FromParts(Long, {1, 3}, {}, <<cs, c, v>>) # viewer
<1> DEFINE cs == <<"cluster-source">>
           s == <<"source">>
           v == <<"viewer">>
<1>0. /\ cs \in Seq(Words) /\ Len(cs) > 0 /\ s \in Seq(Words) /\ Len(s) > 0
      /\ v \in Seq(Words) /\ cs[1] # s[1]
  BY Constants
<1> HIDE DEF cs, s, v
<1> DEFINE p == <<s, a, b, v>>
<1>1. /\ FlattenSeq(<<cs, c>>)[1] = cs[1]
      /\ FlattenSeq(<<cs, c, v>>)[1] = cs[1]
      /\ FlattenSeq(p)[1] = s[1]
  BY <1>0, Head2, Head3, Head4
<1>2. <<cs, c>> # p /\ <<cs, c, v>> # p
  OBVIOUS
<1> HIDE DEF p
<1>3. FromParts(Long, {1}, {}, <<cs, c>>) # FromParts(Long, {1, 4}, {}, p)
  BY <1>0, <1>1, <1>2, SameName
<1>4. FromParts(Long, {1, 3}, {}, <<cs, c, v>>) # FromParts(Long, {1, 4}, {}, p)
  BY <1>0, <1>1, <1>2, SameName
<1>. QED
  BY <1>3, <1>4, Zenon DEF cs, s, v, p

(* Viewer bindings are told apart by name.                                 *)
LEMMA ViewerBindings ==
    ASSUME NEW j \in Keys, NEW k \in Keys, ViewerBinding(j) = ViewerBinding(k)
    PROVE  j = k
<1> DEFINE cs == <<"cluster-source">>
           s == <<"source">>
           v == <<"viewer">>
<1>0. /\ j[1] \in Seq(Words) /\ j[2] \in Seq(Words) /\ j[2] # <<>>
      /\ k[1] \in Seq(Words) /\ k[2] \in Seq(Words) /\ k[2] # <<>>
  BY KeyParts
<1>1. CASE ClusterScoped(j) /\ ClusterScoped(k)
  <2>1. FromParts(Long, {1, 3}, {}, <<cs, j[2], v>>) = FromParts(Long, {1, 3}, {}, <<cs, k[2], v>>)
    BY <1>1 DEF ViewerBinding, Prefix
  <2>2. cs \in Seq(Words) /\ v \in Seq(Words) /\ Len(v) = 1
    BY Constants
  <2> HIDE DEF cs, v
  <2>3. j[2] = k[2]
    BY <1>0, <2>1, <2>2, ReadBackMiddle
  <2>. QED
    BY <1>1, <2>3, KeyParts, Zenon DEF ClusterScoped
<1>2. CASE ~ClusterScoped(j) /\ ~ClusterScoped(k)
  <2>1. FromParts(Long, {1, 4}, {}, <<s, j[1], j[2], v>>)
          = FromParts(Long, {1, 4}, {}, <<s, k[1], k[2], v>>)
    BY <1>2 DEF ViewerBinding, Prefix
  <2>2. s \in Seq(Words) /\ v \in Seq(Words) /\ Len(v) = 1
    BY Constants
  <2> HIDE DEF s, v
  <2>3. j[1] = k[1] /\ j[2] = k[2]
    BY <1>0, <2>1, <2>2, ReadBackMiddle2
  <2>. QED
    BY <2>3, KeyParts, Zenon
<1>3. ASSUME NEW m \in Keys, NEW n \in Keys, ClusterScoped(m), ~ClusterScoped(n),
             ViewerBinding(m) = ViewerBinding(n)
      PROVE  FALSE
  <2>1. FromParts(Long, {1, 3}, {}, <<cs, m[2], v>>)
          = FromParts(Long, {1, 4}, {}, <<s, n[1], n[2], v>>)
    BY <1>3 DEF ViewerBinding, Prefix
  <2>2. m[2] \in Seq(Words) /\ n[1] \in Seq(Words) /\ n[2] \in Seq(Words)
    BY KeyParts
  <2>. QED
    BY <2>1, <2>2, OtherHeads
<1>. QED
  BY <1>1, <1>2, <1>3

(* A source binding is taken for a viewer binding only by its name.        *)
LEMMA SourceOrViewer ==
    ASSUME NoViewerNames, NEW j \in Keys, NEW k \in Keys, SourceBinding(j) = ViewerBinding(k)
    PROVE  FALSE
<1> DEFINE cs == <<"cluster-source">>
           s == <<"source">>
           v == <<"viewer">>
<1>0. /\ j[2] \in Seq(Words) /\ j[2] # <<>>
      /\ k[1] \in Seq(Words) /\ k[2] \in Seq(Words) /\ k[2] # <<>>
  BY KeyParts
<1>1. ClusterScoped(j)
  BY DEF SourceBinding, ViewerBinding, ClusterScoped
<1>2. CASE ClusterScoped(k)
  <2>1. FromParts(Long, {1}, {}, <<cs, j[2]>>) = FromParts(Long, {1, 3}, {}, <<cs, k[2], v>>)
    BY <1>1, <1>2 DEF SourceBinding, ViewerBinding, Prefix
  <2>2. cs \in Seq(Words) /\ v \in Seq(Words)
    BY Constants
  <2>3. j[2] # Join(k[2], v)
    BY <1>1, <1>2 DEF NoViewerNames, Join
  <2> HIDE DEF cs, v
  <2>4. <<cs, j[2]>> # <<cs, k[2], v>>
    OBVIOUS
  <2>5. FlattenSeq(<<cs, j[2]>>) = FlattenSeq(<<cs, k[2], v>>)
    BY <2>1, <2>4, SameName
  <2>6. Join(cs, j[2]) = Join(Join(cs, k[2]), v)
    BY <2>5, Flatten2, Flatten3
  <2>7. Join(cs, j[2]) = Join(cs, Join(k[2], v)) /\ Join(k[2], v) \in Seq(Words)
    <3>1. Join(Join(cs, k[2]), v) = Join(cs, Join(k[2], v))
      BY <1>0, <2>2, JoinAssociative
    <3>2. Join(k[2], v) \in Seq(Words)
      BY <1>0, <2>2, JoinLen
    <3>. QED
      BY <2>6, <3>1, <3>2
  <2>8. j[2] = Join(k[2], v)
    BY <1>0, <2>2, <2>7, JoinCancel
  <2>. QED
    BY <2>3, <2>8
<1>3. CASE ~ClusterScoped(k)
  <2>1. FromParts(Long, {1}, {}, <<cs, j[2]>>)
          = FromParts(Long, {1, 4}, {}, <<s, k[1], k[2], v>>)
    BY <1>1, <1>3 DEF SourceBinding, ViewerBinding, Prefix
  <2>. QED
    BY <1>0, <2>1, OtherHeads
<1>. QED
  BY <1>2, <1>3

(* A binding's name says which role it is of and for which source.         *)
LEMMA BindingOfInjective ==
    ASSUME NoViewerNames,
           NEW j \in Keys, NEW q \in Roles, NEW k \in Keys, NEW r \in Roles,
           BindingOf(q, j) = BindingOf(r, k)
    PROVE  q = r /\ j = k
BY SourceBindings, ViewerBindings, SourceOrViewer DEF BindingOf, Roles

-----------------------------------------------------------------------------
(* What Handle writes.                                                     *)
LEMMA MadeBinding ==
    ASSUME NEW k \in Keys, NEW role \in Roles, NEW src \in SourceObjects,
           NamesSomeone(src.spec)
    PROVE  LET subjects == MakeSubjects(k, src.spec)
               binding == MakeBinding(k, src, role)
           IN /\ subjects # {}
              /\ subjects \subseteq ({"ServiceAccount"} \X Keys) \cup ({"User"} \X Users)
              /\ \A j \in Keys : <<"ServiceAccount", j>> \in subjects => j = k
              /\ binding \in Bindings
              /\ binding.role = role /\ binding.owner.key = k /\ binding.subjects = subjects
<1> DEFINE subjects == MakeSubjects(k, src.spec)
<1>1. src.spec \in Specs /\ src.uid \in Nat
  BY DEF SourceObjects
<1>2. subjects # {}
  BY <1>1 DEF MakeSubjects, NamesSomeone, Specs
<1>3. subjects \subseteq ({"ServiceAccount"} \X Keys) \cup ({"User"} \X Users)
  BY <1>1 DEF MakeSubjects, Specs
<1>4. \A j \in Keys : <<"ServiceAccount", j>> \in subjects => j = k
  BY <1>1 DEF MakeSubjects, Specs
<1> HIDE DEF subjects
<1>5. MakeBinding(k, src, role) = [role |-> role, subjects |-> subjects,
                                   owner |-> [key |-> k, uid |-> src.uid]]
  BY DEF MakeBinding, Owner, subjects
<1>6. MakeBinding(k, src, role) \in Bindings
  BY <1>1, <1>3, <1>5 DEF Bindings
<1>. QED
  BY <1>2, <1>3, <1>4, <1>5, <1>6 DEF subjects

(* Initially there are no bindings.                                        *)
LEMMA BindingsInit == Init => BindingsInv
BY SourcesAssumption DEF Init, BindingsInv, SourceObjects, Specs

(* The bindings of others stay as they are when one is written.            *)
LEMMA BindingsWritten ==
    ASSUME NoViewerNames, BindingsInv, NEW k \in Keys, NEW role \in Roles,
           NEW value \in Bindings,
           bindings' = [bindings EXCEPT ![BindingOf(role, k)] = value],
           value.role = role, value.owner.key = k, value.subjects # {},
           \A j \in Keys : <<"ServiceAccount", j>> \in value.subjects => j = k
    PROVE  /\ bindings' \in [BindingNames -> Bindings \cup {None}]
           /\ \A b \in BindingNames :
                bindings'[b] # None => \E j \in Keys, r \in Roles : IsBindingOf(b, r, j)'
<1> DEFINE c == BindingOf(role, k)
<1>1. c \in BindingNames /\ bindings \in [BindingNames -> Bindings \cup {None}]
  BY DEF BindingNames, BindingsInv
<1>2. bindings'[c] = value /\ \A b \in BindingNames \ {c} : bindings'[b] = bindings[b]
  BY <1>1
<1>3. IsBindingOf(c, role, k)'
  BY <1>2 DEF IsBindingOf
<1>4. ASSUME NEW b \in BindingNames \ {c}, bindings'[b] # None
      PROVE  \E j \in Keys, r \in Roles : IsBindingOf(b, r, j)'
  BY <1>2, <1>4 DEF BindingsInv, IsBindingOf
<1>. QED
  BY <1>1, <1>3, <1>4

(* Every step keeps BindingsInv.                                           *)
LEMMA BindingsNext ==
    ASSUME NoViewerNames, BindingsInv, [Next]_vars
    PROVE  BindingsInv'
<1> USE DEF objects, caches
<1>0. ASSUME UNCHANGED bindings
      PROVE  /\ bindings' \in [BindingNames -> Bindings \cup {None}]
             /\ \A b \in BindingNames :
                  bindings'[b] # None => \E k \in Keys, role \in Roles : IsBindingOf(b, role, k)'
  BY <1>0 DEF BindingsInv, IsBindingOf
<1>1. ASSUME NEW k \in Keys, Begin(k) PROVE BindingsInv'
  <2>1. work' # None =>
          /\ work' \in [key: Keys, source: SourceObjects, call: {"account"} \cup Roles]
          /\ work'.call = "account"
    BY <1>1 DEF Begin, BindingsInv
  <2>. QED
    BY <1>0, <1>1, <2>1 DEF Begin, BindingsInv
<1>2. ASSUME NEW k \in Keys, SyncSource(k) PROVE BindingsInv'
  BY <1>0, <1>2 DEF SyncSource, BindingsInv
<1>3. ASSUME NEW k \in Keys, SyncAccount(k) \/ Resync(k) PROVE BindingsInv'
  BY <1>0, <1>3 DEF SyncAccount, Resync, BindingsInv
<1>4. ASSUME NEW b \in BindingNames, SyncBinding(b) PROVE BindingsInv'
  BY <1>0, <1>4 DEF SyncBinding, BindingsInv
<1>5. CASE EnsureAccount
  <2>1. work' # None =>
          /\ work' \in [key: Keys, source: SourceObjects, call: {"account"} \cup Roles]
          /\ work'.call # "account" => NamesSomeone(work'.source.spec)
    BY <1>5 DEF EnsureAccount, Working, Continue, Done, Retry, BindingsInv, NamesSomeone, Roles
  <2>. QED
    BY <1>0, <1>5, <2>1 DEF EnsureAccount, BindingsInv
<1>6. ASSUME NEW role \in Roles, EnsureBinding(role) PROVE BindingsInv'
  <2> DEFINE c == BindingOf(role, work.key)
             subjects == MakeSubjects(work.key, work.source.spec)
  <2>1. /\ work # None /\ work.call = role /\ work.key \in Keys
        /\ work.source \in SourceObjects /\ NamesSomeone(work.source.spec)
    BY <1>6 DEF EnsureBinding, Working, BindingsInv, Roles
  <2>2. work' # None =>
          /\ work' \in [key: Keys, source: SourceObjects, call: {"account"} \cup Roles]
          /\ work'.call # "account" => NamesSomeone(work'.source.spec)
    BY <1>6, <2>1 DEF EnsureBinding, Continue, Done, Retry, BindingsInv, Roles
  <2>3. CASE bindings' = [bindings EXCEPT ![c] = MakeBinding(work.key, work.source, role)]
    <3> DEFINE value == MakeBinding(work.key, work.source, role)
    <3>1. /\ value \in Bindings /\ value.role = role /\ value.owner.key = work.key
          /\ value.subjects # {}
          /\ \A j \in Keys : <<"ServiceAccount", j>> \in value.subjects => j = work.key
      BY <2>1, MadeBinding
    <3> HIDE DEF value
    <3>2. bindings' = [bindings EXCEPT ![BindingOf(role, work.key)] = value]
      BY <2>3 DEF value
    <3>3. /\ bindings' \in [BindingNames -> Bindings \cup {None}]
          /\ \A b \in BindingNames :
               bindings'[b] # None => \E j \in Keys, r \in Roles : IsBindingOf(b, r, j)'
      BY <2>1, <3>1, <3>2, BindingsWritten
    <3>. QED
      BY <1>6, <2>2, <3>3 DEF EnsureBinding, BindingsInv
  <2>4. CASE bindings[c] # None /\ bindings' = [bindings EXCEPT ![c].subjects = subjects]
    <3> DEFINE value == [bindings[c] EXCEPT !.subjects = subjects]
    <3>1. c \in BindingNames
      BY <2>1 DEF BindingNames
    <3>2. PICK k \in Keys, r \in Roles : IsBindingOf(c, r, k)
      BY <2>4, <3>1 DEF BindingsInv
    <3>3. k = work.key /\ r = role
      BY <2>1, <3>2, BindingOfInjective DEF IsBindingOf
    <3>4. bindings[c] \in Bindings
      BY <2>4, <3>1 DEF BindingsInv
    <3>5. bindings[c].role = role /\ bindings[c].owner.key = work.key
      BY <3>2, <3>3 DEF IsBindingOf
    <3>6. /\ subjects # {}
          /\ subjects \subseteq ({"ServiceAccount"} \X Keys) \cup ({"User"} \X Users)
          /\ \A j \in Keys : <<"ServiceAccount", j>> \in subjects => j = work.key
      BY <2>1, MadeBinding
    <3>7. bindings' = [bindings EXCEPT ![BindingOf(role, work.key)] = value]
      BY <2>4
    <3> HIDE DEF subjects, c
    <3>8. /\ value \in Bindings /\ value.role = role /\ value.owner.key = work.key
          /\ value.subjects = subjects
      BY <3>4, <3>5, <3>6 DEF Bindings
    <3> HIDE DEF value
    <3>9. /\ bindings' \in [BindingNames -> Bindings \cup {None}]
          /\ \A b \in BindingNames :
               bindings'[b] # None => \E j \in Keys, q \in Roles : IsBindingOf(b, q, j)'
      BY <2>1, <3>6, <3>7, <3>8, BindingsWritten
    <3>. QED
      BY <1>6, <2>2, <3>9 DEF EnsureBinding, BindingsInv
  <2>5. CASE UNCHANGED bindings
    BY <1>0, <1>6, <2>2, <2>5 DEF EnsureBinding, BindingsInv
  <2>. QED
    BY <1>6, <2>3, <2>4, <2>5 DEF EnsureBinding
<1>7. ASSUME NEW k \in Keys, CollectAccount(k) \/ DeleteAccount(k) PROVE BindingsInv'
  BY <1>0, <1>7 DEF CollectAccount, DeleteAccount, UserEdits, BindingsInv
<1>8. ASSUME NEW c \in BindingNames, CollectBinding(c) \/ DeleteBinding(c) PROVE BindingsInv'
  <2>1. bindings' = [bindings EXCEPT ![c] = None]
    BY <1>8 DEF CollectBinding, DeleteBinding
  <2>2. bindings' \in [BindingNames -> Bindings \cup {None}]
    BY <2>1 DEF BindingsInv
  <2>3. ASSUME NEW b \in BindingNames, bindings'[b] # None
        PROVE  \E k \in Keys, role \in Roles : IsBindingOf(b, role, k)'
    <3>1. bindings'[b] = bindings[b]
      BY <2>1, <2>3 DEF BindingsInv
    <3>. QED
      BY <2>3, <3>1 DEF BindingsInv, IsBindingOf
  <2>. QED
    BY <1>8, <2>2, <2>3 DEF CollectBinding, DeleteBinding, UserEdits, BindingsInv
<1>9. ASSUME NEW k \in Keys, NEW spec \in Specs, Declare(k, spec) PROVE BindingsInv'
  BY <1>0, <1>9 DEF Declare, UserEdits, BindingsInv, SourceObjects
<1>10. ASSUME NEW k \in Keys, Undeclare(k) PROVE BindingsInv'
  BY <1>0, <1>10 DEF Undeclare, UserEdits, BindingsInv
<1>11. CASE CallFails
  BY <1>0, <1>11 DEF CallFails, Retry, BindingsInv
<1>12. CASE AgentStarts
  BY <1>0, <1>12 DEF AgentStarts, BindingsInv
<1>13. CASE UNCHANGED vars
  BY <1>0, <1>13 DEF vars, BindingsInv
<1>. QED
  BY <1>1, <1>2, <1>3, <1>4, <1>5, <1>6, <1>7, <1>8, <1>9, <1>10, <1>11, <1>12, <1>13
  DEF Next, Handle, Collect, UserStep

(* A binding stays with its source (ensureRoleBinding and                  *)
(* ensureClusterRoleBinding update whatever has the name): whatever        *)
(* sources users declare, with names that read the same too, however often *)
(* they are replaced, whatever calls fail and however old caches are, as   *)
(* long as no ClusterSource has the name of another's viewer binding.      *)
THEOREM SubjectsAreOwn == NoViewerNames => (Spec => []OwnSubjects)
<1>. SUFFICES ASSUME NoViewerNames PROVE Spec => []OwnSubjects
  OBVIOUS
<1>1. Init => BindingsInv
  BY BindingsInit
<1>2. BindingsInv /\ [Next]_vars => BindingsInv'
  BY BindingsNext
<1>3. BindingsInv => OwnSubjects
  BY DEF BindingsInv, OwnSubjects, IsBindingOf, BindingOf, Roles
<1>. QED
  BY <1>1, <1>2, <1>3, PTL DEF Spec
=============================================================================
