----------------------------- MODULE NamesProofs -----------------------------
(***************************************************************************)
(* When names made of parts are distinct. Names with a hash are told apart *)
(* by what was hashed, and from names without one; the others are the join *)
(* of their parts, which short enough parts can be read back from.         *)
(***************************************************************************)
EXTENDS Names, FiniteSetTheorems, TLAPS

(* The join of two parts, which stays opaque except in lemmas about it.    *)
Join(a, b) == a \o b

(* f[i] is the join of the first i parts of s.                             *)
Joins(f, s) == f = [i \in 1..Len(s) |-> IF i = 1 THEN s[i] ELSE f[i - 1] \o s[i]]

(* FlattenSeq is defined by a recursive function: if there is one, it has  *)
(* its last value.                                                         *)
LEMMA FlattenJoins ==
    ASSUME NEW s, Len(s) \in Nat \ {0}, NEW g, Joins(g, s)
    PROVE  \E f : Joins(f, s) /\ FlattenSeq(s) = f[Len(s)]
<1> DEFINE c == CHOOSE f : f = [i \in 1..Len(s) |-> IF i = 1 THEN s[i] ELSE f[i - 1] \o s[i]]
<1>1. Joins(c, s)
  BY DEF Joins
<1>2. FlattenSeq(s) = c[Len(s)]
  BY DEF FlattenSeq
<1>. QED
  BY <1>1, <1>2

(* What FlattenSeq makes of two, three and four parts.                     *)
LEMMA Flatten2 ==
    ASSUME NEW a, NEW b
    PROVE  FlattenSeq(<<a, b>>) = Join(a, b)
<1> DEFINE s == <<a, b>>
           g == [i \in 1..2 |-> IF i = 1 THEN a ELSE a \o b]
<1>1. Len(s) = 2 /\ s[1] = a /\ s[2] = b
  OBVIOUS
<1>2. Joins(g, s)
  BY <1>1 DEF Joins
<1> HIDE DEF g, s
<1>0. Len(s) \in Nat \ {0}
  BY <1>1
<1>3. PICK f : Joins(f, s) /\ FlattenSeq(s) = f[Len(s)]
  BY <1>0, <1>2, FlattenJoins, Zenon
<1>4. 1 \in 1..Len(s) /\ 2 \in 1..Len(s) /\ 2 # 1 /\ 2 - 1 = 1
  BY <1>1
<1>5. f[1] = a
  BY <1>1, <1>3, <1>4, Zenon DEF Joins
<1>6. f[2] = f[1] \o b
  BY <1>1, <1>3, <1>4, Zenon DEF Joins
<1>. QED
  BY <1>1, <1>3, <1>5, <1>6 DEF s, Join

(* The join of three parts.                                                *)
LEMMA Flatten3 ==
    ASSUME NEW a, NEW b, NEW c
    PROVE  FlattenSeq(<<a, b, c>>) = Join(Join(a, b), c)
<1> DEFINE s == <<a, b, c>>
           g == [i \in 1..3 |-> IF i = 1 THEN a ELSE IF i = 2 THEN a \o b ELSE (a \o b) \o c]
<1>1. Len(s) = 3 /\ s[1] = a /\ s[2] = b /\ s[3] = c
  OBVIOUS
<1>2. Joins(g, s)
  BY <1>1 DEF Joins
<1> HIDE DEF g, s
<1>0. Len(s) \in Nat \ {0}
  BY <1>1
<1>3. PICK f : Joins(f, s) /\ FlattenSeq(s) = f[Len(s)]
  BY <1>0, <1>2, FlattenJoins, Zenon
<1>4. /\ 1 \in 1..Len(s) /\ 2 \in 1..Len(s) /\ 3 \in 1..Len(s)
      /\ 2 # 1 /\ 2 - 1 = 1 /\ 3 # 1 /\ 3 - 1 = 2
  BY <1>1
<1>5. f[1] = a
  BY <1>1, <1>3, <1>4, Zenon DEF Joins
<1>6. f[2] = f[1] \o b
  BY <1>1, <1>3, <1>4, Zenon DEF Joins
<1>7. f[3] = f[2] \o c
  BY <1>1, <1>3, <1>4, Zenon DEF Joins
<1>. QED
  BY <1>1, <1>3, <1>5, <1>6, <1>7 DEF s, Join

(* The join of four parts.                                                 *)
LEMMA Flatten4 ==
    ASSUME NEW a, NEW b, NEW c, NEW d
    PROVE  FlattenSeq(<<a, b, c, d>>) = Join(Join(Join(a, b), c), d)
<1> DEFINE s == <<a, b, c, d>>
           g == [i \in 1..4 |-> IF i = 1 THEN a ELSE IF i = 2 THEN a \o b
                   ELSE IF i = 3 THEN (a \o b) \o c ELSE ((a \o b) \o c) \o d]
<1>1. Len(s) = 4 /\ s[1] = a /\ s[2] = b /\ s[3] = c /\ s[4] = d
  OBVIOUS
<1>2. Joins(g, s)
  BY <1>1 DEF Joins
<1> HIDE DEF g, s
<1>0. Len(s) \in Nat \ {0}
  BY <1>1
<1>3. PICK f : Joins(f, s) /\ FlattenSeq(s) = f[Len(s)]
  BY <1>0, <1>2, FlattenJoins, Zenon
<1>4. /\ 1 \in 1..Len(s) /\ 2 \in 1..Len(s) /\ 3 \in 1..Len(s) /\ 4 \in 1..Len(s)
      /\ 2 # 1 /\ 2 - 1 = 1 /\ 3 # 1 /\ 3 - 1 = 2 /\ 4 # 1 /\ 4 - 1 = 3
  BY <1>1
<1>5. f[1] = a
  BY <1>1, <1>3, <1>4, Zenon DEF Joins
<1>6. f[2] = f[1] \o b
  BY <1>1, <1>3, <1>4, Zenon DEF Joins
<1>7. f[3] = f[2] \o c
  BY <1>1, <1>3, <1>4, Zenon DEF Joins
<1>8. f[4] = f[3] \o d
  BY <1>1, <1>3, <1>4, Zenon DEF Joins
<1>. QED
  BY <1>1, <1>3, <1>5, <1>6, <1>7, <1>8 DEF s, Join

(* Names are the same only if their parts are, or neither has a hash and   *)
(* the parts read the same.                                                *)
LEMMA SameName ==
    ASSUME NEW l, NEW c, NEW o, NEW p, NEW m, NEW d, NEW r, NEW q,
           FromParts(l, c, o, p) = FromParts(m, d, r, q)
    PROVE  \/ p = q
           \/ /\ ~HashRequired(c, o, p)
              /\ ~HashRequired(d, r, q)
              /\ FlattenSeq(p) = FlattenSeq(q)
BY DEF FromParts

-----------------------------------------------------------------------------
(* Joins, and when parts can be read back from them.                       *)
LEMMA JoinLen ==
    ASSUME NEW W, NEW a \in Seq(W), NEW b \in Seq(W)
    PROVE  Join(a, b) \in Seq(W) /\ Len(Join(a, b)) = Len(a) + Len(b)
BY DEF Join

(* A word is a part of length one.                                         *)
LEMMA OneWord ==
    ASSUME NEW W, NEW x \in W
    PROVE  <<x>> \in Seq(W) /\ Len(<<x>>) = 1 /\ <<x>>[1] = x
OBVIOUS

(* A part that is neither empty nor of several words is one word.          *)
LEMMA NotEmpty ==
    ASSUME NEW W, NEW a \in Seq(W), a # <<>>, ~(Len(a) > 1)
    PROVE  Len(a) = 1
OBVIOUS

(* The words of the second part.                                           *)
LEMMA ConcatLast ==
    ASSUME NEW W, NEW a \in Seq(W), NEW b \in Seq(W), NEW i \in 1..Len(b)
    PROVE  (a \o b)[Len(a) + i] = b[i]
<1> DEFINE n == Len(a) + i
<1>1. Len(a) \in Nat /\ Len(b) \in Nat /\ i \in Nat /\ i > 0
  OBVIOUS
<1>2. n \in 1..(Len(a) + Len(b)) /\ ~(n <= Len(a)) /\ n - Len(a) = i
  BY <1>1
<1> HIDE DEF n
<1>3. (a \o b)[n] = b[n - Len(a)]
  BY <1>1, <1>2
<1>. QED
  BY <1>2, <1>3 DEF n

(* Parts with the same words are the same.                                 *)
LEMMA SameWords ==
    ASSUME NEW W, NEW a \in Seq(W), NEW c \in Seq(W), Len(a) = Len(c),
           \A i \in 1..Len(a) : a[i] = c[i]
    PROVE  a = c
<1>1. a = [i \in 1..Len(a) |-> a[i]] /\ c = [i \in 1..Len(c) |-> c[i]]
  OBVIOUS
<1>2. [i \in 1..Len(a) |-> a[i]] = [i \in 1..Len(c) |-> c[i]]
  OBVIOUS
<1>. QED
  BY <1>1, <1>2, Zenon

(* Joins whose first parts are of the same length have the same parts.     *)
LEMMA JoinCancel ==
    ASSUME NEW W, NEW a \in Seq(W), NEW b \in Seq(W), NEW c \in Seq(W), NEW d \in Seq(W),
           Join(a, b) = Join(c, d), Len(a) = Len(c)
    PROVE  a = c /\ b = d
<1>0. a \o b = c \o d
  BY DEF Join
<1>1. Len(b) = Len(d)
  <2>1. Len(a \o b) = Len(a) + Len(b) /\ Len(c \o d) = Len(c) + Len(d)
    OBVIOUS
  <2>2. Len(b) \in Nat /\ Len(d) \in Nat /\ Len(c) \in Nat
    OBVIOUS
  <2>. QED
    BY <1>0, <2>1, <2>2
<1>2. ASSUME NEW i \in 1..Len(a) PROVE a[i] = c[i]
  BY <1>0, (a \o b)[i] = a[i], (c \o d)[i] = c[i]
<1>3. ASSUME NEW i \in 1..Len(b) PROVE b[i] = d[i]
  <2>1. (a \o b)[Len(a) + i] = b[i]
    BY ConcatLast
  <2>2. i \in 1..Len(d)
    BY <1>1
  <2>3. (c \o d)[Len(c) + i] = d[i]
    BY <2>2, ConcatLast
  <2>. QED
    BY <1>0, <2>1, <2>3
<1>4. a = c
  BY <1>2, SameWords
<1>5. b = d
  BY <1>1, <1>3, SameWords
<1>. QED
  BY <1>4, <1>5

(* What is joined can be read back if the last part is one word.           *)
LEMMA ShortLast ==
    ASSUME NEW W, NEW a \in Seq(W), NEW b \in Seq(W), NEW c \in Seq(W), NEW d \in Seq(W),
           Len(b) = 1, Len(d) = 1, Join(a, b) = Join(c, d)
    PROVE  a = c /\ b = d
<1>0. Len(Join(a, b)) = Len(a) + Len(b) /\ Len(Join(c, d)) = Len(c) + Len(d)
  BY JoinLen, Zenon
<1>1. Len(a) + 1 = Len(c) + 1
  BY <1>0
<1>2. Len(a) \in Nat /\ Len(c) \in Nat
  OBVIOUS
<1>3. Len(a) = Len(c)
  BY <1>1, <1>2
<1>. QED
  BY <1>3, JoinCancel

-----------------------------------------------------------------------------
(* Names that have a hash because several parts are not constant and one   *)
(* of them has several words.                                              *)
LEMMA Hash2 ==
    ASSUME NEW a, NEW b, NEW o, Len(a) > 1 \/ Len(b) > 1
    PROVE  HashRequired({}, o, <<a, b>>)
<1> DEFINE p == <<a, b>>
<1>1. Cardinality({}) = 0
  BY FS_EmptySet
<1>2. Len(p) = 2 /\ DOMAIN p = 1..2 /\ p[1] = a /\ p[2] = b
  OBVIOUS
<1>. QED
  BY <1>1, <1>2 DEF HashRequired

(* The same for three parts.                                               *)
LEMMA Hash3 ==
    ASSUME NEW a, NEW b, NEW c, NEW o, Len(b) > 1 \/ Len(c) > 1
    PROVE  HashRequired({1}, o, <<a, b, c>>)
<1> DEFINE p == <<a, b, c>>
<1>1. Cardinality({1}) = 1
  BY FS_Singleton
<1>2. Len(p) = 3 /\ DOMAIN p = 1..3 /\ p[2] = b /\ p[3] = c
  OBVIOUS
<1>. QED
  BY <1>1, <1>2 DEF HashRequired

(* The same for four parts.                                                *)
LEMMA Hash4 ==
    ASSUME NEW a, NEW b, NEW c, NEW d, NEW o, Len(b) > 1 \/ Len(c) > 1
    PROVE  HashRequired({1, 4}, o, <<a, b, c, d>>)
<1> DEFINE p == <<a, b, c, d>>
<1>1. Cardinality({1, 4}) = 2
  <2>1. IsFiniteSet({1}) /\ Cardinality({1}) = 1
    BY FS_Singleton
  <2>2. Cardinality({1} \cup {4}) = Cardinality({1}) + 1
    BY <2>1, FS_AddElement, 4 \notin {1}
  <2>3. Cardinality({1} \cup {4}) = 2
    BY <2>1, <2>2
  <2>4. {1} \cup {4} = {1, 4}
    OBVIOUS
  <2>. QED
    BY <2>3, <2>4, Zenon
<1>2. Len(p) = 4 /\ DOMAIN p = 1..4 /\ p[2] = b /\ p[3] = c
  OBVIOUS
<1>. QED
  BY <1>1, <1>2 DEF HashRequired

-----------------------------------------------------------------------------
(* Two parts, of which the first may be empty, are read back.              *)
LEMMA ReadBack2 ==
    ASSUME NEW W, NEW l, NEW o,
           NEW a \in Seq(W), NEW b \in Seq(W), b # <<>>,
           NEW c \in Seq(W), NEW d \in Seq(W), d # <<>>,
           FromParts(l, {}, o, <<a, b>>) = FromParts(l, {}, o, <<c, d>>)
    PROVE  a = c /\ b = d
<1> DEFINE p == <<a, b>>
           q == <<c, d>>
<1>1. p = q \/ (~HashRequired({}, o, p) /\ ~HashRequired({}, o, q)
                /\ FlattenSeq(p) = FlattenSeq(q))
  BY SameName
<1>2. CASE p = q
  BY <1>2
<1>3. CASE ~HashRequired({}, o, p) /\ ~HashRequired({}, o, q)
           /\ FlattenSeq(p) = FlattenSeq(q)
  <2>1. Len(b) = 1 /\ Len(d) = 1
    BY <1>3, Hash2, NotEmpty
  <2>2. Join(a, b) = Join(c, d)
    BY <1>3, Flatten2
  <2>. QED
    BY <2>1, <2>2, ShortLast
<1>. QED
  BY <1>1, <1>2, <1>3

(* The same behind a constant part.                                        *)
LEMMA ReadBack3 ==
    ASSUME NEW W, NEW l, NEW o, NEW w \in Seq(W),
           NEW a \in Seq(W), NEW b \in Seq(W), b # <<>>,
           NEW c \in Seq(W), NEW d \in Seq(W), d # <<>>,
           FromParts(l, {1}, o, <<w, a, b>>) = FromParts(l, {1}, o, <<w, c, d>>)
    PROVE  a = c /\ b = d
<1> DEFINE p == <<w, a, b>>
           q == <<w, c, d>>
<1>1. p = q \/ (~HashRequired({1}, o, p) /\ ~HashRequired({1}, o, q)
                /\ FlattenSeq(p) = FlattenSeq(q))
  BY SameName
<1>2. CASE p = q
  BY <1>2
<1>3. CASE ~HashRequired({1}, o, p) /\ ~HashRequired({1}, o, q)
           /\ FlattenSeq(p) = FlattenSeq(q)
  <2>1. Len(b) = 1 /\ Len(d) = 1
    BY <1>3, Hash3, NotEmpty
  <2>2. Join(Join(w, a), b) = Join(Join(w, c), d)
    BY <1>3, Flatten3
  <2>3. Join(w, a) = Join(w, c) /\ b = d
    <3>1. Join(w, a) \in Seq(W) /\ Join(w, c) \in Seq(W)
      BY JoinLen
    <3>. QED
      BY <2>1, <2>2, <3>1, ShortLast
  <2>. QED
    BY <2>3, JoinCancel
<1>. QED
  BY <1>1, <1>2, <1>3

(* A part between constant parts, or at the end.                           *)
LEMMA ReadBackLast ==
    ASSUME NEW W, NEW l, NEW c, NEW o, NEW w \in Seq(W), NEW a \in Seq(W), NEW b \in Seq(W),
           FromParts(l, c, o, <<w, a>>) = FromParts(l, c, o, <<w, b>>)
    PROVE  a = b
<1> DEFINE p == <<w, a>>
           q == <<w, b>>
<1>1. p = q \/ FlattenSeq(p) = FlattenSeq(q)
  BY SameName
<1>2. CASE p = q
  BY <1>2
<1>3. CASE FlattenSeq(p) = FlattenSeq(q)
  <2>1. Join(w, a) = Join(w, b)
    BY <1>3, Flatten2
  <2>. QED
    BY <2>1, JoinCancel
<1>. QED
  BY <1>1, <1>2, <1>3

(* The same for a part in the middle.                                      *)
LEMMA ReadBackMiddle ==
    ASSUME NEW W, NEW l, NEW c, NEW o, NEW w \in Seq(W), NEW v \in Seq(W), Len(v) = 1,
           NEW a \in Seq(W), NEW b \in Seq(W),
           FromParts(l, c, o, <<w, a, v>>) = FromParts(l, c, o, <<w, b, v>>)
    PROVE  a = b
<1> DEFINE p == <<w, a, v>>
           q == <<w, b, v>>
<1>1. p = q \/ FlattenSeq(p) = FlattenSeq(q)
  BY SameName
<1>2. CASE p = q
  BY <1>2
<1>3. CASE FlattenSeq(p) = FlattenSeq(q)
  <2>1. Join(Join(w, a), v) = Join(Join(w, b), v)
    BY <1>3, Flatten3
  <2>2. Join(w, a) \in Seq(W) /\ Join(w, b) \in Seq(W)
    BY JoinLen
  <2>3. Join(w, a) = Join(w, b)
    BY <2>1, <2>2, ShortLast
  <2>. QED
    BY <2>3, JoinCancel
<1>. QED
  BY <1>1, <1>2, <1>3

(* Two parts, none of them empty, between constant parts.                  *)
LEMMA ReadBackMiddle2 ==
    ASSUME NEW W, NEW l, NEW o, NEW w \in Seq(W), NEW v \in Seq(W), Len(v) = 1,
           NEW a \in Seq(W), NEW b \in Seq(W), b # <<>>,
           NEW c \in Seq(W), NEW d \in Seq(W), d # <<>>,
           FromParts(l, {1, 4}, o, <<w, a, b, v>>) = FromParts(l, {1, 4}, o, <<w, c, d, v>>)
    PROVE  a = c /\ b = d
<1> DEFINE p == <<w, a, b, v>>
           q == <<w, c, d, v>>
<1>1. p = q \/ (~HashRequired({1, 4}, o, p) /\ ~HashRequired({1, 4}, o, q)
                /\ FlattenSeq(p) = FlattenSeq(q))
  BY SameName
<1>2. CASE p = q
  BY <1>2
<1>3. CASE ~HashRequired({1, 4}, o, p) /\ ~HashRequired({1, 4}, o, q)
           /\ FlattenSeq(p) = FlattenSeq(q)
  <2>1. Len(b) = 1 /\ Len(d) = 1
    BY <1>3, Hash4, NotEmpty
  <2>2. Join(Join(Join(w, a), b), v) = Join(Join(Join(w, c), d), v)
    BY <1>3, Flatten4
  <2>3. Join(w, a) \in Seq(W) /\ Join(w, c) \in Seq(W)
    BY JoinLen
  <2>4. Join(Join(w, a), b) \in Seq(W) /\ Join(Join(w, c), d) \in Seq(W)
    BY <2>3, JoinLen
  <2>5. Join(Join(w, a), b) = Join(Join(w, c), d)
    BY <2>2, <2>4, ShortLast
  <2>6. Join(w, a) = Join(w, c) /\ b = d
    BY <2>1, <2>3, <2>5, ShortLast
  <2>. QED
    BY <2>6, JoinCancel
<1>. QED
  BY <1>1, <1>2, <1>3

(* The first word of a join.                                               *)
LEMMA JoinHead ==
    ASSUME NEW W, NEW a \in Seq(W), NEW b \in Seq(W), Len(a) > 0
    PROVE  Join(a, b)[1] = a[1] /\ Len(Join(a, b)) > 0
BY DEF Join

(* It does not matter which two of three parts are joined first.           *)
LEMMA JoinAssociative ==
    ASSUME NEW W, NEW a \in Seq(W), NEW b \in Seq(W), NEW c \in Seq(W)
    PROVE  Join(Join(a, b), c) = Join(a, Join(b, c))
BY DEF Join
=============================================================================
