-------------------------- MODULE StoredFormsProofs --------------------------
(***************************************************************************)
(* The two forms a compiled network is stored in: the QPC container        *)
(* (module QpcContainer) and the metadata in one of its segments (module   *)
(* Metadata), for any callers, data, platforms and bounds.                 *)
(*                                                                         *)
(* First the lemmas about sequences: induction over the natural numbers,   *)
(* joined sequences, insertion and removal.  Then what a container is, how *)
(* it is moved, read and converted, the inductive invariant and the step   *)
(* lemmas.  Then the metadata: no platform runs a network with a feature   *)
(* that it does not know, the regions of the initial image reproduce it,   *)
(* a device can fill the execution context it loads, and who follows the   *)
(* offsets of the structure finds what the flat form says.                 *)
(***************************************************************************)
EXTENDS QpcContainer, Metadata, SequenceTheorems, WellFoundedInduction, TLAPS

\* Induction: a set with 0 that is closed under successor holds every natural number.
LEMMA SetInduction ==
  ASSUME NEW S, 0 \in S, \A n \in Nat : n \in S => n + 1 \in S
  PROVE  Nat \subseteq S
<1> DEFINE Less == OpToRel(<, Nat)
<1>1. IsWellFoundedOn(Less, Nat)
  BY NatLessThanWellFounded
<1>2. \A m, n \in Nat : m < n => <<m, n>> \in Less
  BY DEF OpToRel
<1> HIDE DEF Less
<1>3. SUFFICES ASSUME Nat \ S # {} PROVE FALSE
  OBVIOUS
<1>4. PICK x \in Nat \ S : \A y \in Nat \ S : ~ (<<y, x>> \in Less)
  BY <1>1, <1>3, WFMin
<1>5. x - 1 \in Nat /\ x - 1 < x
  BY <1>4
<1>6. x - 1 \in S
  BY <1>2, <1>4, <1>5
<1>7. x - 1 + 1 \in S
  BY <1>5, <1>6
<1> QED
  BY <1>7, <1>4

\* The same over 1 .. n.
LEMMA UpTo ==
  ASSUME NEW n \in Nat, NEW S, n > 0 => 1 \in S, \A i \in 2 .. n : i - 1 \in S => i \in S
  PROVE  1 .. n \subseteq S
<1> DEFINE T == {k \in Nat : k \in 1 .. n => k \in S}
<1>1. 0 \in T
  OBVIOUS
<1>2. ASSUME NEW k \in Nat, k \in T PROVE k + 1 \in T
  <2> SUFFICES ASSUME k + 1 \in 1 .. n PROVE k + 1 \in S
    OBVIOUS
  <2>1. CASE k = 0
    BY <2>1
  <2>2. CASE k # 0
    <3>1. k \in S /\ k + 1 \in 2 .. n /\ k + 1 - 1 = k
      BY <1>2, <2>2
    <3> QED
      BY <3>1
  <2> QED
    BY <2>1, <2>2
<1> HIDE DEF T
<1>3. Nat \subseteq T
  BY <1>1, <1>2, SetInduction
<1> QED
  BY <1>3 DEF T

\* f is defined by recursion over 1 .. n.
DefinedBy(f, n, a, step) == f[1] = a /\ \A i \in 2 .. n : f[i] = step[<<f[i - 1], i>>]

\* Such a function exists.
LEMMA Recursion ==
  ASSUME NEW n \in Nat, n > 0, NEW V, NEW a \in V, NEW step \in [V \X Nat -> V]
  PROVE  \E f \in [1 .. n -> V] : DefinedBy(f, n, a, step)
<1> DEFINE Up(m) == \E f \in [1 .. m -> V] : f[1] = a /\ \A i \in 2 .. m : f[i] = step[<<f[i - 1], i>>]
           S == {m \in 1 .. n : Up(m)}
<1>1. Up(1)
  <2> DEFINE e == [i \in 1 .. 1 |-> a]
  <2>1. e \in [1 .. 1 -> V] /\ e[1] = a
    OBVIOUS
  <2>2. \A i \in 2 .. 1 : FALSE
    OBVIOUS
  <2> HIDE DEF e
  <2> QED
    BY <2>1, <2>2
<1>2. ASSUME NEW m \in 2 .. n, Up(m - 1) PROVE Up(m)
  <2> DEFINE k == m - 1
  <2>0. k \in Nat /\ k >= 1 /\ m = k + 1
    OBVIOUS
  <2>1. PICK f \in [1 .. k -> V] : f[1] = a /\ \A i \in 2 .. k : f[i] = step[<<f[i - 1], i>>]
    BY <1>2
  <2> HIDE DEF k
  <2> DEFINE g == [i \in 1 .. m |-> IF i = m THEN step[<<f[k], m>>] ELSE f[i]]
  <2>2. <<f[k], m>> \in V \X Nat
    BY <2>0
  <2>3. step[<<f[k], m>>] \in V
    BY <2>2
  <2>4. \A i \in 1 .. m : i # m => i \in 1 .. k
    BY <2>0
  <2>5. g \in [1 .. m -> V]
    BY <2>3, <2>4
  <2>6. g[1] = a
    BY <2>0, <2>1
  <2>7. ASSUME NEW i \in 2 .. m PROVE g[i] = step[<<g[i - 1], i>>]
    <3>1. i - 1 \in 1 .. k /\ i - 1 # m /\ i - 1 \in 1 .. m /\ i \in 1 .. m
      BY <2>0
    <3>2. g[i - 1] = f[i - 1]
      BY <3>1
    <3>3. CASE i = m
      BY <2>0, <3>1, <3>2, <3>3
    <3>4. CASE i # m
      <4>1. i \in 2 .. k
        BY <2>0, <3>4
      <4>2. g[i] = f[i]
        BY <3>1, <3>4
      <4> QED
        BY <2>1, <3>2, <4>1, <4>2
    <3> QED
      BY <3>3, <3>4
  <2> HIDE DEF g
  <2> QED
    BY <2>5, <2>6, <2>7
<1> HIDE DEF Up
<1>3. 1 \in S /\ \A m \in 2 .. n : m - 1 \in S => m \in S
  BY <1>1, <1>2
<1> HIDE DEF S
<1>4. n \in S
  BY <1>3, UpTo
<1> QED
  BY <1>4 DEF S, Up, DefinedBy

\* g[i] is the first i of the sequences s[1], s[2], ..., one after the other.
Joins(g, n, s) == g[1] = s[1] /\ \A i \in 2 .. n : g[i] = g[i - 1] \o s[i]

\* Two such sequences of sequences agree.
LEMMA JoinsUnique ==
  ASSUME NEW n \in Nat, n > 0, NEW s, NEW f, NEW g, Joins(f, n, s), Joins(g, n, s)
  PROVE  f[n] = g[n]
<1> DEFINE S == {i \in Nat : f[i] = g[i]}
<1>1. 1 \in S
  BY DEF Joins
<1>2. ASSUME NEW i \in 2 .. n, i - 1 \in S PROVE i \in S
  <2>1. f[i] = f[i - 1] \o s[i] /\ g[i] = g[i - 1] \o s[i]
    BY DEF Joins
  <2>2. f[i - 1] = g[i - 1] /\ i \in Nat
    BY <1>2
  <2> QED
    BY <2>1, <2>2
<1> HIDE DEF S
<1>3. n \in S
  <2>1. 1 .. n \subseteq S
    BY <1>1, <1>2, UpTo
  <2> QED
    BY <2>1
<1> QED
  BY <1>3 DEF S

\* There is one.
LEMMA JoinsExists ==
  ASSUME NEW V, NEW n \in Nat, n > 0, NEW s, \A i \in 1 .. n : s[i] \in Seq(V)
  PROVE  \E g \in [1 .. n -> Seq(V)] : Joins(g, n, s)
<1> DEFINE W == Seq(V)
           a == s[1]
           el(k) == IF k \in 1 .. n THEN s[k] ELSE <<>>
           st == [x \in W \X Nat |-> x[1] \o el(x[2])]
<1>1. a \in W /\ \A i \in 1 .. n : el(i) = s[i]
  OBVIOUS
<1>2. \A k \in Nat : el(k) \in W
  OBVIOUS
<1>3. \A v, w \in W : v \o w \in W
  OBVIOUS
<1> HIDE DEF W, el
<1>4. st \in [W \X Nat -> W]
  <2>1. ASSUME NEW x \in W \X Nat PROVE x[1] \o el(x[2]) \in W
    BY <1>2, <1>3
  <2> QED
    BY <2>1
<1>5. ASSUME NEW v \in W, NEW i \in 1 .. n PROVE st[<<v, i>>] = v \o s[i]
  <2>1. <<v, i>> \in W \X Nat
    OBVIOUS
  <2>2. st[<<v, i>>] = v \o el(i)
    BY <2>1
  <2> QED
    BY <2>2, <1>1
<1> HIDE DEF st, a
<1>6. PICK g \in [1 .. n -> W] : DefinedBy(g, n, a, st)
  BY <1>1, <1>4, Recursion
<1>7. g[1] = s[1]
  BY <1>6 DEF a, DefinedBy
<1>8. ASSUME NEW i \in 2 .. n PROVE g[i] = g[i - 1] \o s[i]
  <2>1. i \in 1 .. n /\ i - 1 \in 1 .. n
    OBVIOUS
  <2>2. g[i - 1] \in W
    BY <2>1
  <2>3. g[i] = st[<<g[i - 1], i>>]
    BY <1>6 DEF DefinedBy
  <2> QED
    BY <1>5, <2>1, <2>2, <2>3
<1> QED
  BY <1>7, <1>8 DEF W, Joins

\* The function that FlattenSeq defines by recursion joins the sequences.
LEMMA FlattenJoins ==
  ASSUME NEW n \in Nat, n > 0, NEW s, NEW W, \E g \in [1 .. n -> W] : Joins(g, n, s)
  PROVE  Joins(CHOOSE f : f = [i \in 1 .. n |-> IF i = 1 THEN s[i] ELSE f[i - 1] \o s[i]], n, s)
<1>1. PICK g \in [1 .. n -> W] : Joins(g, n, s)
  OBVIOUS
<1>2. \A i \in 1 .. n : g[i] = IF i = 1 THEN s[i] ELSE g[i - 1] \o s[i]
  <2> TAKE i \in 1 .. n
  <2>1. i = 1 \/ i \in 2 .. n
    OBVIOUS
  <2> QED
    BY <1>1, <2>1 DEF Joins
<1>3. g = [i \in 1 .. n |-> IF i = 1 THEN s[i] ELSE g[i - 1] \o s[i]]
  BY <1>2
<1>4. \E f : f = [i \in 1 .. n |-> IF i = 1 THEN s[i] ELSE f[i - 1] \o s[i]]
  BY <1>3
<1>5. ASSUME NEW f, f = [i \in 1 .. n |-> IF i = 1 THEN s[i] ELSE f[i - 1] \o s[i]] PROVE Joins(f, n, s)
  <2>1. \A i \in 1 .. n : f[i] = IF i = 1 THEN s[i] ELSE f[i - 1] \o s[i]
    BY <1>5
  <2>2. ASSUME NEW i \in 2 .. n PROVE f[i] = f[i - 1] \o s[i]
    <3>1. i \in 1 .. n /\ i # 1
      OBVIOUS
    <3> QED
      BY <2>1, <3>1
  <2>3. 1 \in 1 .. n
    OBVIOUS
  <2>4. f[1] = s[1]
    BY <2>1, <2>3
  <2> QED
    BY <2>2, <2>4 DEF Joins
<1> QED
  BY <1>4, <1>5

\* What FlattenSeq computes: the sequences one after the other.
LEMMA FlattenDef ==
  ASSUME NEW V, NEW s \in Seq(Seq(V)), s # <<>>
  PROVE  \E g \in [1 .. Len(s) -> Seq(V)] : Joins(g, Len(s), s) /\ FlattenSeq(s) = g[Len(s)]
<1> DEFINE n == Len(s)
           F == CHOOSE f : f = [i \in 1 .. n |-> IF i = 1 THEN s[i] ELSE f[i - 1] \o s[i]]
<1>1. n \in Nat /\ n > 0 /\ n # 0 /\ \A i \in 1 .. n : s[i] \in Seq(V)
  OBVIOUS
<1>2. FlattenSeq(s) = F[n]
  BY <1>1 DEF FlattenSeq
<1> HIDE DEF n
<1>3. PICK g \in [1 .. n -> Seq(V)] : Joins(g, n, s)
  BY <1>1, JoinsExists
<1>4. Joins(F, n, s)
  BY <1>1, <1>3, FlattenJoins
<1> HIDE DEF F
<1>5. F[n] = g[n]
  BY <1>1, <1>3, <1>4, JoinsUnique
<1> QED
  BY <1>2, <1>3, <1>5 DEF n

\* A function over 1 .. n is a sequence of length n.
LEMMA FunctionIsSeq ==
  ASSUME NEW T, NEW n \in Nat, NEW f \in [1 .. n -> T]
  PROVE  f \in Seq(T) /\ Len(f) = n /\ DOMAIN f = 1 .. n
<1>1. f \in Seq(T)
  BY SeqDef
<1>2. DOMAIN f = 1 .. Len(f) /\ Len(f) \in Nat
  BY <1>1, LenProperties
<1> QED
  BY <1>1, <1>2

\* n sequences over V.
SequencesOver(s, n, V) == \A i \in 1 .. n : s[i] \in Seq(V)

\* Where a sequence lies among the joined ones.
LiesAt(s, g, n, i) ==
  /\ Len(g[i]) - Len(s[i]) \in Nat /\ Len(g[i]) <= Len(g[n])
  /\ \A j \in 1 .. Len(s[i]) : g[n][Len(g[i]) - Len(s[i]) + j] = s[i][j]
\* Each of the joined sequences is found again in the whole.
LEMMA JoinsParts ==
  ASSUME NEW V, NEW n \in Nat, n > 0, NEW s, NEW g, SequencesOver(s, n, V), SequencesOver(g, n, V),
         Joins(g, n, s), NEW i \in 1 .. n
  PROVE  LiesAt(s, g, n, i)
<1> DEFINE S == {k \in Nat : k >= i => /\ Len(g[i]) <= Len(g[k])
                                      /\ \A j \in 1 .. Len(g[i]) : g[k][j] = g[i][j]}
<1>1. 1 \in S
  <2> SUFFICES ASSUME 1 >= i PROVE i = 1
    OBVIOUS
  <2> QED
    OBVIOUS
<1>2. ASSUME NEW k \in 2 .. n, k - 1 \in S PROVE k \in S
  <2> SUFFICES ASSUME k >= i
               PROVE  Len(g[i]) <= Len(g[k]) /\ \A j \in 1 .. Len(g[i]) : g[k][j] = g[i][j]
    OBVIOUS
  <2>1. CASE k = i
    BY <2>1
  <2>2. CASE k # i
    <3>1. k - 1 >= i /\ k - 1 \in 1 .. n /\ k \in 1 .. n
      BY <2>2
    <3>2. Len(g[i]) <= Len(g[k - 1]) /\ \A j \in 1 .. Len(g[i]) : g[k - 1][j] = g[i][j]
      BY <1>2, <3>1
    <3>3. g[k] = g[k - 1] \o s[k] /\ g[k - 1] \in Seq(V) /\ s[k] \in Seq(V) /\ g[i] \in Seq(V)
      BY <3>1 DEF Joins, SequencesOver
    <3>4. /\ Len(g[k]) = Len(g[k - 1]) + Len(s[k]) /\ Len(s[k]) \in Nat /\ Len(g[k - 1]) \in Nat
          /\ \A j \in 1 .. Len(g[k - 1]) : g[k][j] = g[k - 1][j]
      <4> DEFINE a == g[k - 1]
                 b == s[k]
                 c == g[k]
      <4>1. a \in Seq(V) /\ b \in Seq(V) /\ c = a \o b
        BY <3>3
      <4> HIDE DEF a, b, c
      <4>2. Len(c) = Len(a) + Len(b) /\ Len(b) \in Nat /\ Len(a) \in Nat /\ \A j \in 1 .. Len(a) : c[j] = a[j]
        BY <4>1
      <4> QED
        BY <4>2 DEF a, b, c
    <3>5. Len(g[i]) \in Nat
      BY <3>3
    <3>6. Len(g[i]) <= Len(g[k])
      <4>1. Len(g[i]) <= Len(g[k - 1])
        BY <3>2
      <4>2. Len(g[k]) = Len(g[k - 1]) + Len(s[k]) /\ Len(s[k]) \in Nat /\ Len(g[k - 1]) \in Nat
        BY <3>4
      <4> DEFINE a == Len(g[i])
                 b == Len(g[k - 1])
                 c == Len(s[k])
                 d == Len(g[k])
      <4>3. a <= b /\ d = b + c /\ c \in Nat /\ b \in Nat /\ a \in Nat
        BY <4>1, <4>2, <3>5
      <4> HIDE DEF a, b, c, d
      <4>4. a <= d
        BY <4>3
      <4> QED
        BY <4>4 DEF a, d
    <3>7. ASSUME NEW j \in 1 .. Len(g[i]) PROVE g[k][j] = g[i][j]
      <4>1. j \in 1 .. Len(g[k - 1])
        BY <3>2, <3>4, <3>5
      <4> QED
        BY <3>2, <3>4, <4>1
    <3> QED
      BY <3>6, <3>7
  <2> QED
    BY <2>1, <2>2
<1> HIDE DEF S
<1>3. n \in S
  <2>1. 1 .. n \subseteq S
    BY <1>1, <1>2, UpTo
  <2> QED
    BY <2>1
<1>4. /\ Len(g[i]) - Len(s[i]) \in Nat
      /\ \A j \in 1 .. Len(s[i]) : g[i][Len(g[i]) - Len(s[i]) + j] = s[i][j]
  <2>1. CASE i = 1
    <3>1. g[i] = s[i] /\ s[i] \in Seq(V)
      BY <2>1 DEF Joins, SequencesOver
    <3> QED
      BY <3>1
  <2>2. CASE i # 1
    <3>1. i \in 2 .. n /\ i - 1 \in 1 .. n
      BY <2>2
    <3>2. g[i] = g[i - 1] \o s[i] /\ g[i - 1] \in Seq(V) /\ s[i] \in Seq(V)
      BY <3>1 DEF Joins, SequencesOver
    <3> DEFINE a == g[i - 1]
               b == s[i]
               c == g[i]
    <3>3. a \in Seq(V) /\ b \in Seq(V) /\ c = a \o b
      BY <3>2
    <3> HIDE DEF a, b, c
    <3>4. Len(c) - Len(b) = Len(a) /\ Len(a) \in Nat /\ Len(b) \in Nat
          /\ \A j \in 1 .. Len(b) : c[Len(a) + j] = b[j]
      BY <3>3
    <3> QED
      BY <3>4 DEF a, b, c
  <2> QED
    BY <2>1, <2>2
<1>5. Len(g[i]) <= Len(g[n]) /\ \A j \in 1 .. Len(g[i]) : g[n][j] = g[i][j]
  BY <1>3 DEF S
<1>6. Len(g[i]) \in Nat /\ Len(s[i]) \in Nat
  BY DEF SequencesOver
<1>7. ASSUME NEW j \in 1 .. Len(s[i]) PROVE Len(g[i]) - Len(s[i]) + j \in 1 .. Len(g[i])
  <2> DEFINE a == Len(g[i])
             b == Len(s[i])
  <2>1. a \in Nat /\ b \in Nat /\ a - b \in Nat /\ j \in 1 .. b
    BY <1>4, <1>6
  <2> HIDE DEF a, b
  <2>2. a - b + j \in 1 .. a
    BY <2>1
  <2> QED
    BY <2>2 DEF a, b
<1> QED
  BY <1>4, <1>5, <1>7 DEF LiesAt

\* How long joined sequences are at most.
NoLonger(s, n, most) == \A i \in 1 .. n : Len(s[i]) <= most
\* The whole is no longer than n times the longest.
LEMMA JoinsBounded ==
  ASSUME NEW V, NEW n \in Nat, n > 0, NEW s, NEW g, SequencesOver(s, n, V), SequencesOver(g, n, V),
         Joins(g, n, s), NEW most \in Nat, NoLonger(s, n, most)
  PROVE  Len(g[n]) <= n * most
<1> DEFINE S == {k \in Nat : Len(g[k]) <= k * most}
<1>1. 1 \in S
  BY DEF Joins, NoLonger
<1>2. ASSUME NEW k \in 2 .. n, k - 1 \in S PROVE k \in S
  <2>1. k - 1 \in 1 .. n /\ k \in 1 .. n
    OBVIOUS
  <2>2. g[k] = g[k - 1] \o s[k] /\ g[k - 1] \in Seq(V) /\ s[k] \in Seq(V)
    BY <2>1 DEF Joins, SequencesOver
  <2>3. Len(g[k]) = Len(g[k - 1]) + Len(s[k]) /\ Len(s[k]) \in Nat /\ Len(g[k - 1]) \in Nat
    BY <2>2, ConcatProperties
  <2>4. Len(g[k - 1]) <= (k - 1) * most /\ Len(s[k]) <= most
    BY <1>2, <2>1 DEF NoLonger
  <2> DEFINE a == Len(g[k - 1])
             b == Len(s[k])
             c == Len(g[k])
  <2>5. c = a + b /\ a \in Nat /\ b \in Nat /\ a <= (k - 1) * most /\ b <= most
    BY <2>3, <2>4
  <2> HIDE DEF a, b, c
  <2>6. c <= k * most
    BY <2>5
  <2> QED
    BY <2>6 DEF c
<1> HIDE DEF S
<1>3. n \in S
  <2>1. 1 .. n \subseteq S
    BY <1>1, <1>2, UpTo
  <2> QED
    BY <2>1
<1> QED
  BY <1>3 DEF S

\* The data of the segments.
DataOf(segs) == [i \in 1 .. Len(segs) |-> segs[i].data]

\* StartsAt gives every segment the place behind the one before it.
LEMMA StartsFollow ==
  ASSUME NEW segs, NEW n \in Nat, n > 0, n = Len(segs), NEW h \in [1 .. n -> Nat],
         h[1] = 1 + 2 * n, \A i \in 2 .. n : h[i] = h[i - 1] + Len(segs[i - 1].data)
  PROVE  \A i \in 1 .. n : StartsAt(segs)[i] = h[i]
<1> DEFINE at == CHOOSE f : f = [i \in 1 .. n |-> IF i = 1 THEN 1 + 2 * n ELSE f[i - 1] + Len(segs[i - 1].data)]
<1>1. StartsAt(segs) = [i \in 1 .. n |-> at[i]]
  BY DEF StartsAt
<1>2. \A i \in 1 .. n : h[i] = IF i = 1 THEN 1 + 2 * n ELSE h[i - 1] + Len(segs[i - 1].data)
  <2> TAKE i \in 1 .. n
  <2>1. i = 1 \/ i \in 2 .. n
    OBVIOUS
  <2> QED
    BY <2>1
<1>3. h = [i \in 1 .. n |-> IF i = 1 THEN 1 + 2 * n ELSE h[i - 1] + Len(segs[i - 1].data)]
  BY <1>2
<1>4. at = [i \in 1 .. n |-> IF i = 1 THEN 1 + 2 * n ELSE at[i - 1] + Len(segs[i - 1].data)]
  BY <1>3
<1> HIDE DEF at
<1>5. at[1] = 1 + 2 * n
  BY <1>4
<1>6. ASSUME NEW i \in 2 .. n PROVE at[i] = at[i - 1] + Len(segs[i - 1].data)
  <2>1. i \in 1 .. n /\ i # 1
    OBVIOUS
  <2> QED
    BY <1>4, <2>1
<1> DEFINE S == {i \in Nat : at[i] = h[i]}
<1>7. 1 \in S
  BY <1>5
<1>8. ASSUME NEW i \in 2 .. n, i - 1 \in S PROVE i \in S
  <2>1. at[i] = at[i - 1] + Len(segs[i - 1].data) /\ h[i] = h[i - 1] + Len(segs[i - 1].data)
    BY <1>6
  <2>2. at[i - 1] = h[i - 1] /\ i \in Nat
    BY <1>8
  <2> QED
    BY <2>1, <2>2
<1> HIDE DEF S
<1>9. 1 .. n \subseteq S
  BY <1>7, <1>8, UpTo
<1> QED
  BY <1>1, <1>9 DEF S

\* segs is a list of n segments with data in Seq(V).
DataIn(segs, n, V) == n = Len(segs) /\ \A i \in 1 .. n : segs[i].data \in Seq(V)

\* The data of the segments, one after the other.
LEMMA DataOfFacts ==
  ASSUME NEW V, NEW segs, NEW n \in Nat, DataIn(segs, n, V)
  PROVE  /\ DataOf(segs) \in Seq(Seq(V)) /\ Len(DataOf(segs)) = n
         /\ \A i \in 1 .. n : DataOf(segs)[i] = segs[i].data
<1>1. DataOf(segs) \in [1 .. n -> Seq(V)] /\ \A i \in 1 .. n : DataOf(segs)[i] = segs[i].data
  BY DEF DataOf, DataIn
<1> QED
  BY <1>1, FunctionIsSeq

\* Where the data of the segments lies, among all data and in the container.
Apart(segs, n, D) ==
  \A i \in 1 .. n :
    /\ StartsAt(segs)[i] \in Nat /\ StartsAt(segs)[i] >= 1 + 2 * n
    /\ StartsAt(segs)[i] + Len(segs[i].data) <= 1 + 2 * n + Len(D)
    /\ \A j \in 1 .. Len(segs[i].data) : D[StartsAt(segs)[i] - (1 + 2 * n) + j] = segs[i].data[j]

\* The data of the segments lie apart, each where StartsAt says (BuildFromSegments writes them there).
LEMMA DataApart ==
  ASSUME NEW V, NEW segs, NEW n \in Nat, DataIn(segs, n, V)
  PROVE  FlattenSeq(DataOf(segs)) \in Seq(V) /\ Apart(segs, n, FlattenSeq(DataOf(segs)))
<1> DEFINE s == DataOf(segs)
           D == FlattenSeq(s)
<1>1. s \in Seq(Seq(V)) /\ Len(s) = n /\ \A i \in 1 .. n : s[i] = segs[i].data
  BY DataOfFacts
<1>2. CASE n = 0
  <2> HIDE DEF s
  <2>1. s = <<>>
    BY <1>1, <1>2
  <2>2. D = <<>>
    BY <2>1 DEF FlattenSeq
  <2> HIDE DEF D
  <2>3. D \in Seq(V)
    BY <2>2
  <2>4. Apart(segs, n, D)
    BY <1>2 DEF Apart
  <2> QED
    BY <2>3, <2>4 DEF s, D
<1>3. CASE n > 0
  <2> HIDE DEF s
  <2>1. s # <<>>
    BY <1>1, <1>3
  <2>2. PICK g \in [1 .. n -> Seq(V)] : Joins(g, n, s) /\ D = g[n]
    BY <1>1, <2>1, FlattenDef
  <2> HIDE DEF D
  <2>3. SequencesOver(s, n, V) /\ SequencesOver(g, n, V)
    BY <1>1 DEF SequencesOver
  <2>4. D \in Seq(V)
    BY <1>3, <2>2
  <2> DEFINE before(i) == Len(g[i]) - Len(s[i])
             h == [i \in 1 .. n |-> 1 + 2 * n + before(i)]
  <2>5. ASSUME NEW i \in 1 .. n
        PROVE  /\ before(i) \in Nat /\ before(i) + Len(s[i]) <= Len(D) /\ Len(s[i]) \in Nat
               /\ \A j \in 1 .. Len(s[i]) : D[before(i) + j] = s[i][j]
    <3>1. Len(s[i]) \in Nat /\ Len(g[i]) \in Nat /\ Len(D) \in Nat
      BY <2>3, <2>4 DEF SequencesOver
    <3>2. /\ before(i) \in Nat /\ Len(g[i]) <= Len(g[n])
          /\ \A j \in 1 .. Len(s[i]) : g[n][before(i) + j] = s[i][j]
      <4>1. LiesAt(s, g, n, i)
        BY <1>3, <2>2, <2>3, JoinsParts
      <4> QED
        BY <4>1 DEF LiesAt
    <3>3. before(i) + Len(s[i]) = Len(g[i])
      BY <3>1
    <3> HIDE DEF before
    <3> QED
      BY <2>2, <3>1, <3>2, <3>3
  <2>6. before(1) = 0
    <3>1. g[1] = s[1] /\ Len(g[1]) \in Nat
      BY <2>2, <2>3, <1>3 DEF Joins, SequencesOver
    <3> QED
      BY <3>1
  <2>7. ASSUME NEW i \in 2 .. n PROVE before(i) = before(i - 1) + Len(segs[i - 1].data)
    <3>1. i \in 1 .. n /\ i - 1 \in 1 .. n
      BY <1>3
    <3>2. g[i] = g[i - 1] \o s[i] /\ g[i - 1] \in Seq(V) /\ s[i] \in Seq(V)
      BY <2>2, <2>3, <3>1 DEF Joins, SequencesOver
    <3>3. Len(g[i]) = Len(g[i - 1]) + Len(s[i])
      BY <3>2, ConcatProperties
    <3>4. s[i - 1] = segs[i - 1].data
      BY <1>1, <3>1
    <3>5. Len(g[i - 1]) \in Nat /\ Len(s[i]) \in Nat /\ Len(s[i - 1]) \in Nat
      BY <2>5, <3>1, <3>2
    <3>6. before(i) = Len(g[i - 1]) /\ before(i - 1) = Len(g[i - 1]) - Len(s[i - 1])
      BY <3>3, <3>5
    <3>7. before(i) = before(i - 1) + Len(s[i - 1])
      <4> DEFINE a == Len(g[i - 1])
                 b == Len(s[i - 1])
                 c == before(i)
                 d == before(i - 1)
      <4>1. c = a /\ d = a - b /\ a \in Nat /\ b \in Nat
        BY <3>5, <3>6
      <4> HIDE DEF a, b, c, d
      <4>2. c = d + b
        BY <4>1
      <4> QED
        BY <4>2 DEF b, c, d
    <3> QED
      BY <3>4, <3>7
  <2> HIDE DEF before
  <2>8. h \in [1 .. n -> Nat] /\ \A i \in 1 .. n : h[i] = 1 + 2 * n + before(i)
    BY <2>5
  <2> HIDE DEF h
  <2>9. h[1] = 1 + 2 * n
    BY <1>3, <2>6, <2>8
  <2>10. ASSUME NEW i \in 2 .. n PROVE h[i] = h[i - 1] + Len(segs[i - 1].data)
    <3>1. i \in 1 .. n /\ i - 1 \in 1 .. n
      BY <1>3
    <3>2. h[i] = 1 + 2 * n + before(i) /\ h[i - 1] = 1 + 2 * n + before(i - 1)
      BY <2>8, <3>1
    <3>3. before(i) = before(i - 1) + Len(segs[i - 1].data) /\ before(i - 1) \in Nat
      BY <2>5, <2>7, <3>1
    <3>4. Len(segs[i - 1].data) \in Nat
      BY <1>1, <2>5, <3>1
    <3> QED
      BY <3>2, <3>3, <3>4
  <2>11. \A i \in 1 .. n : StartsAt(segs)[i] = h[i]
    BY <1>3, <2>8, <2>9, <2>10, StartsFollow DEF DataIn
  <2>12. ASSUME NEW i \in 1 .. n
         PROVE  /\ StartsAt(segs)[i] \in Nat /\ StartsAt(segs)[i] >= 1 + 2 * n
                /\ StartsAt(segs)[i] + Len(segs[i].data) <= 1 + 2 * n + Len(D)
                /\ \A j \in 1 .. Len(segs[i].data) : D[StartsAt(segs)[i] - (1 + 2 * n) + j] = segs[i].data[j]
    <3> DEFINE a == before(i)
               c == Len(s[i])
               e == StartsAt(segs)[i]
               d == Len(D)
    <3>1. e = 1 + 2 * n + a /\ s[i] = segs[i].data
      BY <1>1, <2>8, <2>11
    <3>2. a \in Nat /\ c \in Nat /\ a + c <= d /\ \A j \in 1 .. c : D[a + j] = s[i][j]
      BY <2>5
    <3>3. d \in Nat
      BY <2>4
    <3> HIDE DEF a, c, e, d
    <3>4. e \in Nat /\ e >= 1 + 2 * n /\ e + c <= 1 + 2 * n + d /\ e - (1 + 2 * n) = a
      BY <3>1, <3>2, <3>3
    <3>5. \A j \in 1 .. c : D[e - (1 + 2 * n) + j] = s[i][j]
      BY <3>2, <3>4
    <3> QED
      BY <3>1, <3>4, <3>5 DEF c, e, d
  <2>13. Apart(segs, n, D)
    BY <2>12 DEF Apart
  <2> QED
    BY <2>4, <2>13 DEF D, s
<1> QED
  BY <1>2, <1>3

\* How much data there is at most.
LEMMA DataBounded ==
  ASSUME NEW V, NEW segs, NEW n \in Nat, DataIn(segs, n, V), NEW most \in Nat,
         NoLonger(DataOf(segs), n, most)
  PROVE  Len(FlattenSeq(DataOf(segs))) <= n * most
<1> DEFINE s == DataOf(segs)
<1>1. s \in Seq(Seq(V)) /\ Len(s) = n
  BY DataOfFacts
<1>4. NoLonger(s, n, most)
  OBVIOUS
<1> HIDE DEF s
<1>2. CASE n = 0
  <2>1. s = <<>> /\ FlattenSeq(s) = s
    BY <1>1, <1>2 DEF FlattenSeq
  <2>2. Len(FlattenSeq(s)) = 0 /\ n * most = 0
    BY <1>2, <2>1
  <2> QED
    BY <2>2 DEF s
<1>3. CASE n > 0
  <2>1. s # <<>>
    BY <1>1, <1>3
  <2>2. PICK g \in [1 .. n -> Seq(V)] : Joins(g, n, s) /\ FlattenSeq(s) = g[n]
    BY <1>1, <2>1, FlattenDef
  <2>3. SequencesOver(s, n, V) /\ SequencesOver(g, n, V)
    BY <1>1 DEF SequencesOver
  <2>4. Len(g[n]) <= n * most
    BY <1>3, <1>4, <2>2, <2>3, JoinsBounded
  <2> QED
    BY <2>2, <2>4 DEF s
<1> QED
  BY <1>2, <1>3

-----------------------------------------------------------------------------
(* The cells of a container.                                               *)

\* all is made of two sequences, or of an element and three sequences.
TwoParts(all, a, b) ==
  /\ Len(all) = Len(a) + Len(b)
  /\ \A i \in 1 .. Len(a) : all[i] = a[i]
  /\ \A i \in 1 .. Len(b) : all[Len(a) + i] = b[i]
FourParts(all, h, a, b, c) ==
  /\ Len(all) = 1 + Len(a) + Len(b) + Len(c) /\ all[1] = h
  /\ \A i \in 1 .. Len(a) : all[1 + i] = a[i]
  /\ \A i \in 1 .. Len(b) : all[1 + Len(a) + i] = b[i]
  /\ \A i \in 1 .. Len(c) : all[1 + Len(a) + Len(b) + i] = c[i]

\* Joining two sequences, cell by cell.
LEMMA TwoPartsOf ==
  ASSUME NEW V, NEW a \in Seq(V), NEW b \in Seq(V)
  PROVE  a \o b \in Seq(V) /\ TwoParts(a \o b, a, b)
<1> DEFINE c == a \o b
<1>1. c \in Seq(V) /\ Len(c) = Len(a) + Len(b) /\ Len(a) \in Nat /\ Len(b) \in Nat
  OBVIOUS
<1>2. \A i \in 1 .. Len(a) : c[i] = a[i]
  OBVIOUS
<1>3. \A i \in 1 .. Len(b) : c[Len(a) + i] = b[i]
  OBVIOUS
<1> HIDE DEF c
<1>4. c \in Seq(V) /\ TwoParts(c, a, b)
  BY <1>1, <1>2, <1>3 DEF TwoParts
<1> QED
  BY <1>4 DEF c

\* Joining a header, entries, names and data, cell by cell.
LEMMA FourPartsOf ==
  ASSUME NEW V, NEW h \in V, NEW a \in Seq(V), NEW b \in Seq(V), NEW c \in Seq(V)
  PROVE  <<h>> \o a \o b \o c \in Seq(V) /\ FourParts(<<h>> \o a \o b \o c, h, a, b, c)
<1> DEFINE x == <<h>>
           y == x \o a
           z == y \o b
           all == z \o c
<1>1. x \in Seq(V) /\ Len(x) = 1 /\ x[1] = h
  OBVIOUS
<1>2. Len(a) \in Nat /\ Len(b) \in Nat /\ Len(c) \in Nat
  OBVIOUS
<1> HIDE DEF x
<1>3. y \in Seq(V) /\ TwoParts(y, x, a)
  BY <1>1, TwoPartsOf
<1> HIDE DEF y
<1>4. z \in Seq(V) /\ TwoParts(z, y, b)
  BY <1>3, TwoPartsOf
<1> HIDE DEF z
<1>5. all \in Seq(V) /\ TwoParts(all, z, c)
  BY <1>4, TwoPartsOf
<1> HIDE DEF all
<1>6. Len(y) = 1 + Len(a) /\ Len(z) = 1 + Len(a) + Len(b) /\ Len(all) = 1 + Len(a) + Len(b) + Len(c)
  BY <1>1, <1>2, <1>3, <1>4, <1>5 DEF TwoParts
<1>7. ASSUME NEW i \in 1 .. Len(z) PROVE all[i] = z[i]
  BY <1>5 DEF TwoParts
<1>8. ASSUME NEW i \in 1 .. Len(y) PROVE i \in 1 .. Len(z) /\ z[i] = y[i]
  BY <1>2, <1>4, <1>6 DEF TwoParts
<1>9. all[1] = h
  <2>1. 1 \in 1 .. Len(y) /\ 1 \in 1 .. Len(x)
    BY <1>1, <1>2, <1>6
  <2>2. y[1] = x[1]
    BY <2>1, <1>3 DEF TwoParts
  <2> QED
    BY <1>1, <1>7, <1>8, <2>1, <2>2
<1>10. ASSUME NEW i \in 1 .. Len(a) PROVE all[1 + i] = a[i]
  <2>1. 1 + i \in 1 .. Len(y)
    BY <1>2, <1>6
  <2>2. y[1 + i] = a[i]
    BY <1>1, <1>3 DEF TwoParts
  <2> QED
    BY <1>7, <1>8, <2>1, <2>2
<1>11. ASSUME NEW i \in 1 .. Len(b) PROVE all[1 + Len(a) + i] = b[i]
  <2>1. 1 + Len(a) + i \in 1 .. Len(z)
    BY <1>2, <1>6
  <2>2. z[1 + Len(a) + i] = b[i]
    BY <1>4, <1>6 DEF TwoParts
  <2> QED
    BY <1>7, <2>1, <2>2
<1>12. ASSUME NEW i \in 1 .. Len(c) PROVE all[1 + Len(a) + Len(b) + i] = c[i]
  BY <1>5, <1>6 DEF TwoParts
<1>13. all \in Seq(V) /\ FourParts(all, h, a, b, c)
  BY <1>5, <1>6, <1>9, <1>10, <1>11, <1>12 DEF FourParts
<1> QED
  BY <1>13 DEF all, z, y, x

\* What the cells of a container hold.
HeaderCell(n, size, base, images) ==
  [is |-> "header", val |-> [size |-> size, base |-> base, numImages |-> n, images |-> images]]
EntryCell(g, name, start) ==
  [is |-> "segment", val |-> [size |-> Len(g.data), offset |-> g.offset, name |-> name, start |-> start]]
NameCell(g) == [is |-> "name", val |-> g.name]
DataCell(v) == [is |-> "data", val |-> v]

\* cells are those of a container with the header hdr, n segments segs and data D.
HasCells(cells, hdr, segs, n, D, namePtrs, startPtrs) ==
  /\ Len(cells) = 1 + 2 * n + Len(D)
  /\ cells[1] = hdr
  /\ \A i \in 1 .. n : /\ cells[1 + i] = EntryCell(segs[i], namePtrs[i], startPtrs[i])
                       /\ cells[1 + n + i] = NameCell(segs[i])
  /\ \A k \in 1 .. Len(D) : cells[1 + 2 * n + k] = DataCell(D[k])

\* The cells of an image are the header, the entries, the names and the data, in this order.
LEMMA ImageCells ==
  ASSUME NEW V, NEW segs, NEW n \in Nat, DataIn(segs, n, V),
         NEW size, NEW base, NEW images, NEW namePtrs, NEW startPtrs
  PROVE  HasCells(Image(segs, size, base, images, namePtrs, startPtrs), HeaderCell(n, size, base, images),
                  segs, n, FlattenSeq(DataOf(segs)), namePtrs, startPtrs)
<1> DEFINE D == FlattenSeq(DataOf(segs))
           h == HeaderCell(n, size, base, images)
           a == [i \in 1 .. n |-> EntryCell(segs[i], namePtrs[i], startPtrs[i])]
           b == [i \in 1 .. n |-> NameCell(segs[i])]
           c == [i \in 1 .. Len(D) |-> DataCell(D[i])]
           im == Image(segs, size, base, images, namePtrs, startPtrs)
           W == {h} \union {a[i] : i \in 1 .. n} \union {b[i] : i \in 1 .. n} \union {c[i] : i \in 1 .. Len(D)}
<1>1. im = <<h>> \o a \o b \o c
  BY DEF Image, DataIn, DataOf, HeaderCell, EntryCell, NameCell, DataCell
<1>2. D \in Seq(V)
  BY DataApart
<1>3. Len(D) \in Nat
  BY <1>2
<1> HIDE DEF D, im, h
<1>4. a \in [1 .. n -> W] /\ b \in [1 .. n -> W] /\ c \in [1 .. Len(D) -> W] /\ h \in W
  OBVIOUS
<1>5. /\ \A i \in 1 .. n : a[i] = EntryCell(segs[i], namePtrs[i], startPtrs[i])
      /\ \A i \in 1 .. n : b[i] = NameCell(segs[i])
      /\ \A k \in 1 .. Len(D) : c[k] = DataCell(D[k])
  OBVIOUS
<1> HIDE DEF a, b, c, W
<1>6. a \in Seq(W) /\ Len(a) = n /\ b \in Seq(W) /\ Len(b) = n /\ c \in Seq(W) /\ Len(c) = Len(D)
  BY <1>3, <1>4, FunctionIsSeq
<1>7. im \in Seq(W) /\ FourParts(im, h, a, b, c)
  BY <1>1, <1>4, <1>6, FourPartsOf
<1>8. Len(im) = 1 + 2 * n + Len(D) /\ 1 + n + n = 1 + 2 * n
  BY <1>3, <1>6, <1>7 DEF FourParts
<1>10. ASSUME NEW i \in 1 .. n
       PROVE  im[1 + i] = EntryCell(segs[i], namePtrs[i], startPtrs[i]) /\ im[1 + n + i] = NameCell(segs[i])
  BY <1>5, <1>6, <1>7 DEF FourParts
<1>11. ASSUME NEW k \in 1 .. Len(D) PROVE im[1 + 2 * n + k] = DataCell(D[k])
  BY <1>5, <1>6, <1>7, <1>8 DEF FourParts
<1>12. im[1] = h
  BY <1>7 DEF FourParts
<1> QED
  BY <1>8, <1>10, <1>11, <1>12 DEF HasCells, D, im, h

\* The bound on the data of a segment that the slots are made for.
MaxChunks == CHOOSE most \in 1 .. Room : HasRoomFor(most)

\* What the data of segment n may be, and a segment.
DataOK(n, data) ==
  /\ data \in Seq(Chunks) /\ Len(data) <= MaxChunks
  /\ n = Elf => WellFormedElf(data) /\ (HasSection(data, "metadata_fb") \/ Len(data) < MaxChunks)
SegmentOK(g) ==
  DataOK(g.name, g.data) /\ g.offset <= Len(g.data) /\ (g.name = Elf => g.offset = 0)

\* The lists of segments that containers are made of.
SegLists ==
  {segs \in Seq([name : Names, data : Seq(Chunks), offset : Nat]) :
     /\ Len(segs) <= Len(NameOrder)
     /\ \A i \in 1 .. Len(segs) : SegmentOK(segs[i])
     /\ \A i, j \in 1 .. Len(segs) : segs[i].name = segs[j].name => i = j}

\* cells are those of a container at base with the segments segs.
AllData(segs) == FlattenSeq(DataOf(segs))
IsContainer(cells, segs, base) ==
  LET n == Len(segs)
      d == Len(AllData(segs))
  IN /\ Len(cells) = 1 + 2 * n + d /\ cells[1] = HeaderCell(n, 1 + 2 * n + d, base, base + 1)
     /\ \A i \in 1 .. n : /\ cells[1 + i] = EntryCell(segs[i], base + n + i, base + StartsAt(segs)[i])
                          /\ cells[1 + n + i] = NameCell(segs[i])
     /\ \A k \in 1 .. d : cells[1 + 2 * n + k] = DataCell(AllData(segs)[k])

\* The bound on the data of a segment leaves room for every container (RoomAssumption).
LEMMA MaxChunksFits ==
  MaxChunks \in Nat /\ HasRoomFor(MaxChunks)
BY RoomAssumption DEF MaxChunks

\* What a segment of a well-formed list is.
LEMMA SegListFacts ==
  ASSUME NEW segs \in SegLists
  PROVE  /\ Len(segs) \in Nat /\ Len(segs) <= Len(NameOrder) /\ DataIn(segs, Len(segs), Chunks)
         /\ \A i \in 1 .. Len(segs) :
              /\ segs[i] = [name |-> segs[i].name, data |-> segs[i].data, offset |-> segs[i].offset]
              /\ segs[i].name \in Names /\ segs[i].data \in Seq(Chunks) /\ segs[i].offset \in Nat
              /\ SegmentOK(segs[i])
         /\ \A i, j \in 1 .. Len(segs) : segs[i].name = segs[j].name => i = j
<1> DEFINE T == [name : Names, data : Seq(Chunks), offset : Nat]
<1>1. segs \in Seq(T)
  BY DEF SegLists
<1>2. Len(segs) \in Nat /\ \A i \in 1 .. Len(segs) : segs[i] \in T
  <2> HIDE DEF T
  <2> QED
    BY <1>1
<1> QED
  BY <1>2 DEF SegLists, DataIn

\* Multiplication is monotone.
LEMMA Monotone ==
  ASSUME NEW k \in Nat, NEW a \in Nat, NEW b \in Nat, a <= b
  PROVE  a * k <= b * k
<1>1. PICK d \in Nat : b = a + d
  <2>1. b - a \in Nat /\ b = a + (b - a)
    OBVIOUS
  <2> QED
    BY <2>1
<1>2. b * k = a * k + d * k /\ d * k \in Nat /\ a * k \in Nat
  BY <1>1
<1> QED
  BY <1>2

\* A container of a well-formed list fits in a slot, its size counts every cell (totalSize of Finalize).
LEMMA SizeFits ==
  ASSUME NEW segs \in SegLists
  PROVE  /\ AllData(segs) \in Seq(Chunks) /\ Len(AllData(segs)) \in Nat
         /\ Apart(segs, Len(segs), AllData(segs))
         /\ TotalSize(segs) = 1 + 2 * Len(segs) + Len(AllData(segs)) /\ TotalSize(segs) <= Room
<1> DEFINE n == Len(segs)
           d == Len(AllData(segs))
           N == Len(NameOrder)
           M == MaxChunks
<1>1. n \in Nat /\ n <= N /\ DataIn(segs, n, Chunks)
  BY SegListFacts
<1>2. AllData(segs) \in Seq(Chunks) /\ Apart(segs, n, AllData(segs))
  BY <1>1, DataApart DEF AllData
<1>3. d \in Nat /\ TotalSize(segs) = 1 + 2 * n + d
  BY <1>2 DEF TotalSize, AllData, DataOf
<1>4. M \in Nat /\ 1 + N * (2 + M) <= Room /\ Room \in Nat /\ N \in Nat
  BY MaxChunksFits, SlotsAssumption, NamesAssumption DEF HasRoomFor
<1>5. NoLonger(DataOf(segs), n, M)
  <2>1. \A i \in 1 .. n : DataOf(segs)[i] = segs[i].data
    BY <1>1, DataOfFacts
  <2>2. \A i \in 1 .. n : Len(segs[i].data) <= M
    BY SegListFacts DEF SegmentOK, DataOK
  <2> QED
    BY <2>1, <2>2 DEF NoLonger
<1> HIDE DEF n, d, N, M
<1>6. d <= n * M
  BY <1>1, <1>4, <1>5, DataBounded DEF AllData, d
<1>7. n * (2 + M) <= N * (2 + M)
  BY <1>1, <1>4, Monotone
<1>8. n * (2 + M) = 2 * n + n * M /\ n * M \in Nat /\ N * (2 + M) \in Nat
  BY <1>1, <1>4
<1>9. 1 + 2 * n + d <= Room
  BY <1>1, <1>3, <1>4, <1>6, <1>7, <1>8
<1> QED
  BY <1>2, <1>3, <1>9 DEF n, d

\* What Image makes when it is given the size and pointers into the container.
LEMMA ImageIsContainer ==
  ASSUME NEW segs \in SegLists, NEW base \in Nat, NEW namePtrs, NEW startPtrs,
         \A i \in 1 .. Len(segs) : /\ namePtrs[i] = base + Len(segs) + i
                                   /\ startPtrs[i] = base + StartsAt(segs)[i]
  PROVE  IsContainer(Image(segs, TotalSize(segs), base, base + 1, namePtrs, startPtrs), segs, base)
<1>1. Len(segs) \in Nat /\ DataIn(segs, Len(segs), Chunks)
  BY SegListFacts
<1>2. HasCells(Image(segs, TotalSize(segs), base, base + 1, namePtrs, startPtrs),
               HeaderCell(Len(segs), TotalSize(segs), base, base + 1),
               segs, Len(segs), AllData(segs), namePtrs, startPtrs)
  BY <1>1, ImageCells DEF AllData
<1>3. TotalSize(segs) = 1 + 2 * Len(segs) + Len(AllData(segs))
  BY SizeFits
<1> QED
  BY <1>2, <1>3 DEF HasCells, IsContainer

\* What a slot is used for.
Objects == [kind : {"free", "handle", "copy"}, builds : Nat, namesAt : Seq(Nat), startsAt : Seq(Nat)]

\* The recorded offsets are one natural number per segment.
LEMMA OffsetsAreNaturals ==
  ASSUME NEW segs \in SegLists
  PROVE  /\ NamesAt(segs) \in Seq(Nat) /\ Len(NamesAt(segs)) = Len(segs)
         /\ StartsAt(segs) \in Seq(Nat) /\ Len(StartsAt(segs)) = Len(segs)
         /\ \A i \in 1 .. Len(segs) : NamesAt(segs)[i] = Len(segs) + i
<1>1. Len(segs) \in Nat
  BY SegListFacts
<1>2. NamesAt(segs) \in [1 .. Len(segs) -> Nat] /\ \A i \in 1 .. Len(segs) : NamesAt(segs)[i] = Len(segs) + i
  BY <1>1 DEF NamesAt
<1>3. \A i \in 1 .. Len(segs) : StartsAt(segs)[i] \in Nat
  BY SizeFits DEF Apart
<1>4. StartsAt(segs) = [i \in 1 .. Len(segs) |-> StartsAt(segs)[i]]
  BY DEF StartsAt
<1>5. StartsAt(segs) \in [1 .. Len(segs) -> Nat]
  BY <1>3, <1>4
<1> QED
  BY <1>1, <1>2, <1>5, FunctionIsSeq

\* A handle without recorded offsets gets a container when it is serialised.
LEMMA SerializedIsContainer ==
  ASSUME NEW segs \in SegLists, NEW base \in Nat,
         NEW handle \in Objects, handle.namesAt = <<>>, handle.startsAt = <<>>
  PROVE  /\ IsContainer(SerializedCells(handle, segs, base), segs, base)
         /\ Serialized(handle, segs) \in Objects /\ Serialized(handle, segs).builds > 0
<1> DEFINE n == Len(segs)
           a == NamesAt(segs)
           b == StartsAt(segs)
           h == Serialized(handle, segs)
<1>1. n \in Nat /\ a \in Seq(Nat) /\ Len(a) = n /\ b \in Seq(Nat) /\ Len(b) = n /\ \A i \in 1 .. n : a[i] = n + i
  BY OffsetsAreNaturals, SegListFacts
<1> DEFINE x == handle.namesAt \o a \o a
           y == handle.startsAt \o b \o b
<1>2. h = [handle EXCEPT !.builds = @ + 1, !.namesAt = x, !.startsAt = y]
  BY DEF Serialized
<1> HIDE DEF a, b, h
<1>3. x = a \o a /\ y = b \o b
  <2>1. <<>> \o a = a /\ <<>> \o b = b
    BY <1>1, ConcatEmptySeq
  <2> QED
    BY <2>1
<1> HIDE DEF x, y
<1>4. h.namesAt = x /\ h.startsAt = y /\ h.builds = handle.builds + 1 /\ h.kind = handle.kind
      /\ h = [kind |-> h.kind, builds |-> h.builds, namesAt |-> h.namesAt, startsAt |-> h.startsAt]
  BY <1>2 DEF Objects
<1>5. x \in Seq(Nat) /\ TwoParts(x, a, a) /\ y \in Seq(Nat) /\ TwoParts(y, b, b)
  BY <1>1, <1>3, TwoPartsOf
<1>6. h \in Objects /\ h.builds > 0
  <2>1. h.kind \in {"free", "handle", "copy"} /\ h.builds \in Nat /\ h.builds > 0
        /\ h.namesAt \in Seq(Nat) /\ h.startsAt \in Seq(Nat)
    BY <1>4, <1>5 DEF Objects
  <2> QED
    BY <2>1, <1>4 DEF Objects
<1> DEFINE np == [i \in 1 .. n |-> base + h.namesAt[i]]
           sp == [i \in 1 .. n |-> base + h.startsAt[i]]
<1>7. ASSUME NEW i \in 1 .. n PROVE np[i] = base + n + i /\ sp[i] = base + b[i]
  <2>1. x[i] = a[i] /\ y[i] = b[i] /\ a[i] = n + i
    BY <1>1, <1>5 DEF TwoParts
  <2>2. np[i] = base + x[i] /\ sp[i] = base + y[i]
    BY <1>4
  <2>3. np[i] = base + (n + i) /\ sp[i] = base + b[i]
    BY <2>1, <2>2
  <2>4. base + (n + i) = base + n + i
    BY <1>1
  <2> QED
    BY <2>3, <2>4
<1>8. SerializedCells(handle, segs, base) = Image(segs, TotalSize(segs), base, base + 1, np, sp)
  BY DEF SerializedCells, h
<1> HIDE DEF np, sp
<1>9. IsContainer(Image(segs, TotalSize(segs), base, base + 1, np, sp), segs, base)
  BY <1>7, ImageIsContainer DEF b, n
<1> QED
  BY <1>6, <1>8, <1>9 DEF h

\* Moving a container to another address.
MovedEntry(e, x, y) == [e EXCEPT !.val.name = x, !.val.start = y]
MovedHeader(h, x, y) == [is |-> "header", val |-> [h EXCEPT !.images = x, !.base = y]]

\* An entry whose two pointers are replaced is the entry with these pointers.
LEMMA EntryMoved ==
  ASSUME NEW g, NEW name, NEW start, NEW x, NEW y, NEW e, e = EntryCell(g, name, start)
  PROVE  MovedEntry(e, x, y) = EntryCell(g, x, y)
<1> DEFINE f == [e EXCEPT !.val.name = x]
<1>1. MovedEntry(e, x, y) = [f EXCEPT !.val.start = y]
  BY DEF MovedEntry
<1>2. f = EntryCell(g, x, start)
  BY DEF EntryCell
<1> HIDE DEF f
<1>3. [f EXCEPT !.val.start = y] = EntryCell(g, x, y)
  BY <1>2 DEF EntryCell
<1> QED
  BY <1>1, <1>3

\* A header whose two pointers are replaced is the header with these pointers.
LEMMA HeaderMoved ==
  ASSUME NEW n, NEW size, NEW base, NEW images, NEW x, NEW y, NEW h, h = HeaderCell(n, size, base, images).val
  PROVE  MovedHeader(h, x, y) = HeaderCell(n, size, y, x)
<1> DEFINE f == [h EXCEPT !.images = x]
<1>1. [h EXCEPT !.images = x, !.base = y] = [f EXCEPT !.base = y]
  OBVIOUS
<1>2. f = HeaderCell(n, size, base, x).val
  BY DEF HeaderCell
<1> HIDE DEF f
<1>3. [f EXCEPT !.base = y] = HeaderCell(n, size, y, x).val
  BY <1>2 DEF HeaderCell
<1>4. MovedHeader(h, x, y) = [is |-> "header", val |-> HeaderCell(n, size, y, x).val]
  BY <1>1, <1>3 DEF MovedHeader
<1> QED
  BY <1>4 DEF HeaderCell

\* A relocated container is a container of the same segments at the new address
\* (copyQpcBuffer, and the fix-up of a loaded file).
LEMMA RelocatedIsContainer ==
  ASSUME NEW segs \in SegLists, NEW from \in Nat, NEW base \in Nat, NEW cells, IsContainer(cells, segs, from)
  PROVE  IsContainer(Relocated(cells, base), segs, base)
<1> DEFINE n == Len(segs)
           d == Len(AllData(segs))
           L == 1 + 2 * n + d
           new == Relocated(cells, base)
<1>1. n \in Nat /\ d \in Nat /\ \A i \in 1 .. n : StartsAt(segs)[i] \in Nat
  BY SegListFacts, SizeFits DEF Apart
<1>2. /\ Len(cells) = L /\ cells[1] = HeaderCell(n, L, from, from + 1)
      /\ \A i \in 1 .. n : /\ cells[1 + i] = EntryCell(segs[i], from + n + i, from + StartsAt(segs)[i])
                           /\ cells[1 + n + i] = NameCell(segs[i])
      /\ \A k \in 1 .. d : cells[1 + 2 * n + k] = DataCell(AllData(segs)[k])
  BY DEF IsContainer
<1> HIDE DEF n, d
<1> DEFINE hdr == cells[1].val
           moved(p) == base + (p - hdr.base)
           first == moved(hdr.images) - base + 1
           inTable(i) == i \in first .. first + hdr.numImages - 1
           c(i) == IF i = 1 THEN [is |-> "header", val |-> [hdr EXCEPT !.images = moved(@), !.base = base]]
                   ELSE IF inTable(i) /\ cells[i].is = "segment"
                        THEN [cells[i] EXCEPT !.val.name = moved(@), !.val.start = moved(@)]
                        ELSE cells[i]
<1>3. new = [i \in 1 .. L |-> c(i)]
  BY <1>2 DEF Relocated
<1>4. hdr = [size |-> L, base |-> from, numImages |-> n, images |-> from + 1]
  BY <1>2 DEF HeaderCell
<1>5. first = 2 /\ \A i : inTable(i) <=> i \in 2 .. n + 1
  BY <1>1, <1>4
<1>6. c(1) = HeaderCell(n, L, base, base + 1)
  <2>1. c(1) = [is |-> "header", val |-> [hdr EXCEPT !.images = moved(hdr.images), !.base = base]]
    OBVIOUS
  <2>2. moved(hdr.images) = base + 1
    BY <1>4
  <2>3. hdr = HeaderCell(n, L, from, from + 1).val
    BY <1>4 DEF HeaderCell
  <2> DEFINE x == moved(hdr.images)
  <2>4. c(1) = MovedHeader(hdr, x, base)
    BY <2>1 DEF MovedHeader
  <2> HIDE DEF c, hdr, x
  <2>5. MovedHeader(hdr, x, base) = HeaderCell(n, L, base, x)
    BY <2>3, HeaderMoved
  <2> QED
    BY <2>2, <2>4, <2>5 DEF x
<1>7. ASSUME NEW i \in 1 .. n PROVE c(1 + i) = EntryCell(segs[i], base + n + i, base + StartsAt(segs)[i])
  <2>1. 1 + i # 1 /\ inTable(1 + i)
    BY <1>1, <1>5
  <2>2. cells[1 + i] = EntryCell(segs[i], from + n + i, from + StartsAt(segs)[i])
    BY <1>2
  <2>3. moved(from + n + i) = base + n + i /\ moved(from + StartsAt(segs)[i]) = base + StartsAt(segs)[i]
    BY <1>1, <1>4
  <2> HIDE DEF inTable, moved, hdr
  <2>4. cells[1 + i].is = "segment"
    BY <2>2 DEF EntryCell
  <2>5. c(1 + i) = [cells[1 + i] EXCEPT !.val.name = moved(@), !.val.start = moved(@)]
    BY <2>1, <2>4
  <2>6. cells[1 + i].val.name = from + n + i /\ cells[1 + i].val.start = from + StartsAt(segs)[i]
    BY <2>2 DEF EntryCell
  <2> DEFINE e == cells[1 + i]
             x == moved(cells[1 + i].val.name)
             y == moved(cells[1 + i].val.start)
  <2>7. x = base + n + i /\ y = base + StartsAt(segs)[i]
    BY <2>3, <2>6
  <2>8. c(1 + i) = MovedEntry(e, x, y)
    BY <2>5 DEF MovedEntry
  <2>a. e = EntryCell(segs[i], from + n + i, from + StartsAt(segs)[i])
    BY <2>2
  <2> HIDE DEF c, x, y, e
  <2>9. MovedEntry(e, x, y) = EntryCell(segs[i], x, y)
    BY <2>a, EntryMoved
  <2> QED
    BY <2>7, <2>8, <2>9
<1>8. ASSUME NEW i \in n + 2 .. L PROVE c(i) = cells[i]
  <2>1. i # 1 /\ ~ inTable(i)
    BY <1>1, <1>5
  <2> QED
    BY <2>1
<1> HIDE DEF c, hdr, moved, first, inTable
<1>9. L \in Nat
  BY <1>1
<1> HIDE DEF new
<1>10. Len(new) = L /\ \A i \in 1 .. L : new[i] = c(i)
  <2> DEFINE T == {c(i) : i \in 1 .. L}
  <2>1. new \in [1 .. L -> T] /\ \A i \in 1 .. L : new[i] = c(i)
    BY <1>3
  <2> HIDE DEF T
  <2> QED
    BY <1>9, <2>1, FunctionIsSeq
<1>11. new[1] = HeaderCell(n, L, base, base + 1)
  BY <1>1, <1>6, <1>10
<1>12. ASSUME NEW i \in 1 .. n
       PROVE  new[1 + i] = EntryCell(segs[i], base + n + i, base + StartsAt(segs)[i]) /\ new[1 + n + i] = NameCell(segs[i])
  <2>1. 1 + i \in 1 .. L /\ 1 + n + i \in n + 2 .. L /\ 1 + n + i \in 1 .. L
    BY <1>1
  <2> QED
    BY <1>2, <1>7, <1>8, <1>10, <2>1
<1>13. ASSUME NEW k \in 1 .. d PROVE new[1 + 2 * n + k] = DataCell(AllData(segs)[k])
  <2>1. 1 + 2 * n + k \in n + 2 .. L /\ 1 + 2 * n + k \in 1 .. L
    BY <1>1
  <2> QED
    BY <1>2, <1>8, <1>10, <2>1
<1> QED
  BY <1>10, <1>11, <1>12, <1>13 DEF IsContainer, new, n, d

-----------------------------------------------------------------------------
(* Reading a container.                                                    *)

\* Quotient and remainder of an address.
LEMMA DivMod ==
  ASSUME NEW r \in Nat \ {0}, NEW s \in Nat, NEW k \in Nat, k < r
  PROVE  (s * r + k) \div r = s /\ (s * r + k) % r = k
<1> DEFINE a == s * r + k
           q == a \div r
           m == a % r
<1>1. a \in Nat /\ s * r \in Nat
  OBVIOUS
<1>2. q \in Nat /\ m \in Nat /\ m < r /\ a = r * q + m
  <2> HIDE DEF a
  <2> QED
    BY <1>1
<1>3. a = s * r + k
  OBVIOUS
<1> HIDE DEF a, q, m
<1>4. r * q = q * r
  BY <1>2
<1>5. ~ (q < s)
  <2> SUFFICES ASSUME q < s PROVE FALSE
    OBVIOUS
  <2>1. (q + 1) * r <= s * r
    BY <1>2, Monotone
  <2>2. (q + 1) * r = q * r + r /\ q * r \in Nat
    BY <1>2
  <2> QED
    BY <1>1, <1>2, <1>3, <1>4, <2>1, <2>2
<1>6. ~ (s < q)
  <2> SUFFICES ASSUME s < q PROVE FALSE
    OBVIOUS
  <2>1. (s + 1) * r <= q * r
    BY <1>2, Monotone
  <2>2. (s + 1) * r = s * r + r /\ q * r \in Nat
    BY <1>2
  <2> QED
    BY <1>1, <1>2, <1>3, <1>4, <2>1, <2>2
<1>7. q = s
  BY <1>2, <1>5, <1>6
<1>8. m = k
  BY <1>1, <1>2, <1>3, <1>4, <1>7
<1> QED
  BY <1>7, <1>8 DEF a, q, m

\* An address inside a slot is a cell of that slot.
LEMMA CellInSlot ==
  ASSUME NEW m, NEW s \in Slots, Len(m[s]) \in Nat, Len(m[s]) <= Room, NEW k \in Nat, k < Len(m[s])
  PROVE  CellAt(m, Base(s) + k) = m[s][k + 1]
<1>1. Room \in Nat \ {0} /\ s \in Nat /\ k < Room
  BY SlotsAssumption
<1>2. (Base(s) + k) \div Room = s /\ (Base(s) + k) % Room = k
  BY <1>1, DivMod DEF Base
<1> QED
  BY <1>2 DEF CellAt

\* Slots start at natural numbers.
LEMMA BaseIsNatural ==
  ASSUME NEW s \in Slots
  PROVE  Base(s) \in Nat
BY SlotsAssumption DEF Base

\* What the accessors of QAicQpc.h read of a container.
LEMMA EntriesRead ==
  ASSUME NEW s \in Slots, NEW segs \in SegLists, IsContainer(mem[s], segs, Base(s))
  PROVE  /\ mem[s] # <<>> /\ NumImages(s) = Len(segs)
         /\ \A i \in 1 .. Len(segs) :
              /\ Entry(s, i) = EntryCell(segs[i], Base(s) + Len(segs) + i, Base(s) + StartsAt(segs)[i])
              /\ NameOf(s, i) = segs[i].name
<1> DEFINE n == Len(segs)
           d == Len(AllData(segs))
           L == 1 + 2 * n + d
           b == Base(s)
<1>1. n \in Nat /\ d \in Nat /\ L <= Room /\ b \in Nat
  BY SegListFacts, SizeFits, BaseIsNatural
<1>2. /\ Len(mem[s]) = L /\ mem[s][1] = HeaderCell(n, L, b, b + 1)
      /\ \A i \in 1 .. n : /\ mem[s][1 + i] = EntryCell(segs[i], b + n + i, b + StartsAt(segs)[i])
                           /\ mem[s][1 + n + i] = NameCell(segs[i])
  BY DEF IsContainer
<1> HIDE DEF n, d, b
<1>3. L \in Nat /\ L # 0
  BY <1>1
<1>4. mem[s] # <<>>
  BY <1>2, <1>3
<1>5. NumImages(s) = n
  BY <1>2, <1>4 DEF NumImages, HeaderCell
<1>6. ASSUME NEW k \in Nat, k < L PROVE CellAt(mem, b + k) = mem[s][k + 1]
  BY <1>1, <1>2, <1>3, <1>6, CellInSlot DEF b
<1>7. ASSUME NEW i \in 1 .. n
      PROVE  /\ Entry(s, i) = EntryCell(segs[i], b + n + i, b + StartsAt(segs)[i])
             /\ NameOf(s, i) = segs[i].name
  <2>1. mem[s][1].val.images = b + 1
    BY <1>2 DEF HeaderCell
  <2>2. b + 1 + i - 1 = b + i /\ i \in Nat /\ i < L /\ n + i \in Nat /\ n + i < L /\ b + n + i = b + (n + i)
        /\ i + 1 = 1 + i /\ n + i + 1 = 1 + n + i
    BY <1>1
  <2>3. Entry(s, i) = EntryCell(segs[i], b + n + i, b + StartsAt(segs)[i])
    <3>1. Entry(s, i) = CellAt(mem, b + i)
      BY <2>1, <2>2 DEF Entry
    <3>2. CellAt(mem, b + i) = mem[s][1 + i]
      BY <1>6, <2>2
    <3> QED
      BY <1>2, <3>1, <3>2
  <2>4. Entry(s, i).is = "segment" /\ Entry(s, i).val.name = b + n + i
    BY <2>3 DEF EntryCell
  <2>5. CellAt(mem, b + n + i) = NameCell(segs[i])
    <3>1. CellAt(mem, b + (n + i)) = mem[s][n + i + 1]
      BY <1>6, <2>2
    <3> QED
      BY <1>2, <2>2, <3>1
  <2>6. NameOf(s, i) = segs[i].name
    BY <2>4, <2>5 DEF NameOf, NameCell
  <2> QED
    BY <2>3, <2>6
<1> QED
  BY <1>4, <1>5, <1>7 DEF n, b

\* Reading a range of a segment's data from memory gives that range.
LEMMA DataRead ==
  ASSUME NEW s \in Slots, NEW segs \in SegLists, IsContainer(mem[s], segs, Base(s)),
         NEW i \in 1 .. Len(segs), NEW o \in Nat, NEW k \in Nat, o + k <= Len(segs[i].data)
  PROVE  ReadData(mem, Base(s) + StartsAt(segs)[i] + o, k) = SubSeq(segs[i].data, o + 1, o + k)
<1> DEFINE n == Len(segs)
           D == AllData(segs)
           d == Len(D)
           L == 1 + 2 * n + d
           b == Base(s)
           at == StartsAt(segs)[i]
           data == segs[i].data
           len == Len(data)
<1>1. n \in Nat /\ d \in Nat /\ L <= Room /\ b \in Nat
  BY SegListFacts, SizeFits, BaseIsNatural
<1>2. Len(mem[s]) = L /\ \A l \in 1 .. d : mem[s][1 + 2 * n + l] = DataCell(D[l])
  BY DEF IsContainer
<1>3. /\ at \in Nat /\ at >= 1 + 2 * n /\ at + len <= L
      /\ \A j \in 1 .. len : D[at - (1 + 2 * n) + j] = data[j]
  BY SizeFits DEF Apart
<1>4. data \in Seq(Chunks)
  BY SegListFacts
<1>5. len \in Nat /\ o + k <= len
  BY <1>4
<1> HIDE DEF n, D, d, b, at, data, len
<1>6. L \in Nat
  BY <1>1
<1>7. ASSUME NEW l \in Nat, l < L PROVE CellAt(mem, b + l) = mem[s][l + 1]
  BY <1>1, <1>2, <1>6, <1>7, CellInSlot DEF b
<1>8. ASSUME NEW j \in 1 .. k PROVE CellAt(mem, b + at + o + j - 1) = DataCell(data[o + j])
  <2> DEFINE l == at + o + j - 1
             c == at - (1 + 2 * n) + (o + j)
  <2>0. at \in Nat /\ at >= 1 + 2 * n /\ at + len <= L
    BY <1>3
  <2>1. l \in Nat /\ l < L /\ b + at + o + j - 1 = b + l /\ o + j \in 1 .. len
        /\ c \in 1 .. d /\ l + 1 = 1 + 2 * n + c
    BY <1>1, <2>0, <1>5
  <2> HIDE DEF l
  <2>2. CellAt(mem, b + l) = mem[s][l + 1]
    BY <1>7, <2>1
  <2>3. D[c] = data[o + j]
    BY <1>3, <2>1
  <2> HIDE DEF c
  <2>4. mem[s][1 + 2 * n + c] = DataCell(D[c])
    BY <1>2, <2>1
  <2> QED
    BY <2>1, <2>2, <2>3, <2>4
<1>9. ReadData(mem, b + at + o, k) = [j \in 1 .. k |-> data[o + j]]
  <2>1. ASSUME NEW j \in 1 .. k
        PROVE  (LET cell == CellAt(mem, b + at + o + j - 1) IN IF cell.is = "data" THEN cell.val ELSE WildChunk)
                 = data[o + j]
    <3> DEFINE cell == CellAt(mem, b + at + o + j - 1)
    <3>1. cell = DataCell(data[o + j])
      BY <1>8
    <3> HIDE DEF cell
    <3>2. cell.is = "data" /\ cell.val = data[o + j]
      BY <3>1 DEF DataCell
    <3>3. (IF cell.is = "data" THEN cell.val ELSE WildChunk) = data[o + j]
      BY <3>2
    <3> QED
      BY <3>3 DEF cell
  <2> QED
    BY <2>1 DEF ReadData
<1>10. SubSeq(data, o + 1, o + k) = [j \in 1 .. k |-> data[o + j]]
  <2> DEFINE sub == SubSeq(data, o + 1, o + k)
  <2>1. \A j \in o + 1 .. o + k : data[j] \in Chunks
    BY <1>4, <1>5 DEF len
  <2>2. sub \in Seq(Chunks) /\ Len(sub) = k /\ \A j \in 1 .. k : sub[j] = data[o + j]
    <3>1. /\ sub \in Seq(Chunks) /\ Len(sub) = (IF o + 1 <= o + k THEN o + k - (o + 1) + 1 ELSE 0)
          /\ \A j \in 1 .. o + k - (o + 1) + 1 : sub[j] = data[o + 1 + j - 1]
      BY <2>1, SubSeqProperties
    <3>2. o + k - (o + 1) + 1 = k /\ \A j \in 1 .. k : o + 1 + j - 1 = o + j
      OBVIOUS
    <3> HIDE DEF sub
    <3> QED
      BY <3>1, <3>2
  <2> HIDE DEF sub
  <2>3. sub \in [1 .. k -> Chunks]
    BY <2>2
  <2>4. sub = [j \in 1 .. k |-> data[o + j]]
    BY <2>2, <2>3
  <2> QED
    BY <2>4 DEF sub
<1> QED
  BY <1>9, <1>10 DEF b, at, data

\* All of a sequence is its part from the first to the last element.
LEMMA WholeSeq ==
  ASSUME NEW V, NEW data \in Seq(V)
  PROVE  SubSeq(data, 1, Len(data)) = data
<1> DEFINE n == Len(data)
           sub == SubSeq(data, 1, n)
<1>1. n \in Nat /\ \A j \in 1 .. n : data[j] \in V
  OBVIOUS
<1>2. sub \in Seq(V) /\ Len(sub) = n /\ \A j \in 1 .. n : sub[j] = data[j]
  <2>1. /\ sub \in Seq(V) /\ Len(sub) = (IF 1 <= n THEN n - 1 + 1 ELSE 0)
        /\ \A j \in 1 .. n - 1 + 1 : sub[j] = data[1 + j - 1]
    BY <1>1, SubSeqProperties
  <2>2. n - 1 + 1 = n /\ \A j \in 1 .. n : 1 + j - 1 = j
    BY <1>1
  <2> HIDE DEF sub, n
  <2> QED
    BY <1>1, <2>1, <2>2
<1> HIDE DEF sub
<1> QED
  BY <1>2, SeqEqual DEF n, sub

\* A reader finds a segment by its name.
LEMMA FindRead ==
  ASSUME NEW s \in Slots, NEW segs \in SegLists, IsContainer(mem[s], segs, Base(s))
  PROVE  /\ \A i \in 1 .. Len(segs) : Find(s, segs[i].name) = i
         /\ \A n : (\A i \in 1 .. Len(segs) : segs[i].name # n) => Find(s, n) = 0
<1> DEFINE L == Len(segs)
<1>1. L \in Nat /\ \A i, j \in 1 .. L : segs[i].name = segs[j].name => i = j
  BY SegListFacts
<1>2. NumImages(s) = L /\ \A i \in 1 .. L : NameOf(s, i) = segs[i].name
  BY EntriesRead
<1> HIDE DEF L
<1>3. ASSUME NEW i \in 1 .. L PROVE Find(s, segs[i].name) = i
  <2> DEFINE n == segs[i].name
             first(j) == NameOf(s, j) = n /\ \A k \in 1 .. j - 1 : NameOf(s, k) # n
  <2>1. \A j \in 1 .. L : NameOf(s, j) = n <=> j = i
    BY <1>1, <1>2
  <2> HIDE DEF n
  <2>2. first(i)
    <3>1. \A k \in 1 .. i - 1 : k \in 1 .. L /\ k # i
      BY <1>1
    <3> QED
      BY <2>1, <3>1
  <2>3. \A j \in 1 .. L : first(j) => j = i
    BY <2>1
  <2>4. Find(s, n) = CHOOSE j \in 1 .. L : first(j)
    BY <1>2, <2>1 DEF Find
  <2> HIDE DEF first
  <2>5. Find(s, n) = i
    BY <2>2, <2>3, <2>4
  <2> QED
    BY <2>5 DEF n
<1>4. ASSUME NEW n, \A i \in 1 .. L : segs[i].name # n PROVE Find(s, n) = 0
  BY <1>2, <1>4 DEF Find
<1> QED
  BY <1>3, <1>4 DEF L

\* What a caller copies of a container is what it was made of.
LEMMA SegmentsRead ==
  ASSUME NEW s \in Slots, NEW segs \in SegLists, IsContainer(mem[s], segs, Base(s))
  PROVE  SegmentsOf(s) = segs
<1> DEFINE L == Len(segs)
           b == Base(s)
<1>1. /\ L \in Nat
      /\ \A i \in 1 .. L :
           /\ segs[i] = [name |-> segs[i].name, data |-> segs[i].data, offset |-> segs[i].offset]
           /\ segs[i].data \in Seq(Chunks)
  BY SegListFacts
<1>2. /\ NumImages(s) = L
      /\ \A i \in 1 .. L : /\ Entry(s, i) = EntryCell(segs[i], b + L + i, b + StartsAt(segs)[i])
                           /\ NameOf(s, i) = segs[i].name
  BY EntriesRead
<1>3. ASSUME NEW i \in 1 .. L
      PROVE  (LET e == Entry(s, i)
              IN IF e.is = "segment"
                 THEN [name |-> NameOf(s, i), offset |-> e.val.offset,
                       data |-> ReadData(mem, e.val.start, e.val.size)]
                 ELSE [name |-> "?", offset |-> 0, data |-> <<>>]) = segs[i]
  <2> DEFINE e == Entry(s, i)
             at == b + StartsAt(segs)[i]
             k == Len(segs[i].data)
  <2>1. e.is = "segment" /\ e.val.offset = segs[i].offset /\ e.val.start = at /\ e.val.size = k
    BY <1>2 DEF EntryCell
  <2>2. k \in Nat /\ 0 + k <= k /\ 0 \in Nat /\ 0 + 1 = 1 /\ 0 + k = k
    BY <1>1
  <2>3. ReadData(mem, b + StartsAt(segs)[i] + 0, k) = SubSeq(segs[i].data, 0 + 1, 0 + k)
    BY <2>2, DataRead
  <2>4. at + 0 = at
    BY BaseIsNatural, SizeFits DEF Apart
  <2>5. SubSeq(segs[i].data, 1, k) = segs[i].data
    BY <1>1, WholeSeq
  <2>6. ReadData(mem, at, k) = segs[i].data
    BY <2>2, <2>3, <2>4, <2>5
  <2> HIDE DEF e, at, k
  <2>7. (IF e.is = "segment"
         THEN [name |-> NameOf(s, i), offset |-> e.val.offset, data |-> ReadData(mem, e.val.start, e.val.size)]
         ELSE [name |-> "?", offset |-> 0, data |-> <<>>])
          = [name |-> segs[i].name, offset |-> segs[i].offset, data |-> segs[i].data]
    BY <1>2, <2>1, <2>6
  <2>8. segs[i] = [name |-> segs[i].name, offset |-> segs[i].offset, data |-> segs[i].data]
    BY <1>1
  <2> QED
    BY <2>7, <2>8 DEF e
<1>4. segs = [i \in 1 .. L |-> segs[i]]
  BY DEF SegLists
<1>5. SegmentsOf(s) = [i \in 1 .. L |-> segs[i]]
  <2> HIDE DEF L
  <2> QED
    BY <1>2, <1>3 DEF SegmentsOf
<1> QED
  BY <1>4, <1>5

\* The value a container gives a name: the segment of that name, in its two parts.
LEMMA MapOfAt ==
  ASSUME NEW segs \in SegLists
  PROVE  /\ DOMAIN MapOf(segs) = {segs[i].name : i \in 1 .. Len(segs)}
         /\ MapOf(segs) = [n \in DOMAIN MapOf(segs) |-> MapOf(segs)[n]]
         /\ \A i \in 1 .. Len(segs) : MapOf(segs)[segs[i].name] = Parts(segs[i].data, segs[i].offset)
<1> DEFINE L == Len(segs)
<1>1. /\ L \in Nat /\ DOMAIN segs = 1 .. L
      /\ \A i, j \in 1 .. L : segs[i].name = segs[j].name => i = j
  BY SegListFacts DEF SegLists
<1>2. DOMAIN MapOf(segs) = {segs[i].name : i \in 1 .. L} /\ MapOf(segs) = [n \in DOMAIN MapOf(segs) |-> MapOf(segs)[n]]
  BY <1>1 DEF MapOf
<1>3. ASSUME NEW i \in 1 .. L PROVE MapOf(segs)[segs[i].name] = Parts(segs[i].data, segs[i].offset)
  <2> DEFINE n == segs[i].name
             at == CHOOSE j \in DOMAIN segs : segs[j].name = n
  <2>1. \A j \in DOMAIN segs : segs[j].name = n <=> j = i
    BY <1>1
  <2>2. at = i
    BY <1>1, <2>1
  <2>3. n \in {segs[j].name : j \in DOMAIN segs}
    BY <1>1
  <2> HIDE DEF n
  <2>4. MapOf(segs)[n] = Parts(segs[at].data, segs[at].offset)
    BY <2>3 DEF MapOf
  <2> QED
    BY <2>2, <2>4 DEF n
<1> QED
  BY <1>2, <1>3

\* The two parts of a segment whose offset lies in its data.
LEMMA PartsCut ==
  ASSUME NEW V, NEW data \in Seq(V), NEW offset \in Nat, offset <= Len(data)
  PROVE  Parts(data, offset) = [fixed |-> SubSeq(data, 1, offset), rest |-> SubSeq(data, offset + 1, Len(data))]
BY DEF Parts

\* An empty range is the empty sequence.
LEMMA EmptyPart ==
  ASSUME NEW V, NEW data \in Seq(V)
  PROVE  SubSeq(data, 1, 0) = <<>>
<1>1. \A j \in 1 .. 0 : data[j] \in V
  OBVIOUS
<1>2. SubSeq(data, 1, 0) \in Seq(V) /\ Len(SubSeq(data, 1, 0)) = (IF 1 <= 0 THEN 0 - 1 + 1 ELSE 0)
  BY <1>1, SubSeqProperties
<1> QED
  BY <1>2, EmptySeq

\* getQPCSegment gives the part that is asked for.
LEMMA SegmentRead ==
  ASSUME NEW s \in Slots, NEW segs \in SegLists, IsContainer(mem[s], segs, Base(s)), NEW i \in 1 .. Len(segs)
  PROVE  /\ Entry(s, i).val.offset = segs[i].offset
         /\ segs[i].offset > 0 => getQPCSegment(s, segs[i].name, 0) = SubSeq(segs[i].data, 1, segs[i].offset)
         /\ getQPCSegment(s, segs[i].name, 1)
              = SubSeq(segs[i].data, segs[i].offset + 1, Len(segs[i].data))
<1> DEFINE e == Entry(s, i).val
           at == Base(s) + StartsAt(segs)[i]
           k == Len(segs[i].data)
           o == segs[i].offset
           n == segs[i].name
<1>1. k \in Nat /\ o \in Nat /\ o <= k /\ segs[i].data \in Seq(Chunks)
  <2>1. segs[i].data \in Seq(Chunks) /\ segs[i].offset \in Nat /\ SegmentOK(segs[i])
    BY SegListFacts
  <2>2. k \in Nat
    BY <2>1
  <2> QED
    BY <2>1, <2>2 DEF SegmentOK
<1>2. at \in Nat
  <2>1. StartsAt(segs)[i] \in Nat /\ Base(s) \in Nat
    BY BaseIsNatural, SizeFits DEF Apart
  <2> QED
    BY <2>1
<1>3. e.offset = o /\ e.start = at /\ e.size = k
  BY EntriesRead DEF EntryCell
<1>4. Find(s, n) = i
  BY FindRead
<1>5. ReadData(mem, at + 0, o) = SubSeq(segs[i].data, 0 + 1, 0 + o)
  <2>1. 0 \in Nat /\ 0 + o <= k
    BY <1>1
  <2> QED
    BY <1>1, <2>1, DataRead
<1>6. ReadData(mem, at + o, k - o) = SubSeq(segs[i].data, o + 1, o + (k - o))
  <2>1. k - o \in Nat /\ o + (k - o) <= k
    BY <1>1
  <2> QED
    BY <1>1, <2>1, DataRead
<1>7. at + 0 = at /\ 0 + 1 = 1 /\ 0 + o = o /\ o + (k - o) = k
  BY <1>1, <1>2
<1>8. getQPCSegment(s, n, 1) = ReadData(mem, at + o, k - o)
  <2>1. getQPCSegment(s, n, 1) = ReadData(mem, e.start + e.offset, e.size - e.offset)
    BY <1>4 DEF getQPCSegment
  <2> QED
    BY <1>3, <2>1
<1>9. o > 0 => getQPCSegment(s, n, 0) = ReadData(mem, at, o)
  <2>1. e.offset > 0 => getQPCSegment(s, n, 0) = ReadData(mem, e.start, e.offset)
    BY <1>4 DEF getQPCSegment
  <2> QED
    BY <1>3, <2>1
<1> HIDE DEF e, at, k, o, n
<1>10. o > 0 => getQPCSegment(s, n, 0) = SubSeq(segs[i].data, 1, o)
  BY <1>5, <1>7, <1>9
<1>11. getQPCSegment(s, n, 1) = SubSeq(segs[i].data, o + 1, k)
  BY <1>6, <1>7, <1>8
<1> QED
  BY <1>3, <1>10, <1>11 DEF e, o, n, k

\* What readers are served is what the container was made of.
LEMMA ServedRead ==
  ASSUME NEW s \in Slots, NEW segs \in SegLists, IsContainer(mem[s], segs, Base(s))
  PROVE  Served(s) = MapOf(segs)
<1> DEFINE L == Len(segs)
           names == {segs[i].name : i \in 1 .. L}
           part(n) == [fixed |-> IF Entry(s, Find(s, n)).val.offset > 0 THEN getQPCSegment(s, n, 0) ELSE <<>>,
                       rest |-> getQPCSegment(s, n, 1)]
<1>1. L \in Nat
  BY SegListFacts
<1>2. NumImages(s) = L /\ \A i \in 1 .. L : NameOf(s, i) = segs[i].name
  BY EntriesRead
<1>3. {NameOf(s, i) : i \in 1 .. NumImages(s)} = names
  BY <1>2
<1>4. Served(s) = [n \in names |-> part(n)]
  <2> HIDE DEF names
  <2> QED
    BY <1>3 DEF Served
<1>5. ASSUME NEW i \in 1 .. L PROVE part(segs[i].name) = MapOf(segs)[segs[i].name]
  <2> DEFINE n == segs[i].name
             o == segs[i].offset
             data == segs[i].data
             fixed == IF Entry(s, Find(s, n)).val.offset > 0 THEN getQPCSegment(s, n, 0) ELSE <<>>
  <2>1. o \in Nat /\ data \in Seq(Chunks) /\ o <= Len(data)
    BY SegListFacts DEF SegmentOK
  <2>2. Find(s, n) = i
    BY FindRead
  <2>3. /\ Entry(s, i).val.offset = o /\ (o > 0 => getQPCSegment(s, n, 0) = SubSeq(data, 1, o))
        /\ getQPCSegment(s, n, 1) = SubSeq(data, o + 1, Len(data))
    BY SegmentRead
  <2>4. MapOf(segs)[n] = Parts(data, o)
    BY MapOfAt
  <2>5. Parts(data, o) = [fixed |-> SubSeq(data, 1, o), rest |-> SubSeq(data, o + 1, Len(data))]
    BY <2>1, PartsCut
  <2> HIDE DEF n, o, data
  <2>6. fixed = SubSeq(data, 1, o)
    <3>1. CASE o > 0
      BY <2>2, <2>3, <3>1
    <3>2. CASE o = 0
      BY <2>1, <2>2, <2>3, <3>2, EmptyPart
    <3> QED
      BY <2>1, <3>1, <3>2
  <2> HIDE DEF fixed
  <2>7. [fixed |-> fixed, rest |-> getQPCSegment(s, n, 1)] = MapOf(segs)[n]
    BY <2>3, <2>4, <2>5, <2>6
  <2> QED
    BY <2>7 DEF fixed, n
<1>6. \A n \in names : part(n) = MapOf(segs)[n]
  <2> HIDE DEF part
  <2> QED
    BY <1>5
<1>7. DOMAIN MapOf(segs) = names /\ MapOf(segs) = [n \in DOMAIN MapOf(segs) |-> MapOf(segs)[n]]
  BY MapOfAt
<1> HIDE DEF names, part
<1> QED
  BY <1>4, <1>6, <1>7

\* A reader of the file at the positions its header and entries give.
LEMMA FileRead ==
  ASSUME NEW segs \in SegLists, IsContainer(disk, segs, 0), NEW i \in 1 .. Len(segs)
  PROVE  /\ disk[1].val.images = 1 /\ disk[1].val.numImages = Len(segs)
         /\ disk[1 + i].val.size = Len(segs[i].data) /\ disk[1 + i].val.offset = segs[i].offset
         /\ disk[disk[1 + i].val.name + 1].val = segs[i].name
         /\ [j \in 1 .. Len(segs[i].data) |-> disk[disk[1 + i].val.start + j].val] = segs[i].data
<1> DEFINE n == Len(segs)
           D == AllData(segs)
           d == Len(D)
           at == StartsAt(segs)[i]
           data == segs[i].data
           len == Len(data)
<1>1. n \in Nat /\ d \in Nat /\ data \in Seq(Chunks)
  BY SegListFacts, SizeFits
<1>2. /\ disk[1] = HeaderCell(n, 1 + 2 * n + d, 0, 0 + 1)
      /\ disk[1 + i] = EntryCell(segs[i], 0 + n + i, 0 + at) /\ disk[1 + n + i] = NameCell(segs[i])
      /\ \A k \in 1 .. d : disk[1 + 2 * n + k] = DataCell(D[k])
  BY DEF IsContainer
<1>3. /\ at \in Nat /\ at >= 1 + 2 * n /\ at + len <= 1 + 2 * n + d
      /\ \A j \in 1 .. len : D[at - (1 + 2 * n) + j] = data[j]
  BY SizeFits DEF Apart
<1>4. len \in Nat /\ data = [j \in 1 .. len |-> data[j]]
  BY <1>1
<1> HIDE DEF n, D, d, at, data, len
<1>5. disk[1].val.images = 1 /\ disk[1].val.numImages = n
  BY <1>2 DEF HeaderCell
<1>6. disk[1 + i].val.size = len /\ disk[1 + i].val.offset = segs[i].offset
      /\ disk[1 + i].val.name = n + i /\ disk[1 + i].val.start = at
  <2>1. 0 + n + i = n + i /\ 0 + at = at
    BY <1>1, <1>3
  <2> QED
    BY <1>2, <2>1 DEF EntryCell, len, data
<1>7. disk[n + i + 1].val = segs[i].name
  <2>1. n + i + 1 = 1 + n + i
    BY <1>1
  <2> QED
    BY <1>2, <2>1 DEF NameCell
<1>8. ASSUME NEW j \in 1 .. len PROVE disk[at + j].val = data[j]
  <2> DEFINE k == at - (1 + 2 * n) + j
  <2>1. k \in 1 .. d /\ at + j = 1 + 2 * n + k
    BY <1>1, <1>3, <1>4
  <2>2. D[k] = data[j]
    BY <1>3
  <2> HIDE DEF k
  <2>3. disk[1 + 2 * n + k] = DataCell(D[k])
    BY <1>2, <2>1
  <2>4. disk[at + j] = DataCell(data[j])
    BY <2>1, <2>2, <2>3
  <2> QED
    BY <2>4 DEF DataCell
<1>9. [j \in 1 .. len |-> disk[at + j].val] = data
  BY <1>4, <1>8
<1> QED
  BY <1>5, <1>6, <1>7, <1>9 DEF n, len, data

\* What a reader of the file gets is what the file was made of.
LEMMA ServedFromDiskRead ==
  ASSUME NEW segs \in SegLists, IsContainer(disk, segs, 0)
  PROVE  ServedFromDisk = MapOf(segs)
<1> DEFINE L == Len(segs)
           names == {segs[i].name : i \in 1 .. L}
           entry(i) == disk[disk[1].val.images + i].val
           N == disk[1].val.numImages
           data(p, k) == [j \in 1 .. k |-> disk[p + j].val]
           part(n) == LET e == entry(CHOOSE i \in 1 .. N : disk[entry(i).name + 1].val = n)
                      IN Parts(data(e.start, e.size), e.offset)
<1>1. L \in Nat /\ \A i, j \in 1 .. L : segs[i].name = segs[j].name => i = j
  BY SegListFacts
<1>2. N = L
  BY DEF IsContainer, HeaderCell
<1>3. ASSUME NEW i \in 1 .. L
      PROVE  /\ disk[entry(i).name + 1].val = segs[i].name /\ entry(i).offset = segs[i].offset
             /\ data(entry(i).start, entry(i).size) = segs[i].data
  <2> DEFINE e == disk[1 + i].val
             D == [j \in 1 .. Len(segs[i].data) |-> disk[e.start + j].val]
  <2>1. entry(i) = e /\ e.offset = segs[i].offset /\ e.size = Len(segs[i].data)
        /\ disk[e.name + 1].val = segs[i].name /\ D = segs[i].data
    BY FileRead
  <2>2. data(e.start, e.size) = D
    BY <2>1
  <2> HIDE DEF entry, data, D
  <2> QED
    BY <2>1, <2>2
<1>4. ServedFromDisk = [n \in {disk[entry(i).name + 1].val : i \in 1 .. N} |-> part(n)]
  BY DEF ServedFromDisk
<1>5. DOMAIN MapOf(segs) = names /\ MapOf(segs) = [n \in DOMAIN MapOf(segs) |-> MapOf(segs)[n]]
  BY MapOfAt
<1>6. ASSUME NEW i \in 1 .. L PROVE part(segs[i].name) = MapOf(segs)[segs[i].name]
  <2> DEFINE n == segs[i].name
             at == CHOOSE j \in 1 .. N : disk[entry(j).name + 1].val = n
  <2>1. \A j \in 1 .. L : disk[entry(j).name + 1].val = n <=> j = i
    <3> HIDE DEF entry
    <3> QED
      BY <1>1, <1>3
  <2>2. at = i
    <3> HIDE DEF entry, N, n
    <3> QED
      BY <1>2, <2>1
  <2>3. part(n) = Parts(data(entry(at).start, entry(at).size), entry(at).offset)
    OBVIOUS
  <2> HIDE DEF part, entry, data, at
  <2>4. part(n) = Parts(segs[i].data, segs[i].offset)
    BY <1>3, <2>2, <2>3
  <2> QED
    BY <2>4, MapOfAt
<1> HIDE DEF entry, N, part
<1>7. {disk[entry(i).name + 1].val : i \in 1 .. N} = names
  <2> DEFINE nameAt(i) == disk[entry(i).name + 1].val
  <2>1. \A i \in 1 .. L : nameAt(i) = segs[i].name
    BY <1>3
  <2>2. {nameAt(i) : i \in 1 .. N} = {nameAt(i) : i \in 1 .. L}
    BY <1>2
  <2> HIDE DEF nameAt
  <2>3. {nameAt(i) : i \in 1 .. L} = names
    BY <2>1
  <2> QED
    BY <2>2, <2>3 DEF nameAt
<1>8. \A n \in names : part(n) = MapOf(segs)[n]
  BY <1>6
<1> HIDE DEF names
<1> QED
  BY <1>4, <1>5, <1>7, <1>8

-----------------------------------------------------------------------------
(* The builder.                                                            *)

\* v holds names of S, each once, all of them among the first k names.
HeldUpTo(v, k, S) ==
  /\ v \in Seq(STRING) /\ Len(v) <= k
  /\ \A i \in 1 .. Len(v) : v[i] \in S /\ \E l \in 1 .. k : v[i] = NameOrder[l]
  /\ \A i, j \in 1 .. Len(v) : v[i] = v[j] => i = j
HeldAt(k, S) == IF NameOrder[k] \in S THEN <<NameOrder[k]>> ELSE <<>>

\* One more name of the map, in the order of the names.
LEMMA HeldStep ==
  ASSUME NEW S, NEW k \in 1 .. Len(NameOrder), NEW v, HeldUpTo(v, k - 1, S)
  PROVE  HeldUpTo(v \o HeldAt(k, S), k, S)
<1> DEFINE x == NameOrder[k]
           z == v \o HeldAt(k, S)
           n == Len(v)
<1>1. /\ NameOrder \in Seq(STRING) /\ \A i, j \in DOMAIN NameOrder : NameOrder[i] = NameOrder[j] => i = j
      /\ DOMAIN NameOrder = 1 .. Len(NameOrder) /\ Len(NameOrder) \in Nat /\ k \in Nat /\ x \in STRING
  BY NamesAssumption
<1>2. /\ v \in Seq(STRING) /\ n \in Nat /\ n <= k - 1
      /\ \A i \in 1 .. n : v[i] \in S /\ \E l \in 1 .. k - 1 : v[i] = NameOrder[l]
      /\ \A i, j \in 1 .. n : v[i] = v[j] => i = j
  BY DEF HeldUpTo
<1>3. CASE x \notin S
  <2>1. HeldAt(k, S) = <<>>
    BY <1>3 DEF HeldAt
  <2>2. z = v
    BY <1>2, <2>1, ConcatEmptySeq
  <2>3. \A l \in 1 .. k - 1 : l \in 1 .. k
    BY <1>1
  <2>4. HeldUpTo(v, k, S)
    <3>1. n <= k
      BY <1>1, <1>2
    <3> QED
      BY <1>2, <2>3, <3>1 DEF HeldUpTo
  <2> QED
    BY <2>2, <2>4
<1>4. CASE x \in S
  <2>1. HeldAt(k, S) = <<x>>
    BY <1>4 DEF HeldAt
  <2>2. z \in Seq(STRING) /\ TwoParts(z, v, <<x>>)
    <3>1. <<x>> \in Seq(STRING)
      BY <1>1
    <3> QED
      BY <1>2, <2>1, <3>1, TwoPartsOf
  <2>3. Len(<<x>>) = 1 /\ <<x>>[1] = x
    OBVIOUS
  <2> DEFINE y == <<x>>
  <2> HIDE DEF z, y, n, x
  <2>4. Len(z) = n + 1 /\ z[n + 1] = x /\ \A i \in 1 .. n : z[i] = v[i]
    BY <2>2, <2>3 DEF TwoParts, n
  <2>5. \A i \in 1 .. n : v[i] # x
    <3> TAKE i \in 1 .. n
    <3>1. PICK l \in 1 .. k - 1 : v[i] = NameOrder[l]
      BY <1>2
    <3>2. l \in DOMAIN NameOrder /\ k \in DOMAIN NameOrder /\ l # k
      BY <1>1
    <3> QED
      BY <1>1, <3>1, <3>2 DEF x
  <2>6. \A i \in 1 .. Len(z) : (i \in 1 .. n /\ z[i] = v[i]) \/ (i = n + 1 /\ z[i] = x)
    BY <1>2, <2>4
  <2>7. \A i \in 1 .. Len(z) : z[i] \in S /\ \E l \in 1 .. k : z[i] = NameOrder[l]
    <3> TAKE i \in 1 .. Len(z)
    <3>1. k \in 1 .. k /\ \A l \in 1 .. k - 1 : l \in 1 .. k
      BY <1>1
    <3>2. CASE i \in 1 .. n /\ z[i] = v[i]
      BY <1>2, <3>1, <3>2
    <3>3. CASE z[i] = x
      BY <1>4, <3>1, <3>3 DEF x
    <3> QED
      BY <2>6, <3>2, <3>3
  <2>8. \A i, j \in 1 .. Len(z) : z[i] = z[j] => i = j
    BY <1>2, <2>5, <2>6
  <2>9. Len(z) <= k
    BY <1>1, <1>2, <2>4
  <2>10. HeldUpTo(z, k, S)
    BY <2>2, <2>7, <2>8, <2>9 DEF HeldUpTo
  <2> QED
    BY <2>10 DEF z
<1> QED
  BY <1>3, <1>4

\* The names that the builder holds, in the order of std::map.
LEMMA HeldNames ==
  ASSUME NEW S
  PROVE  HeldUpTo(FlattenSeq([i \in DOMAIN NameOrder |-> HeldAt(i, S)]), Len(NameOrder), S)
<1> DEFINE N == Len(NameOrder)
           s == [i \in DOMAIN NameOrder |-> HeldAt(i, S)]
<1>1. N \in Nat /\ N > 0 /\ DOMAIN NameOrder = 1 .. N /\ \A i \in 1 .. N : NameOrder[i] \in STRING
  <2>1. NameOrder \in Seq(STRING) /\ Elf \in Names
    BY NamesAssumption
  <2>2. N \in Nat /\ DOMAIN NameOrder = 1 .. N /\ \A i \in 1 .. N : NameOrder[i] \in STRING
    BY <2>1
  <2>3. \E i \in DOMAIN NameOrder : TRUE
    BY <2>1 DEF Names, Range
  <2> QED
    BY <2>2, <2>3
<1>2. \A i \in 1 .. N : s[i] = HeldAt(i, S) /\ s[i] \in Seq(STRING)
  <2> TAKE i \in 1 .. N
  <2>1. s[i] = HeldAt(i, S)
    BY <1>1
  <2>2. NameOrder[i] \in STRING
    BY <1>1
  <2>3. HeldAt(i, S) \in Seq(STRING)
    <3>1. <<NameOrder[i]>> \in Seq(STRING) /\ <<>> \in Seq(STRING)
      BY <2>2
    <3> QED
      BY <3>1 DEF HeldAt
  <2> QED
    BY <2>1, <2>3
<1>3. s \in Seq(Seq(STRING)) /\ Len(s) = N /\ s # <<>>
  <2>1. s \in [1 .. N -> Seq(STRING)]
    BY <1>1, <1>2
  <2> HIDE DEF s
  <2>2. s \in Seq(Seq(STRING)) /\ Len(s) = N
    BY <1>1, <2>1, FunctionIsSeq
  <2> QED
    BY <1>1, <2>2
<1> HIDE DEF N, s
<1>4. PICK g \in [1 .. N -> Seq(STRING)] : Joins(g, N, s) /\ FlattenSeq(s) = g[N]
  BY <1>3, FlattenDef
<1> DEFINE T == {k \in Nat : HeldUpTo(g[k], k, S)}
<1>5. 1 \in T
  <2>1. <<>> \in Seq(STRING) /\ Len(<<>>) = 0 /\ 1 \in 1 .. N /\ 1 - 1 = 0
    BY <1>1
  <2>2. HeldUpTo(<<>>, 1 - 1, S)
    BY <2>1 DEF HeldUpTo
  <2>3. HeldUpTo(<<>> \o HeldAt(1, S), 1, S)
    BY <2>1, <2>2, HeldStep DEF N
  <2>4. g[1] = HeldAt(1, S) /\ HeldAt(1, S) \in Seq(STRING)
    BY <1>2, <1>4, <2>1 DEF Joins
  <2>5. <<>> \o HeldAt(1, S) = HeldAt(1, S)
    BY <2>4, ConcatEmptySeq
  <2> QED
    BY <2>3, <2>4, <2>5
<1>6. ASSUME NEW k \in 2 .. N, k - 1 \in T PROVE k \in T
  <2>1. k \in 1 .. N /\ k \in Nat
    OBVIOUS
  <2>2. g[k] = g[k - 1] \o HeldAt(k, S)
    BY <1>2, <1>4, <2>1 DEF Joins
  <2>3. HeldUpTo(g[k - 1], k - 1, S)
    BY <1>6
  <2>4. HeldUpTo(g[k - 1] \o HeldAt(k, S), k, S)
    BY <2>1, <2>3, HeldStep DEF N
  <2> QED
    BY <2>1, <2>2, <2>4
<1> HIDE DEF T
<1>7. N \in T
  <2>1. 1 .. N \subseteq T
    BY <1>1, <1>5, <1>6, UpTo
  <2> QED
    BY <1>1, <2>1
<1> QED
  BY <1>4, <1>7 DEF T, s, N

\* The builder's maps: its two maps agree, it holds what callers gave, and only
\* constants.bin has a part that is loaded at the start.
BuilderInv ==
  /\ DOMAIN segmentBufferMap = DOMAIN segmentOffsets /\ DOMAIN segmentBufferMap \subseteq Names
  /\ \A n \in DOMAIN segmentBufferMap :
       /\ segmentBufferMap[n] \in Given(n) /\ segmentOffsets[n] \in 0 .. Len(segmentBufferMap[n])
       /\ n # Constants => segmentOffsets[n] = 0

\* What a caller hands over may be the data of a segment.
LEMMA GivenOK ==
  ASSUME NEW n \in Names, NEW data \in Given(n)
  PROVE  DataOK(n, data)
<1>1. data \in Seq(Chunks) /\ (n = Elf => WellFormedElf(data))
  BY DataAssumption
<1>2. MaxChunks \in Nat /\ Len(data) < MaxChunks
  BY MaxChunksFits DEF HasRoomFor
<1>3. Len(data) <= MaxChunks
  BY <1>1, <1>2
<1> QED
  BY <1>1, <1>2, <1>3 DEF DataOK

\* What Finalize and FinalizeToByteArray serialize is a well-formed list of segments.
LEMMA BuilderSegmentsOK ==
  ASSUME BuilderInv
  PROVE  BuilderSegments \in SegLists
<1> DEFINE S == DOMAIN segmentBufferMap
           present == FlattenSeq([i \in DOMAIN NameOrder |-> HeldAt(i, S)])
           offset(n) == IF n \in DOMAIN segmentOffsets THEN segmentOffsets[n] ELSE 0
           seg(n) == [name |-> n, data |-> segmentBufferMap[n], offset |-> offset(n)]
           T == [name : Names, data : Seq(Chunks), offset : Nat]
<1>1. BuilderSegments = [i \in 1 .. Len(present) |-> seg(present[i])]
  BY DEF BuilderSegments, HeldAt
<1>2. /\ present \in Seq(STRING) /\ Len(present) <= Len(NameOrder) /\ \A i \in 1 .. Len(present) : present[i] \in S
      /\ \A i, j \in 1 .. Len(present) : present[i] = present[j] => i = j
  <2>1. HeldUpTo(present, Len(NameOrder), S)
    BY HeldNames
  <2> HIDE DEF present
  <2> QED
    BY <2>1 DEF HeldUpTo
<1> HIDE DEF present
<1>3. ASSUME NEW n \in S PROVE seg(n) \in T /\ SegmentOK(seg(n))
  <2>1. n \in Names /\ segmentBufferMap[n] \in Given(n) /\ offset(n) \in 0 .. Len(segmentBufferMap[n])
        /\ (n # Constants => offset(n) = 0)
    BY DEF BuilderInv
  <2>2. DataOK(n, segmentBufferMap[n])
    BY <2>1, GivenOK
  <2>3. segmentBufferMap[n] \in Seq(Chunks)
    BY <2>2 DEF DataOK
  <2>4. offset(n) \in Nat /\ offset(n) <= Len(segmentBufferMap[n])
    BY <2>1, <2>3
  <2>5. n = Elf => n # Constants
    BY DEF Elf, Constants
  <2> HIDE DEF offset
  <2>6. seg(n).name = n /\ seg(n).data = segmentBufferMap[n] /\ seg(n).offset = offset(n)
    OBVIOUS
  <2>7. seg(n) \in T
    BY <2>1, <2>3, <2>4
  <2> HIDE DEF seg, T
  <2>8. SegmentOK(seg(n))
    BY <2>1, <2>2, <2>4, <2>5, <2>6 DEF SegmentOK
  <2> QED
    BY <2>7, <2>8
<1>4. \A n \in S : seg(n).name = n
  OBVIOUS
<1> HIDE DEF S, seg, T
<1>5. BuilderSegments \in [1 .. Len(present) -> T] /\ Len(present) \in Nat
      /\ \A i \in 1 .. Len(present) : BuilderSegments[i] = seg(present[i])
  BY <1>1, <1>2, <1>3
<1>6. BuilderSegments \in Seq(T) /\ Len(BuilderSegments) = Len(present)
  BY <1>5, FunctionIsSeq
<1>7. \A i \in 1 .. Len(BuilderSegments) : SegmentOK(BuilderSegments[i]) /\ BuilderSegments[i].name = present[i]
  BY <1>2, <1>3, <1>4, <1>5, <1>6
<1>8. \A i, j \in 1 .. Len(BuilderSegments) : BuilderSegments[i].name = BuilderSegments[j].name => i = j
  BY <1>2, <1>6, <1>7
<1>9. Len(BuilderSegments) <= Len(NameOrder)
  BY <1>2, <1>6
<1> QED
  BY <1>6, <1>7, <1>8, <1>9 DEF SegLists, T

-----------------------------------------------------------------------------
(* The conversion of a section.                                            *)

\* t is s with e put in at position i, or with the element at position i taken out.
InsertedIn(t, s, i, e) ==
  /\ Len(t) = Len(s) + 1 /\ t[i] = e
  /\ \A j \in 1 .. i - 1 : t[j] = s[j]
  /\ \A j \in i .. Len(s) : t[j + 1] = s[j]
TakenOut(t, s, i) ==
  /\ Len(t) = Len(s) - 1
  /\ \A j \in 1 .. i - 1 : t[j] = s[j]
  /\ \A j \in i .. Len(s) - 1 : t[j] = s[j + 1]

\* The first i elements, and those after them.
LEMMA CutAt ==
  ASSUME NEW V, NEW s \in Seq(V), NEW i \in 0 .. Len(s)
  PROVE  /\ SubSeq(s, 1, i) \in Seq(V) /\ Len(SubSeq(s, 1, i)) = i
         /\ \A j \in 1 .. i : SubSeq(s, 1, i)[j] = s[j]
         /\ SubSeq(s, i + 1, Len(s)) \in Seq(V) /\ Len(SubSeq(s, i + 1, Len(s))) = Len(s) - i
         /\ \A j \in 1 .. Len(s) - i : SubSeq(s, i + 1, Len(s))[j] = s[i + j]
<1> DEFINE n == Len(s)
           a == SubSeq(s, 1, i)
           b == SubSeq(s, i + 1, n)
<1>1. n \in Nat /\ i \in Nat /\ i <= n /\ \A j \in 1 .. n : s[j] \in V
  OBVIOUS
<1>2. /\ a \in Seq(V) /\ Len(a) = (IF 1 <= i THEN i - 1 + 1 ELSE 0)
      /\ \A j \in 1 .. i - 1 + 1 : a[j] = s[1 + j - 1]
  BY <1>1, SubSeqProperties
<1>3. /\ b \in Seq(V) /\ Len(b) = (IF i + 1 <= n THEN n - (i + 1) + 1 ELSE 0)
      /\ \A j \in 1 .. n - (i + 1) + 1 : b[j] = s[i + 1 + j - 1]
  BY <1>1, SubSeqProperties
<1> HIDE DEF a, b, n
<1>4. /\ i - 1 + 1 = i /\ n - (i + 1) + 1 = n - i
      /\ \A j \in 1 .. i : 1 + j - 1 = j
      /\ \A j \in 1 .. n - i : i + 1 + j - 1 = i + j
  BY <1>1
<1>5. Len(a) = i /\ Len(b) = n - i
  BY <1>1, <1>2, <1>3
<1>6. \A j \in 1 .. i : a[j] = s[j]
  BY <1>2, <1>4
<1>7. \A j \in 1 .. n - i : b[j] = s[i + j]
  BY <1>3, <1>4
<1> QED
  BY <1>2, <1>3, <1>5, <1>6, <1>7 DEF a, b, n

\* InsertAt, element by element.
LEMMA InsertAtOf ==
  ASSUME NEW V, NEW s \in Seq(V), NEW i \in 1 .. Len(s) + 1, NEW e \in V
  PROVE  InsertAt(s, i, e) \in Seq(V) /\ InsertedIn(InsertAt(s, i, e), s, i, e)
<1> DEFINE n == Len(s)
           k == i - 1
           a == SubSeq(s, 1, k)
           b == SubSeq(s, k + 1, n)
           x == <<e>>
           y == a \o x
           t == y \o b
<1>1. n \in Nat /\ k \in 0 .. n /\ i = k + 1
  OBVIOUS
<1>2. InsertAt(s, i, e) = t
  BY <1>1 DEF InsertAt
<1> HIDE DEF k
<1>3. /\ a \in Seq(V) /\ Len(a) = k /\ \A j \in 1 .. k : a[j] = s[j]
      /\ b \in Seq(V) /\ Len(b) = n - k /\ \A j \in 1 .. n - k : b[j] = s[k + j]
  BY <1>1, CutAt
<1>4. x \in Seq(V) /\ Len(x) = 1 /\ x[1] = e
  OBVIOUS
<1> HIDE DEF a, b, x, n
<1>5. y \in Seq(V) /\ TwoParts(y, a, x)
  BY <1>3, <1>4, TwoPartsOf
<1> HIDE DEF y
<1>6. t \in Seq(V) /\ TwoParts(t, y, b)
  BY <1>3, <1>5, TwoPartsOf
<1> HIDE DEF t
<1>7. Len(y) = k + 1 /\ Len(t) = n + 1
  BY <1>1, <1>3, <1>4, <1>5, <1>6 DEF TwoParts
<1>8. \A j \in 1 .. k : t[j] = s[j]
  <2> TAKE j \in 1 .. k
  <2>1. j \in 1 .. Len(y) /\ j \in 1 .. Len(a)
    BY <1>1, <1>3, <1>7
  <2>2. t[j] = y[j] /\ y[j] = a[j]
    BY <1>5, <1>6, <2>1 DEF TwoParts
  <2> QED
    BY <1>3, <2>2
<1>9. t[i] = e
  <2>1. i \in 1 .. Len(y) /\ i = Len(a) + 1 /\ 1 \in 1 .. Len(x)
    BY <1>1, <1>3, <1>4, <1>7
  <2>2. t[i] = y[i] /\ y[Len(a) + 1] = x[1]
    BY <1>5, <1>6, <2>1 DEF TwoParts
  <2> QED
    BY <1>4, <2>1, <2>2
<1>10. \A j \in i .. n : t[j + 1] = s[j]
  <2> TAKE j \in i .. n
  <2> DEFINE l == j - k
  <2>1. l \in 1 .. n - k /\ j + 1 = Len(y) + l /\ j = k + l
    BY <1>1, <1>7
  <2>2. l \in 1 .. Len(b)
    BY <1>3, <2>1
  <2> HIDE DEF l
  <2>3. t[Len(y) + l] = b[l]
    BY <1>6, <2>2 DEF TwoParts
  <2>4. b[l] = s[k + l]
    BY <1>3, <2>1
  <2> QED
    BY <2>1, <2>3, <2>4
<1>11. InsertedIn(t, s, i, e)
  BY <1>1, <1>7, <1>8, <1>9, <1>10 DEF InsertedIn, k, n
<1> QED
  BY <1>2, <1>6, <1>11

\* RemoveAt, element by element.
LEMMA RemoveAtOf ==
  ASSUME NEW V, NEW s \in Seq(V), NEW i \in 1 .. Len(s)
  PROVE  RemoveAt(s, i) \in Seq(V) /\ TakenOut(RemoveAt(s, i), s, i)
<1> DEFINE n == Len(s)
           k == i - 1
           a == SubSeq(s, 1, k)
           b == SubSeq(s, i + 1, n)
           t == a \o b
<1>1. n \in Nat /\ k \in 0 .. n /\ i \in 0 .. n /\ i = k + 1 /\ k \in Nat /\ i <= n
  OBVIOUS
<1>2. RemoveAt(s, i) = t
  BY DEF RemoveAt
<1>3. a \in Seq(V) /\ Len(a) = k /\ \A j \in 1 .. k : a[j] = s[j]
  <2> HIDE DEF k
  <2> QED
    BY <1>1, CutAt
<1>4. b \in Seq(V) /\ Len(b) = n - i /\ \A j \in 1 .. n - i : b[j] = s[i + j]
  BY <1>1, CutAt
<1> HIDE DEF a, b, n, k
<1>5. t \in Seq(V) /\ TwoParts(t, a, b)
  BY <1>3, <1>4, TwoPartsOf
<1> HIDE DEF t
<1>6. Len(t) = n - 1
  BY <1>1, <1>3, <1>4, <1>5 DEF TwoParts
<1>7. \A j \in 1 .. k : t[j] = s[j]
  BY <1>3, <1>5 DEF TwoParts
<1>8. \A j \in i .. n - 1 : t[j] = s[j + 1]
  <2> TAKE j \in i .. n - 1
  <2> DEFINE l == j - k
  <2>1. l \in 1 .. n - i /\ j = Len(a) + l /\ j + 1 = i + l
    BY <1>1, <1>3
  <2>2. l \in 1 .. Len(b)
    BY <1>4, <2>1
  <2> HIDE DEF l
  <2>3. t[Len(a) + l] = b[l]
    BY <1>5, <2>2 DEF TwoParts
  <2>4. b[l] = s[i + l]
    BY <1>4, <2>1
  <2> QED
    BY <2>1, <2>3, <2>4
<1>9. TakenOut(t, s, i)
  BY <1>6, <1>7, <1>8 DEF TakenOut, n, k
<1> QED
  BY <1>2, <1>5, <1>9

\* The position of the only section with a name.
LEMMA OnlySection ==
  ASSUME NEW sections, NEW i \in DOMAIN sections,
         \A j \in DOMAIN sections : sections[j].section = sections[i].section => j = i
  PROVE  IndexOf(sections, sections[i].section) = i
BY DEF IndexOf

\* The conversion puts the new section at position k of t, and s[src] is its source.
LEMMA ConversionInserts ==
  ASSUME NEW s \in Seq(Chunks), WellFormedElf(s), NEW src \in 1 .. Len(s), s[src].section = "metadata",
         ~ HasSection(s, "metadata_fb"),
         NEW e \in Chunks, e.section = "metadata_fb", e.text = Converted(s[src].text),
         NEW t \in Seq(Chunks), InsertedIn(t, s, src + 1, e)
  PROVE  WellFormedElf(t) /\ HasSection(t, "metadata_fb")
<1> DEFINE n == Len(s)
           from(i) == IF i <= src THEN i ELSE i - 1
<1>1. /\ n \in Nat /\ src \in 1 .. n /\ DOMAIN s = 1 .. n /\ DOMAIN t = 1 .. Len(t)
      /\ Len(t) = n + 1 /\ src + 1 \in 1 .. n + 1
  BY DEF InsertedIn
<1>2. t[src + 1] = e
  BY DEF InsertedIn
<1>3. \A i \in 1 .. n + 1 : i # src + 1 => from(i) \in 1 .. n /\ t[i] = s[from(i)]
  <2> SUFFICES ASSUME NEW i \in 1 .. n + 1, i # src + 1 PROVE from(i) \in 1 .. n /\ t[i] = s[from(i)]
    OBVIOUS
  <2>1. CASE i <= src
    <3>1. i \in 1 .. src + 1 - 1
      BY <1>1, <2>1
    <3> QED
      BY <1>1, <2>1, <3>1 DEF InsertedIn
  <2>2. CASE ~ (i <= src)
    <3>1. i - 1 \in src + 1 .. n /\ i - 1 + 1 = i /\ i - 1 \in 1 .. n
      BY <1>1, <2>2
    <3> QED
      BY <2>2, <3>1 DEF InsertedIn
  <2> QED
    BY <2>1, <2>2
<1>4. \A i, j \in 1 .. n + 1 : i # src + 1 /\ j # src + 1 /\ from(i) = from(j) => i = j
  BY <1>1
<1> HIDE DEF n, from
<1>5. \A i \in 1 .. n : s[i].section # "metadata_fb"
  BY <1>1 DEF HasSection
<1>6. ASSUME NEW i \in DOMAIN t, NEW j \in DOMAIN t, t[i].section = t[j].section,
             t[i].section \in {"metadata", "metadata_fb"}
      PROVE  i = j
  <2>1. i \in 1 .. n + 1 /\ j \in 1 .. n + 1
    BY <1>1
  <2>2. CASE t[i].section = "metadata_fb"
    <3>1. i = src + 1
      BY <1>3, <1>5, <2>1, <2>2
    <3>2. j = src + 1
      BY <1>3, <1>5, <1>6, <2>1, <2>2
    <3> QED
      BY <3>1, <3>2
  <2>3. CASE t[i].section = "metadata"
    <3>1. i # src + 1 /\ j # src + 1
      BY <1>2, <1>6, <2>3
    <3>2. from(i) \in DOMAIN s /\ from(j) \in DOMAIN s /\ t[i] = s[from(i)] /\ t[j] = s[from(j)]
      BY <1>1, <1>3, <2>1, <3>1
    <3>3. from(i) = from(j)
      BY <1>6, <2>3, <3>2 DEF WellFormedElf
    <3> QED
      BY <1>4, <2>1, <3>1, <3>3
  <2> QED
    BY <1>6, <2>2, <2>3
<1>7. ASSUME NEW i \in DOMAIN t, t[i].section = "metadata_fb"
      PROVE  \E j \in DOMAIN t : t[j].section = "metadata" /\ t[i].text = Converted(t[j].text)
  <2>1. i \in 1 .. n + 1
    BY <1>1
  <2>2. i = src + 1
    BY <1>3, <1>5, <1>7, <2>1
  <2>3. src \in DOMAIN t /\ t[src] = s[src]
    <3>1. src \in 1 .. src + 1 - 1
      BY <1>1
    <3> QED
      BY <1>1, <3>1 DEF InsertedIn
  <2> QED
    BY <1>2, <2>2, <2>3
<1>8. HasSection(t, "metadata_fb")
  <2>1. src + 1 \in DOMAIN t
    BY <1>1
  <2> QED
    BY <1>2, <2>1 DEF HasSection
<1> QED
  BY <1>6, <1>7, <1>8 DEF WellFormedElf

\* Replacing an earlier conversion leaves a well-formed ELF file with a conversion.
LEMMA ConversionReplaces ==
  ASSUME NEW s \in Seq(Chunks), WellFormedElf(s), NEW src \in 1 .. Len(s), s[src].section = "metadata",
         NEW k \in 1 .. Len(s), s[k].section = "metadata_fb",
         NEW e \in Chunks, e.section = "metadata_fb", e.text = Converted(s[src].text),
         NEW t \in Seq(Chunks), Len(t) = Len(s), t[k] = e, \A j \in 1 .. Len(s) : j # k => t[j] = s[j]
  PROVE  WellFormedElf(t) /\ HasSection(t, "metadata_fb")
<1> DEFINE n == Len(s)
<1>1. n \in Nat /\ DOMAIN s = 1 .. n /\ DOMAIN t = 1 .. n
  OBVIOUS
<1>2. \A i \in 1 .. n : t[i].section = s[i].section
  OBVIOUS
<1> HIDE DEF n
<1>3. \A i, j \in DOMAIN t :
        t[i].section = t[j].section /\ t[i].section \in {"metadata", "metadata_fb"} => i = j
  BY <1>1, <1>2 DEF WellFormedElf
<1>4. ASSUME NEW i \in DOMAIN t, t[i].section = "metadata_fb"
      PROVE  \E j \in DOMAIN t : t[j].section = "metadata" /\ t[i].text = Converted(t[j].text)
  <2>1. i = k
    BY <1>1, <1>2, <1>3, <1>4 DEF n
  <2>2. src \in DOMAIN t /\ src # k
    BY <1>1 DEF n
  <2>3. t[src] = s[src]
    BY <2>2
  <2> QED
    BY <2>1, <2>2, <2>3
<1>5. HasSection(t, "metadata_fb")
  BY <1>1 DEF HasSection, n
<1> QED
  BY <1>3, <1>4, <1>5 DEF WellFormedElf

\* IndexOf finds a section that is there.
LEMMA SectionAt ==
  ASSUME NEW sections, NEW name, HasSection(sections, name)
  PROVE  IndexOf(sections, name) \in DOMAIN sections /\ sections[IndexOf(sections, name)].section = name
BY DEF HasSection, IndexOf

\* The conversion of an ELF file that a container may hold is one that it may hold.
LEMMA ConvertedElfOK ==
  ASSUME NEW sections, DataOK(Elf, sections), HasSection(sections, "metadata")
  PROVE  DataOK(Elf, ConvertedElf(sections))
<1> DEFINE src == IndexOf(sections, "metadata")
           e == [section |-> "metadata_fb", text |-> Converted(sections[src].text)]
           k == IndexOf(sections, "metadata_fb")
           n == Len(sections)
<1>1. /\ sections \in Seq(Chunks) /\ n \in Nat /\ n <= MaxChunks /\ WellFormedElf(sections)
      /\ HasSection(sections, "metadata_fb") \/ n < MaxChunks
      /\ DOMAIN sections = 1 .. n /\ MaxChunks \in Nat
  <2>1. sections \in Seq(Chunks) /\ n <= MaxChunks /\ WellFormedElf(sections)
        /\ (HasSection(sections, "metadata_fb") \/ n < MaxChunks)
    BY DEF DataOK
  <2> QED
    BY <2>1, MaxChunksFits
<1>2. src \in 1 .. n /\ sections[src].section = "metadata"
  BY <1>1, SectionAt
<1>3. e \in Chunks /\ e.section = "metadata_fb" /\ e.text = Converted(sections[src].text)
  <2>1. sections[src] \in Chunks
    BY <1>1, <1>2
  <2> DEFINE text == sections[src].text
             c == <<"converted">>
  <2>2. text \in Seq(STRING)
    BY <2>1 DEF Chunks
  <2>3. c \in Seq(STRING)
    <3> DEFINE w == "converted"
    <3>1. w \in STRING
      BY LiteralsAssumption
    <3> HIDE DEF w
    <3>2. <<w>> \in Seq(STRING)
      BY <3>1
    <3> QED
      BY <3>2 DEF w
  <2> HIDE DEF text, c
  <2>4. c \o text \in Seq(STRING)
    BY <2>2, <2>3
  <2>5. Converted(text) \in Seq(STRING)
    BY <2>4 DEF Converted, c
  <2> DEFINE x == Converted(text)
             name == "metadata_fb"
  <2>6. e = [section |-> name, text |-> x] /\ name \in STRING /\ x \in Seq(STRING)
    BY <2>5, LiteralsAssumption DEF text
  <2> HIDE DEF e, x, name
  <2>7. e \in Chunks /\ e.section = name /\ e.text = x
    BY <2>6 DEF Chunks
  <2> QED
    BY <2>7 DEF text, x, name
<1>4. CASE HasSection(sections, "metadata_fb")
  <2> DEFINE t == [sections EXCEPT ![k] = e]
  <2>1. k \in 1 .. n /\ sections[k].section = "metadata_fb"
    BY <1>1, <1>4, SectionAt
  <2>2. ConvertedElf(sections) = t
    BY <1>4 DEF ConvertedElf
  <2> HIDE DEF src, e, k, n
  <2>3. t \in [1 .. n -> Chunks] /\ t[k] = e /\ \A j \in 1 .. n : j # k => t[j] = sections[j]
    BY <1>1, <1>3, <2>1 DEF n
  <2> HIDE DEF t
  <2>4. t \in Seq(Chunks) /\ Len(t) = n
    BY <1>1, <2>3, FunctionIsSeq
  <2>5. WellFormedElf(t) /\ HasSection(t, "metadata_fb")
    BY <1>1, <1>2, <1>3, <2>1, <2>3, <2>4, ConversionReplaces DEF n
  <2> QED
    BY <1>1, <2>2, <2>4, <2>5 DEF DataOK
<1>5. CASE ~ HasSection(sections, "metadata_fb")
  <2> DEFINE t == InsertAt(sections, src + 1, e)
  <2>2. ConvertedElf(sections) = t
    BY <1>5 DEF ConvertedElf
  <2> HIDE DEF src, e, k
  <2>3. t \in Seq(Chunks) /\ InsertedIn(t, sections, src + 1, e)
    <3>1. src + 1 \in 1 .. Len(sections) + 1
      BY <1>1, <1>2
    <3> QED
      BY <1>1, <1>3, <3>1, InsertAtOf
  <2> HIDE DEF t, n
  <2>4. WellFormedElf(t) /\ HasSection(t, "metadata_fb")
    BY <1>1, <1>2, <1>3, <1>5, <2>3, ConversionInserts DEF n
  <2>5. Len(t) <= MaxChunks
    <3>1. Len(t) = n + 1 /\ n < MaxChunks
      BY <1>1, <1>5, <2>3 DEF InsertedIn, n
    <3> QED
      BY <1>1, <3>1
  <2> QED
    BY <2>2, <2>3, <2>4, <2>5 DEF DataOK
<1> QED
  BY <1>4, <1>5

\* Converting the ELF file of a container: its segment is taken out and the new one put last.
ConvertedList(segs, at) ==
  Append(RemoveAt(segs, at), [name |-> Elf, offset |-> 0, data |-> ConvertedElf(segs[at].data)])

\* The list of segments after a conversion is well-formed; the ELF file is its last segment.
LEMMA ConvertedListFacts ==
  ASSUME NEW segs \in SegLists, NEW at \in 1 .. Len(segs), segs[at].name = Elf,
         HasSection(segs[at].data, "metadata")
  PROVE  /\ ConvertedList(segs, at) \in SegLists /\ Len(ConvertedList(segs, at)) = Len(segs)
         /\ ConvertedList(segs, at)[Len(segs)]
              = [name |-> Elf, offset |-> 0, data |-> ConvertedElf(segs[at].data)]
         /\ \A i \in 1 .. Len(segs) - 1 :
              ConvertedList(segs, at)[i] = segs[IF i < at THEN i ELSE i + 1]
<1> DEFINE n == Len(segs)
           e == [name |-> Elf, offset |-> 0, data |-> ConvertedElf(segs[at].data)]
           T == [name : Names, data : Seq(Chunks), offset : Nat]
           r == RemoveAt(segs, at)
           t == ConvertedList(segs, at)
           from(i) == IF i < at THEN i ELSE i + 1
<1>1. n \in Nat /\ at \in 1 .. n /\ n <= Len(NameOrder)
  BY SegListFacts
<1>2. \A i \in 1 .. n : SegmentOK(segs[i])
  BY SegListFacts
<1>3. \A i, j \in 1 .. n : segs[i].name = segs[j].name => i = j
  BY SegListFacts
<1>4. segs \in Seq(T)
  BY DEF SegLists
<1>5. e \in T /\ SegmentOK(e) /\ e.name = Elf
  <2> DEFINE data == ConvertedElf(segs[at].data)
  <2>1. DataOK(Elf, data)
    <3>1. DataOK(Elf, segs[at].data)
      BY <1>2 DEF SegmentOK
    <3> QED
      BY <3>1, ConvertedElfOK
  <2>2. data \in Seq(Chunks) /\ Elf \in Names
    BY <2>1, NamesAssumption DEF DataOK
  <2> HIDE DEF data
  <2>3. Len(data) \in Nat /\ 0 <= Len(data)
    BY <2>2
  <2>4. e = [name |-> Elf, offset |-> 0, data |-> data]
    BY DEF data
  <2> HIDE DEF e
  <2>5. e.name = Elf /\ e.offset = 0 /\ e.data = data /\ e \in T
    BY <2>2, <2>4
  <2> QED
    BY <2>1, <2>3, <2>5 DEF SegmentOK
<1> HIDE DEF e, T, r
<1>6. r \in Seq(T) /\ TakenOut(r, segs, at)
  BY <1>4, RemoveAtOf DEF r
<1>7. Len(r) = n - 1 /\ Len(r) \in Nat
  BY <1>1, <1>6 DEF TakenOut
<1>8. t = Append(r, e)
  BY DEF ConvertedList, e, r
<1> HIDE DEF t
<1>9. t \in Seq(T) /\ Len(t) = n /\ t[n] = e /\ \A i \in 1 .. n - 1 : t[i] = r[i]
  <2>1. t \in Seq(T) /\ Len(t) = Len(r) + 1 /\ t[Len(r) + 1] = e /\ \A i \in 1 .. Len(r) : t[i] = r[i]
    BY <1>5, <1>6, <1>8, AppendProperties
  <2>2. Len(r) + 1 = n
    BY <1>1, <1>7
  <2> QED
    BY <1>7, <2>1, <2>2
<1>10. ASSUME NEW i \in 1 .. n - 1 PROVE t[i] = segs[from(i)] /\ from(i) \in 1 .. n /\ from(i) # at
  <2>1. t[i] = r[i]
    BY <1>9
  <2>2. CASE i < at
    <3>1. i \in 1 .. at - 1 /\ i \in 1 .. n
      BY <1>1, <2>2
    <3> QED
      BY <1>6, <2>1, <2>2, <3>1 DEF TakenOut
  <2>3. CASE ~ (i < at)
    <3>1. i \in at .. n - 1 /\ i + 1 \in 1 .. n /\ i + 1 # at
      BY <1>1, <2>3
    <3> QED
      BY <1>6, <2>1, <2>3, <3>1 DEF TakenOut
  <2> QED
    BY <2>2, <2>3
<1>11. \A i, j \in 1 .. n - 1 : from(i) = from(j) => i = j
  BY <1>1
<1> HIDE DEF from, n
<1>12. \A i \in 1 .. n : i = n \/ i \in 1 .. n - 1
  BY <1>1
<1>13. \A i \in 1 .. n : SegmentOK(t[i])
  BY <1>2, <1>5, <1>9, <1>10, <1>12
<1>14. \A i \in 1 .. n - 1 : t[i].name # Elf
  BY <1>1, <1>3, <1>10
<1>15. \A i, j \in 1 .. n : t[i].name = t[j].name => i = j
  <2> TAKE i, j \in 1 .. n
  <2> HAVE t[i].name = t[j].name
  <2>1. CASE i = n \/ j = n
    BY <1>5, <1>9, <1>12, <1>14, <2>1
  <2>2. CASE i \in 1 .. n - 1 /\ j \in 1 .. n - 1
    BY <1>3, <1>10, <1>11, <2>2
  <2> QED
    BY <1>12, <2>1, <2>2
<1>16. t \in SegLists
  BY <1>1, <1>9, <1>13, <1>15 DEF SegLists, T
<1> QED
  BY <1>9, <1>10, <1>16 DEF t, n, e, from

\* A segment that is all loaded later.
LEMMA PartsAll ==
  ASSUME NEW V, NEW data \in Seq(V)
  PROVE  Parts(data, 0) = [fixed |-> <<>>, rest |-> data]
<1> DEFINE n == Len(data)
<1>1. n \in Nat /\ 0 <= n /\ 0 \in Nat /\ 0 + 1 = 1
  OBVIOUS
<1>2. Parts(data, 0) = [fixed |-> SubSeq(data, 1, 0), rest |-> SubSeq(data, 0 + 1, n)]
  BY <1>1, PartsCut
<1>3. SubSeq(data, 1, 0) = <<>> /\ SubSeq(data, 1, n) = data
  BY EmptyPart, WholeSeq
<1> QED
  BY <1>1, <1>2, <1>3

\* ... and means the segments with that one converted.
LEMMA ConvertedListMeans ==
  ASSUME NEW segs \in SegLists, NEW at \in 1 .. Len(segs), segs[at].name = Elf,
         HasSection(segs[at].data, "metadata")
  PROVE  MapOf(ConvertedList(segs, at)) = ConvertMap(MapOf(segs))
<1> DEFINE n == Len(segs)
           t == ConvertedList(segs, at)
           c == ConvertedElf(segs[at].data)
           e == [name |-> Elf, offset |-> 0, data |-> c]
           from(i) == IF i < at THEN i ELSE i + 1
           f == MapOf(segs)
           g == MapOf(t)
           h == ConvertMap(f)
           names == {segs[i].name : i \in 1 .. n}
<1>1. n \in Nat /\ n > 0 /\ \A i, j \in 1 .. n : segs[i].name = segs[j].name => i = j
  BY SegListFacts
<1>2. t \in SegLists /\ Len(t) = n /\ t[n] = e /\ \A i \in 1 .. n - 1 : t[i] = segs[from(i)]
  BY ConvertedListFacts
<1>3. segs[at].data \in Seq(Chunks) /\ segs[at].offset = 0 /\ c \in Seq(Chunks)
  <2>1. SegmentOK(segs[at])
    BY SegListFacts
  <2>2. DataOK(Elf, segs[at].data) /\ segs[at].offset = 0
    BY <2>1 DEF SegmentOK
  <2>3. DataOK(Elf, c)
    BY <2>2, ConvertedElfOK
  <2> QED
    BY <2>2, <2>3 DEF DataOK
<1>4. e.name = Elf /\ e.offset = 0 /\ e.data = c
  OBVIOUS
<1>5. /\ DOMAIN f = names /\ f = [m \in DOMAIN f |-> f[m]]
      /\ \A i \in 1 .. n : f[segs[i].name] = Parts(segs[i].data, segs[i].offset)
  BY MapOfAt
<1> HIDE DEF t, c, e
<1>6. /\ DOMAIN g = {t[i].name : i \in 1 .. Len(t)} /\ g = [m \in DOMAIN g |-> g[m]]
      /\ \A i \in 1 .. Len(t) : g[t[i].name] = Parts(t[i].data, t[i].offset)
  BY <1>2, MapOfAt
<1> HIDE DEF f, g, n
<1>7. f[Elf] = [fixed |-> <<>>, rest |-> segs[at].data]
  <2>1. f[Elf] = Parts(segs[at].data, 0)
    BY <1>3, <1>5 DEF n
  <2> QED
    BY <1>3, <2>1, PartsAll
<1>8. g[Elf] = [fixed |-> <<>>, rest |-> c]
  <2>1. g[Elf] = Parts(c, 0)
    <3>1. n \in 1 .. n
      BY <1>1
    <3> QED
      BY <1>2, <1>4, <1>6, <3>1
  <2> QED
    BY <1>3, <2>1, PartsAll
<1>9. Elf \in names
  BY <1>1 DEF n
<1>10. \A i \in 1 .. n - 1 : from(i) \in 1 .. n /\ from(i) # at
  BY <1>1 DEF n
<1>11. \A i \in 1 .. n : i # at => \E j \in 1 .. n - 1 : from(j) = i
  <2> TAKE i \in 1 .. n
  <2> HAVE i # at
  <2>1. CASE i < at
    <3>1. i \in 1 .. n - 1 /\ from(i) = i
      BY <1>1, <2>1 DEF n
    <3> QED
      BY <3>1
  <2>2. CASE i > at
    <3>1. i - 1 \in 1 .. n - 1 /\ from(i - 1) = i
      BY <1>1, <2>2 DEF n
    <3> QED
      BY <3>1
  <2> QED
    BY <1>1, <2>1, <2>2 DEF n
<1> HIDE DEF from
<1>12. at \in 1 .. n
  BY DEF n
<1>13. DOMAIN g = names
  <2>1. ASSUME NEW i \in 1 .. n PROVE t[i].name \in names
    <3>1. CASE i = n
      BY <1>2, <1>4, <1>9, <3>1
    <3>2. CASE i # n
      <4>1. i \in 1 .. n - 1
        BY <1>1, <3>2
      <4> QED
        BY <1>2, <1>10, <4>1
    <3> QED
      BY <3>1, <3>2
  <2>2. ASSUME NEW i \in 1 .. n PROVE \E j \in 1 .. n : t[j].name = segs[i].name
    <3>1. CASE i = at
      <4>1. n \in 1 .. n
        BY <1>1
      <4> QED
        BY <1>2, <1>4, <3>1, <4>1
    <3>2. CASE i # at
      <4>1. PICK j \in 1 .. n - 1 : from(j) = i
        BY <1>11, <3>2
      <4>2. j \in 1 .. n /\ t[j] = segs[i]
        BY <1>1, <1>2, <4>1
      <4> QED
        BY <4>2
    <3> QED
      BY <3>1, <3>2
  <2> DEFINE nt(j) == t[j].name
             ns(j) == segs[j].name
  <2>3. {nt(i) : i \in 1 .. n} = {ns(i) : i \in 1 .. n}
    <3>1. \A i \in 1 .. n : \E j \in 1 .. n : nt(i) = ns(j)
      BY <2>1
    <3>2. \A i \in 1 .. n : \E j \in 1 .. n : nt(j) = ns(i)
      BY <2>2
    <3> HIDE DEF nt, ns
    <3> QED
      BY <3>1, <3>2
  <2>4. DOMAIN g = {nt(i) : i \in 1 .. n}
    BY <1>2, <1>6
  <2> QED
    BY <2>3, <2>4
<1>14. ASSUME NEW i \in 1 .. n, i # at PROVE g[segs[i].name] = f[segs[i].name]
  <2>1. PICK j \in 1 .. n - 1 : from(j) = i
    BY <1>11, <1>14
  <2>2. j \in 1 .. n /\ t[j] = segs[i]
    BY <1>1, <1>2, <2>1
  <2>3. g[t[j].name] = Parts(t[j].data, t[j].offset)
    BY <1>2, <1>6, <2>2
  <2>4. f[segs[i].name] = Parts(segs[i].data, segs[i].offset)
    BY <1>5
  <2> QED
    BY <2>2, <2>3, <2>4
<1>15. h = [f EXCEPT ![Elf] = [f[Elf] EXCEPT !.rest = c]]
  <2> DEFINE x == f[Elf]
  <2>1. x.rest = segs[at].data
    BY <1>7
  <2>2. h = [f EXCEPT ![Elf] = [x EXCEPT !.rest = ConvertedElf(x.rest)]]
    BY DEF ConvertMap
  <2> QED
    BY <2>1, <2>2 DEF c
<1>16. [f[Elf] EXCEPT !.rest = c] = [fixed |-> <<>>, rest |-> c]
  <2> DEFINE x == f[Elf]
             d == segs[at].data
  <2>1. x = [fixed |-> <<>>, rest |-> d]
    BY <1>7
  <2> HIDE DEF x, d
  <2>2. [x EXCEPT !.rest = c] = [fixed |-> <<>>, rest |-> c]
    BY <2>1
  <2> QED
    BY <2>2 DEF x
<1> HIDE DEF names
<1> HIDE DEF h
<1>17. /\ h = [m \in names |-> h[m]] /\ h[Elf] = g[Elf]
       /\ \A m \in names : m # Elf => h[m] = f[m]
  BY <1>5, <1>8, <1>9, <1>15, <1>16
<1>18. \A m \in names : h[m] = g[m]
  <2> TAKE m \in names
  <2>1. CASE m = Elf
    BY <1>17, <2>1
  <2>2. CASE m # Elf
    <3>1. PICK i \in 1 .. n : segs[i].name = m
      BY DEF names
    <3>2. i # at
      BY <2>2, <3>1
    <3> QED
      BY <1>14, <1>17, <2>2, <3>1, <3>2
  <2> QED
    BY <2>1, <2>2
<1> QED
  BY <1>6, <1>13, <1>17, <1>18 DEF h, g, f, t

-----------------------------------------------------------------------------
(* The inductive invariant.                                                *)

\* A handle that was not built into has no recorded offsets.
GoodObjects == {o \in Objects : o.builds = 0 => o.namesAt = <<>> /\ o.startsAt = <<>>}

\* Cells at base, if there are any, are a container of the segments that map names.
HoldsAt(cells, map, base) ==
  cells # <<>> => \E segs \in SegLists : IsContainer(cells, segs, base) /\ map = MapOf(segs)

\* A file is missing, or not finished, or it is a container.
Unfinished(cells) == Len(cells) \in Nat \ {0} /\ cells[1].val.size = 0
FileHolds(cells, map) ==
  \/ cells = NoFile
  \/ Unfinished(cells)
  \/ \E segs \in SegLists : IsContainer(cells, segs, 0) /\ map = MapOf(segs)

\* Every slot, and what readers are to see in it.
SlotsInv ==
  /\ obj \in [Slots -> GoodObjects] /\ DOMAIN mem = Slots /\ DOMAIN content = Slots
  /\ \A s \in Slots : HoldsAt(mem[s], content[s], Base(s))
FileInv == FileHolds(disk, saved)

\* The inductive invariant.
IInv == BuilderInv /\ SlotsInv /\ FileInv /\ writing \in BOOLEAN

\* The size in the header of a container is its number of cells.
LEMMA ContainerSize ==
  ASSUME NEW segs \in SegLists, NEW base \in Nat, NEW cells, IsContainer(cells, segs, base)
  PROVE  /\ cells # <<>> /\ Len(cells) \in Nat \ {0} /\ Len(cells) <= Room
         /\ cells[1].val.size = Len(cells)
<1>1. Len(segs) \in Nat /\ Len(AllData(segs)) \in Nat /\ 1 + 2 * Len(segs) + Len(AllData(segs)) <= Room
  BY SegListFacts, SizeFits
<1>2. Len(cells) = 1 + 2 * Len(segs) + Len(AllData(segs))
  BY DEF IsContainer
<1>3. Len(cells) \in Nat \ {0} /\ Len(cells) <= Room
  BY <1>1, <1>2
<1>4. cells # <<>>
  BY <1>3
<1>5. cells[1].val.size = Len(cells)
  BY <1>2 DEF IsContainer, HeaderCell
<1> QED
  BY <1>3, <1>4, <1>5

\* One slot changes.
LEMMA SlotChanges ==
  ASSUME SlotsInv, NEW s \in Slots, NEW o \in GoodObjects, NEW cells, NEW map, HoldsAt(cells, map, Base(s)),
         obj' = [obj EXCEPT ![s] = o], mem' = [mem EXCEPT ![s] = cells],
         content' = [content EXCEPT ![s] = map]
  PROVE  SlotsInv'
<1>1. obj' \in [Slots -> GoodObjects] /\ DOMAIN mem' = Slots /\ DOMAIN content' = Slots
  BY DEF SlotsInv
<1>2. ASSUME NEW t \in Slots PROVE HoldsAt(mem'[t], content'[t], Base(t))
  <2>1. CASE t = s
    <3>1. mem'[s] = cells /\ content'[s] = map
      BY DEF SlotsInv
    <3> QED
      BY <2>1, <3>1
  <2>2. CASE t # s
    <3>1. mem'[t] = mem[t] /\ content'[t] = content[t]
      BY <2>2 DEF SlotsInv
    <3> QED
      BY <3>1 DEF SlotsInv
  <2> QED
    BY <2>1, <2>2
<1> QED
  BY <1>1, <1>2 DEF SlotsInv

\* Free slots, new handles and buffers have no recorded offsets.
LEMMA NewObjects ==
  Free \in GoodObjects /\ NewHandle \in GoodObjects /\ Buffer \in GoodObjects
<1> DEFINE e == <<>>
           o(k) == [kind |-> k, builds |-> 0, namesAt |-> e, startsAt |-> e]
<1>1. e \in Seq(Nat)
  OBVIOUS
<1>2. ASSUME NEW k \in {"free", "handle", "copy"} PROVE o(k) \in GoodObjects
  <2> HIDE DEF e
  <2>1. o(k) \in Objects
    BY <1>1 DEF Objects
  <2>2. o(k).namesAt = e /\ o(k).startsAt = e
    OBVIOUS
  <2> QED
    BY <2>1, <2>2 DEF GoodObjects, e
<1>3. Free = o("free")
  BY DEF Free
<1>4. NewHandle = o("handle")
  <2>1. [o("free") EXCEPT !.kind = "handle"] = o("handle")
    <3> HIDE DEF e
    <3> QED
      OBVIOUS
  <2> QED
    BY <1>3, <2>1 DEF NewHandle
<1>5. Buffer = o("copy")
  <2>1. [o("free") EXCEPT !.kind = "copy"] = o("copy")
    <3> HIDE DEF e
    <3> QED
      OBVIOUS
  <2> QED
    BY <1>3, <2>1 DEF Buffer
<1> HIDE DEF o
<1> QED
  BY <1>2, <1>3, <1>4, <1>5

\* A new handle was not built into.
LEMMA NewHandleIsEmpty ==
  NewHandle.namesAt = <<>> /\ NewHandle.startsAt = <<>> /\ NewHandle.builds = 0
BY DEF NewHandle, Free

\* A container is written into a slot through a handle without recorded offsets.
LEMMA HandleSerialized ==
  ASSUME NEW segs \in SegLists, NEW s \in Slots, NEW h \in GoodObjects, h.builds = 0
  PROVE  /\ Serialized(h, segs) \in GoodObjects
         /\ HoldsAt(SerializedCells(h, segs, Base(s)), MapOf(segs), Base(s))
<1>1. h \in Objects /\ h.namesAt = <<>> /\ h.startsAt = <<>> /\ Base(s) \in Nat
  BY BaseIsNatural DEF GoodObjects
<1>2. /\ IsContainer(SerializedCells(h, segs, Base(s)), segs, Base(s))
      /\ Serialized(h, segs) \in Objects /\ Serialized(h, segs).builds > 0
  BY <1>1, SerializedIsContainer
<1>3. Serialized(h, segs).builds # 0
  <2>1. \A n \in Nat : n > 0 => n # 0
    OBVIOUS
  <2>2. Serialized(h, segs).builds \in Nat
    BY <1>2 DEF Objects
  <2> QED
    BY <1>2, <2>1, <2>2
<1> QED
  BY <1>2, <1>3 DEF GoodObjects, HoldsAt

\* The file while it is written, and when it ends early.
LEMMA BodyUnfinished ==
  ASSUME NEW segs \in SegLists, NEW ptrs, NEW body, body = Image(segs, 0, 0, 0, ptrs, ptrs)
  PROVE  Unfinished(body) /\ \A i \in 1 .. Len(segs) : Unfinished(SubSeq(body, 1, StartsAt(segs)[i]))
<1> DEFINE n == Len(segs)
           D == AllData(segs)
           d == Len(D)
<1>1. n \in Nat /\ d \in Nat /\ DataIn(segs, n, Chunks)
  BY SegListFacts, SizeFits
<1>2. HasCells(body, HeaderCell(n, 0, 0, 0), segs, n, D, ptrs, ptrs)
  BY <1>1, ImageCells DEF AllData
<1>3. Len(body) = 1 + 2 * n + d /\ body[1] = HeaderCell(n, 0, 0, 0)
  BY <1>2 DEF HasCells
<1>4. body[1].val.size = 0
  BY <1>3 DEF HeaderCell
<1>5. Unfinished(body)
  BY <1>1, <1>3, <1>4 DEF Unfinished
<1>6. ASSUME NEW i \in 1 .. n PROVE Unfinished(SubSeq(body, 1, StartsAt(segs)[i]))
  <2> DEFINE at == StartsAt(segs)[i]
             S == {body[j] : j \in 1 .. at}
             cut == SubSeq(body, 1, at)
  <2>1. at \in Nat /\ at >= 1 + 2 * n
    BY SizeFits DEF Apart
  <2>2. at \in Int /\ 1 \in Int /\ at >= 1 /\ 1 \in 1 .. at - 1 + 1 /\ 1 + 1 - 1 = 1 /\ at - 1 + 1 = at
    BY <1>1, <2>1
  <2> HIDE DEF at
  <2>3. \A j \in 1 .. at : body[j] \in S
    OBVIOUS
  <2> HIDE DEF S
  <2>4. Len(cut) = (IF 1 <= at THEN at - 1 + 1 ELSE 0) /\ \A j \in 1 .. at - 1 + 1 : cut[j] = body[1 + j - 1]
    BY <2>2, <2>3, SubSeqProperties
  <2>5. Len(cut) = at /\ cut[1] = body[1]
    BY <2>2, <2>4
  <2>6. Len(cut) \in Nat \ {0}
    BY <2>1, <2>2, <2>5
  <2> QED
    BY <1>4, <2>5, <2>6 DEF Unfinished, at
<1> QED
  BY <1>5, <1>6

-----------------------------------------------------------------------------
(* Every step preserves it.                                                *)

\* Nothing is built, allocated or written at first.
THEOREM InitIInv == Init => IInv
<1> SUFFICES ASSUME Init PROVE IInv
  OBVIOUS
<1>1. BuilderInv
  BY DEF Init, BuilderInv
<1>2. SlotsInv
  BY NewObjects DEF Init, SlotsInv, HoldsAt
<1>3. FileInv /\ writing \in BOOLEAN
  BY DEF Init, FileInv, FileHolds
<1> QED
  BY <1>1, <1>2, <1>3 DEF IInv

\* A name gets its data and its offset.
LEMMA BuilderGets ==
  ASSUME BuilderInv, NEW n \in Names, NEW data \in Given(n), NEW offset \in 0 .. Len(data),
         n # Constants => offset = 0,
         segmentBufferMap' = Put(segmentBufferMap, n, data), segmentOffsets' = Put(segmentOffsets, n, offset)
  PROVE  BuilderInv'
<1>1. /\ DOMAIN segmentBufferMap' = DOMAIN segmentBufferMap \union {n}
      /\ DOMAIN segmentOffsets' = DOMAIN segmentOffsets \union {n}
      /\ \A m \in DOMAIN segmentBufferMap' :
           segmentBufferMap'[m] = IF m = n THEN data ELSE segmentBufferMap[m]
      /\ \A m \in DOMAIN segmentOffsets' : segmentOffsets'[m] = IF m = n THEN offset ELSE segmentOffsets[m]
  BY DEF Put
<1>2. DOMAIN segmentBufferMap' = DOMAIN segmentOffsets' /\ DOMAIN segmentBufferMap' \subseteq Names
  BY <1>1 DEF BuilderInv
<1>3. ASSUME NEW m \in DOMAIN segmentBufferMap'
      PROVE  /\ segmentBufferMap'[m] \in Given(m) /\ segmentOffsets'[m] \in 0 .. Len(segmentBufferMap'[m])
             /\ m # Constants => segmentOffsets'[m] = 0
  <2>1. CASE m = n
    BY <1>1, <1>2, <2>1
  <2>2. CASE m # n
    <3>1. m \in DOMAIN segmentBufferMap /\ segmentBufferMap'[m] = segmentBufferMap[m]
          /\ segmentOffsets'[m] = segmentOffsets[m]
      BY <1>1, <1>2, <2>2
    <3> QED
      BY <3>1 DEF BuilderInv
  <2> QED
    BY <2>1, <2>2
<1> QED
  BY <1>2, <1>3 DEF BuilderInv, Given

\* A name loses its data and its offset, if it has them.
LEMMA BuilderLoses ==
  ASSUME BuilderInv, NEW n, segmentBufferMap' = Without(segmentBufferMap, n),
         segmentOffsets' = Without(segmentOffsets, n)
  PROVE  BuilderInv'
<1>1. /\ DOMAIN segmentBufferMap' = DOMAIN segmentBufferMap \ {n}
      /\ DOMAIN segmentOffsets' = DOMAIN segmentOffsets \ {n}
      /\ \A m \in DOMAIN segmentBufferMap' : segmentBufferMap'[m] = segmentBufferMap[m]
      /\ \A m \in DOMAIN segmentOffsets' : segmentOffsets'[m] = segmentOffsets[m]
  BY DEF Without, Restrict
<1> QED
  BY <1>1 DEF BuilderInv, Given

\* The builder starts anew.
LEMMA BuilderClears ==
  ASSUME segmentBufferMap' = <<>>, segmentOffsets' = <<>>
  PROVE  BuilderInv'
<1>1. DOMAIN <<>> = {}
  OBVIOUS
<1> QED
  BY <1>1 DEF BuilderInv

\* The builder and the file are left alone.
Left == segmentBufferMap' = segmentBufferMap /\ segmentOffsets' = segmentOffsets
\* Calls that do not touch the builder keep the builder's part.
LEMMA BuilderLeft == BuilderInv /\ Left => BuilderInv'
BY DEF BuilderInv, Left, Given
SlotsLeft == obj' = obj /\ mem' = mem /\ content' = content
\* Calls that do not touch memory keep the slots' part.
LEMMA SlotsAreLeft == SlotsInv /\ SlotsLeft => SlotsInv'
BY DEF SlotsInv, SlotsLeft
FileLeft == disk' = disk /\ saved' = saved
\* Calls that do not touch the file keep the file's part.
LEMMA FileIsLeft == FileInv /\ FileLeft => FileInv'
BY DEF FileInv, FileLeft

\* A segment that is added has data a caller may hand over, and its offset lies inside.
LEMMA AddSegmentStep ==
  ASSUME Replaces = FALSE, IInv, NEW n \in Names, AddSegment(n)
  PROVE  IInv'
<1>1. BuilderInv
  BY DEF IInv
<1>2. n \notin DOMAIN segmentBufferMap /\ n \notin DOMAIN segmentOffsets
  BY DEF AddSegment, Fresh
<1>3. PICK data \in Blobs(n) : \E offset \in 0 .. (IF n = Constants THEN Len(data) ELSE 0) :
        /\ segmentBufferMap' = Emplace(segmentBufferMap, n, data)
        /\ segmentOffsets' = Emplace(segmentOffsets, n, offset)
  BY DEF AddSegment
<1>4. PICK offset \in 0 .. (IF n = Constants THEN Len(data) ELSE 0) :
        /\ segmentBufferMap' = Emplace(segmentBufferMap, n, data)
        /\ segmentOffsets' = Emplace(segmentOffsets, n, offset)
  BY <1>3
<1>5. data \in Given(n) /\ data \in Seq(Chunks)
  BY DataAssumption DEF Given
<1>6. Len(data) \in Nat
  BY <1>5
<1>7. offset \in 0 .. Len(data) /\ (n # Constants => offset = 0)
  BY <1>6
<1>8. segmentBufferMap' = Put(segmentBufferMap, n, data) /\ segmentOffsets' = Put(segmentOffsets, n, offset)
  BY <1>2, <1>4 DEF Emplace
<1>9. BuilderInv'
  BY <1>1, <1>5, <1>7, <1>8, BuilderGets
<1>10. SlotsLeft /\ FileLeft /\ writing' = writing
  BY DEF AddSegment, SlotsLeft, FileLeft, told
<1> QED
  BY <1>9, <1>10, SlotsAreLeft, FileIsLeft DEF IInv

\* So does one that is added from a file.
LEMMA AddSegmentFromFileStep ==
  ASSUME Replaces = FALSE, IInv, NEW n \in Names, AddSegmentFromFile(n)
  PROVE  IInv'
<1> DEFINE data == OnDisk[n]
           offset == IF n = Constants THEN Len(data) ELSE 0
<1>1. BuilderInv
  BY DEF IInv
<1>2. n \notin DOMAIN segmentOffsets
  BY DEF AddSegmentFromFile, Fresh
<1>3. segmentBufferMap' = Put(segmentBufferMap, n, data) /\ segmentOffsets' = Put(segmentOffsets, n, offset)
  BY <1>2 DEF AddSegmentFromFile, Emplace
<1>4. data \in Given(n) /\ data \in Seq(Chunks)
  BY DataAssumption DEF Given
<1> HIDE DEF data
<1>5. Len(data) \in Nat
  BY <1>4
<1>6. offset \in 0 .. Len(data) /\ (n # Constants => offset = 0)
  BY <1>5
<1> HIDE DEF offset
<1>7. BuilderInv'
  BY <1>1, <1>3, <1>4, <1>6, BuilderGets
<1>8. SlotsLeft /\ FileLeft /\ writing' = writing
  BY DEF AddSegmentFromFile, SlotsLeft, FileLeft, told
<1> QED
  BY <1>7, <1>8, SlotsAreLeft, FileIsLeft DEF IInv

\* A call that fails leaves the builder as it was.
LEMMA AddSegmentFailsStep ==
  ASSUME Replaces = FALSE, IInv, NEW n \in Names, AddSegmentFails(n)
  PROVE  IInv'
<1>1. BuilderInv
  BY DEF IInv
<1>2. n \notin DOMAIN segmentBufferMap
  BY DEF AddSegmentFails, Fresh
<1>3. /\ DOMAIN segmentBufferMap' = DOMAIN segmentBufferMap
      /\ \A m \in DOMAIN segmentBufferMap : segmentBufferMap'[m] = segmentBufferMap[m]
      /\ segmentOffsets' = segmentOffsets
  BY <1>2 DEF AddSegmentFails, Without, Restrict
<1>4. BuilderInv'
  BY <1>1, <1>3 DEF BuilderInv, Given
<1>5. SlotsLeft /\ FileLeft /\ writing' = writing
  BY DEF AddSegmentFails, SlotsLeft, FileLeft, told
<1> QED
  BY <1>4, <1>5, SlotsAreLeft, FileIsLeft DEF IInv

\* Removing a segment removes its data and offset.
LEMMA RemoveSegmentStep ==
  ASSUME IInv, NEW n \in Names, RemoveSegment(n)
  PROVE  IInv'
<1>1. BuilderInv'
  BY BuilderLoses DEF IInv, RemoveSegment
<1>2. SlotsLeft /\ FileLeft /\ writing' = writing
  BY DEF RemoveSegment, SlotsLeft, FileLeft, told
<1> QED
  BY <1>1, <1>2, SlotsAreLeft, FileIsLeft DEF IInv

\* An empty builder is in order.
LEMMA ResetStep ==
  ASSUME IInv, Reset
  PROVE  IInv'
<1>1. BuilderInv'
  BY BuilderClears DEF Reset
<1>2. SlotsLeft /\ FileLeft /\ writing' = writing
  BY DEF Reset, SlotsLeft, FileLeft, told
<1> QED
  BY <1>1, <1>2, SlotsAreLeft, FileIsLeft DEF IInv

\* Finalize replaces the builder's container by one of its segments.
LEMMA FinalizeStep ==
  ASSUME IInv, NEW s \in Slots, Finalize(s)
  PROVE  IInv'
<1>1. BuilderSegments \in SegLists
  BY BuilderSegmentsOK DEF IInv
<1>2. /\ Serialized(NewHandle, BuilderSegments) \in GoodObjects
      /\ HoldsAt(SerializedCells(NewHandle, BuilderSegments, Base(s)), MapOf(BuilderSegments), Base(s))
  BY <1>1, HandleSerialized, NewObjects, NewHandleIsEmpty
<1>3. SlotsInv'
  <2> DEFINE o == Serialized(NewHandle, BuilderSegments)
             cells == SerializedCells(NewHandle, BuilderSegments, Base(s))
             map == MapOf(BuilderSegments)
  <2>1. obj' = [obj EXCEPT ![s] = o] /\ mem' = [mem EXCEPT ![s] = cells] /\ content' = [content EXCEPT ![s] = map]
    BY DEF Finalize
  <2>2. SlotsInv
    BY DEF IInv
  <2> HIDE DEF o, cells, map
  <2>3. o \in GoodObjects /\ HoldsAt(cells, map, Base(s))
    BY <1>2 DEF o, cells, map
  <2> QED
    BY <2>1, <2>2, <2>3, SlotChanges
<1>4. BuilderInv'
  BY BuilderClears DEF Finalize
<1>5. FileLeft /\ writing' = writing
  BY DEF Finalize, FileLeft
<1> QED
  BY <1>3, <1>4, <1>5, FileIsLeft DEF IInv

\* What is copied from another place is moved there.
LEMMA RelocatedHolds ==
  ASSUME NEW segs \in SegLists, NEW from \in Nat, NEW s \in Slots, NEW cells, IsContainer(cells, segs, from)
  PROVE  HoldsAt(Relocated(cells, Base(s)), MapOf(segs), Base(s))
<1>1. IsContainer(Relocated(cells, Base(s)), segs, Base(s))
  BY BaseIsNatural, RelocatedIsContainer
<1> QED
  BY <1>1 DEF HoldsAt

\* So does FinalizeToByteArray, in a buffer of the caller.
LEMMA FinalizeToByteArrayStep ==
  ASSUME IInv, NEW s \in Slots, FinalizeToByteArray(s)
  PROVE  IInv'
<1> DEFINE lent == SerializedCells(NewHandle, BuilderSegments, 0)
           cells == Relocated(lent, Base(s))
           map == MapOf(BuilderSegments)
<1>1. BuilderSegments \in SegLists
  BY BuilderSegmentsOK DEF IInv
<1>2. IsContainer(lent, BuilderSegments, 0)
  BY <1>1, SerializedIsContainer, NewObjects, NewHandleIsEmpty DEF GoodObjects
<1>3. HoldsAt(cells, map, Base(s))
  <2> HIDE DEF lent
  <2> QED
    BY <1>1, <1>2, RelocatedHolds
<1>4. obj' = [obj EXCEPT ![s] = Buffer] /\ mem' = [mem EXCEPT ![s] = cells] /\ content' = [content EXCEPT ![s] = map]
  BY DEF FinalizeToByteArray
<1> HIDE DEF cells, map
<1>5. SlotsInv'
  BY <1>3, <1>4, SlotChanges, NewObjects DEF IInv
<1>6. BuilderInv'
  BY BuilderClears DEF FinalizeToByteArray
<1>7. FileLeft /\ writing' = writing
  BY DEF FinalizeToByteArray, FileLeft
<1> QED
  BY <1>5, <1>6, <1>7, FileIsLeft DEF IInv

\* A new handle holds nothing.
LEMMA CreateQpcHandleStep ==
  ASSUME IInv, NEW s \in Slots, CreateQpcHandle(s)
  PROVE  IInv'
<1>1. obj' = [obj EXCEPT ![s] = NewHandle] /\ mem' = mem /\ content' = content
  BY DEF CreateQpcHandle, told
<1>2. SlotsInv'
  BY <1>1, NewObjects DEF IInv, SlotsInv
<1>3. Left /\ FileLeft /\ writing' = writing
  BY DEF CreateQpcHandle, Left, FileLeft, told, builder
<1> QED
  BY <1>2, <1>3, BuilderLeft, FileIsLeft DEF IInv

\* A slot that holds something holds a container.
LEMMA SlotHolds ==
  ASSUME SlotsInv, NEW s \in Slots, mem[s] # <<>>
  PROVE  \E segs \in SegLists : IsContainer(mem[s], segs, Base(s)) /\ content[s] = MapOf(segs)
BY DEF SlotsInv, HoldsAt

\* The first build into a handle leaves a container of the segments of its source in it.
LEMMA BuildFromQpcStep ==
  ASSUME MaxBuilds = 1, IInv, NEW from \in Slots, NEW s \in Slots, BuildFromQpc(from, s)
  PROVE  IInv'
<1>1. SlotsInv /\ mem[from] # <<>>
  BY DEF IInv, BuildFromQpc
<1>2. PICK segs \in SegLists : IsContainer(mem[from], segs, Base(from)) /\ content[from] = MapOf(segs)
  BY <1>1, SlotHolds
<1>3. SegmentsOf(from) = segs
  BY <1>2, SegmentsRead
<1>4. obj[s] \in GoodObjects /\ obj[s].builds = 0
  <2>1. obj[s] \in GoodObjects
    BY <1>1 DEF SlotsInv
  <2>2. obj[s].builds \in Nat
    BY <2>1 DEF GoodObjects, Objects
  <2>3. obj[s].builds < 1
    BY DEF BuildFromQpc
  <2>4. \A n \in Nat : n < 1 => n = 0
    OBVIOUS
  <2> QED
    BY <2>1, <2>2, <2>3, <2>4
<1> DEFINE o == Serialized(obj[s], segs)
           cells == SerializedCells(obj[s], segs, Base(s))
           map == MapOf(segs)
<1>5. o \in GoodObjects /\ HoldsAt(cells, map, Base(s))
  BY <1>4, HandleSerialized
<1>6. obj' = [obj EXCEPT ![s] = o] /\ mem' = [mem EXCEPT ![s] = cells] /\ content' = [content EXCEPT ![s] = map]
  BY <1>2, <1>3 DEF BuildFromQpc
<1> HIDE DEF o, cells, map
<1>7. SlotsInv'
  BY <1>1, <1>5, <1>6, SlotChanges
<1>8. Left /\ FileLeft /\ writing' = writing
  BY DEF BuildFromQpc, Left, FileLeft, builder
<1> QED
  BY <1>7, <1>8, BuilderLeft, FileIsLeft DEF IInv

\* A copy is a container at its own address.
LEMMA CopyQpcBufferStep ==
  ASSUME IInv, NEW from \in Slots, NEW s \in Slots, CopyQpcBuffer(from, s)
  PROVE  IInv'
<1>1. SlotsInv /\ mem[from] # <<>>
  BY DEF IInv, CopyQpcBuffer
<1>2. PICK segs \in SegLists : IsContainer(mem[from], segs, Base(from)) /\ content[from] = MapOf(segs)
  BY <1>1, SlotHolds
<1> DEFINE o == IF from = s THEN obj[s] ELSE Buffer
           cells == Relocated(mem[from], Base(s))
           map == content[from]
<1>3. o \in GoodObjects
  BY <1>1, NewObjects DEF SlotsInv
<1>4. HoldsAt(cells, map, Base(s))
  BY <1>2, BaseIsNatural, RelocatedHolds
<1>5. obj' = [obj EXCEPT ![s] = o] /\ mem' = [mem EXCEPT ![s] = cells] /\ content' = [content EXCEPT ![s] = map]
  BY DEF CopyQpcBuffer
<1> HIDE DEF o, cells, map
<1>6. SlotsInv'
  BY <1>1, <1>3, <1>4, <1>5, SlotChanges
<1>7. Left /\ FileLeft /\ writing' = writing
  BY DEF CopyQpcBuffer, Left, FileLeft, builder
<1> QED
  BY <1>6, <1>7, BuilderLeft, FileIsLeft DEF IInv

\* A destroyed handle holds nothing.
LEMMA DestroyQpcHandleStep ==
  ASSUME IInv, NEW s \in Slots, DestroyQpcHandle(s)
  PROVE  IInv'
<1>1. /\ obj' = [obj EXCEPT ![s] = Free] /\ mem' = [mem EXCEPT ![s] = <<>>]
      /\ content' = [content EXCEPT ![s] = NoSegments]
  BY DEF DestroyQpcHandle
<1>2. HoldsAt(<<>>, NoSegments, Base(s))
  BY DEF HoldsAt
<1>3. SlotsInv'
  BY <1>1, <1>2, SlotChanges, NewObjects DEF IInv
<1>4. Left /\ FileLeft /\ writing' = writing
  BY DEF DestroyQpcHandle, Left, FileLeft, builder
<1> QED
  BY <1>3, <1>4, BuilderLeft, FileIsLeft DEF IInv

\* The conversion leaves a container of the same segments, with the converted ELF file, in its handle.
LEMMA ConvertStep ==
  ASSUME IInv, NEW from \in Slots, NEW s \in Slots, ConvertNetworkElfSection(from, s)
  PROVE  IInv'
<1>1. SlotsInv /\ mem[from] # <<>> /\ Find(from, Elf) # 0
  BY DEF IInv, ConvertNetworkElfSection
<1>2. PICK segs \in SegLists : IsContainer(mem[from], segs, Base(from)) /\ content[from] = MapOf(segs)
  BY <1>1, SlotHolds
<1>3. PICK at \in 1 .. Len(segs) : segs[at].name = Elf
  BY <1>1, <1>2, FindRead
<1>4. SegmentsOf(from) = segs /\ Find(from, Elf) = at
  BY <1>2, <1>3, SegmentsRead, FindRead
<1> DEFINE list == ConvertedList(segs, at)
<1>5. HasSection(segs[at].data, "metadata")
  BY <1>4 DEF ConvertNetworkElfSection
<1>6. list \in SegLists /\ MapOf(list) = ConvertMap(content[from])
  BY <1>2, <1>3, <1>5, ConvertedListFacts, ConvertedListMeans
<1>7. /\ obj' = [obj EXCEPT ![s] = Serialized(NewHandle, list)]
      /\ mem' = [mem EXCEPT ![s] = SerializedCells(NewHandle, list, Base(s))]
      /\ content' = [content EXCEPT ![s] = ConvertMap(content[from])]
  BY <1>4 DEF ConvertNetworkElfSection, ConvertedList
<1> HIDE DEF list
<1> DEFINE o == Serialized(NewHandle, list)
           cells == SerializedCells(NewHandle, list, Base(s))
           map == MapOf(list)
<1>8. o \in GoodObjects /\ HoldsAt(cells, map, Base(s))
  BY <1>6, HandleSerialized, NewObjects, NewHandleIsEmpty
<1>9. obj' = [obj EXCEPT ![s] = o] /\ mem' = [mem EXCEPT ![s] = cells] /\ content' = [content EXCEPT ![s] = map]
  BY <1>6, <1>7
<1> HIDE DEF o, cells, map
<1>10. SlotsInv'
  BY <1>1, <1>8, <1>9, SlotChanges
<1>11. Left /\ FileLeft /\ writing' = writing
  BY DEF ConvertNetworkElfSection, Left, FileLeft, builder
<1> QED
  BY <1>10, <1>11, BuilderLeft, FileIsLeft DEF IInv

\* The first write leaves an unfinished file.
LEMMA WriteQpcBodyStep ==
  ASSUME IInv, WriteQpcBody
  PROVE  IInv'
<1> DEFINE segs == BuilderSegments
           nulls == [i \in 1 .. Len(segs) |-> 0]
           body == Image(segs, 0, 0, 0, nulls, nulls)
<1>1. segs \in SegLists
  BY BuilderSegmentsOK DEF IInv
<1>2. \/ disk' = body /\ writing' = TRUE
      \/ disk' \in CutShort(body, segs) /\ writing' = FALSE
  BY DEF WriteQpcBody
<1>3. DOMAIN segs = 1 .. Len(segs)
  BY <1>1 DEF SegLists
<1>4. Unfinished(body) /\ \A i \in 1 .. Len(segs) : Unfinished(SubSeq(body, 1, StartsAt(segs)[i]))
  <2> HIDE DEF segs, nulls
  <2> QED
    BY <1>1, BodyUnfinished
<1> HIDE DEF segs, body
<1>5. Unfinished(disk') /\ writing' \in BOOLEAN
  BY <1>2, <1>3, <1>4 DEF CutShort
<1>6. FileInv'
  BY <1>5 DEF FileInv, FileHolds, Unfinished
<1>7. Left /\ SlotsLeft
  BY DEF WriteQpcBody, Left, SlotsLeft, builder
<1> QED
  BY <1>5, <1>6, <1>7, BuilderLeft, SlotsAreLeft DEF IInv

\* The second one makes it a container at address 0.
LEMMA FixUpQpcFileStep ==
  ASSUME IInv, FixUpQpcFile
  PROVE  IInv'
<1> DEFINE segs == BuilderSegments
           cells == Image(segs, TotalSize(segs), 0, 1, NamesAt(segs), StartsAt(segs))
<1>1. segs \in SegLists
  BY BuilderSegmentsOK DEF IInv
<1>2. disk' = cells /\ saved' = MapOf(segs) /\ writing' = FALSE
  BY DEF FixUpQpcFile
<1> HIDE DEF segs
<1>3. \A i \in 1 .. Len(segs) : /\ NamesAt(segs)[i] = 0 + Len(segs) + i
                                /\ StartsAt(segs)[i] = 0 + StartsAt(segs)[i]
  <2>1. Len(segs) \in Nat /\ \A i \in 1 .. Len(segs) : StartsAt(segs)[i] \in Nat
    BY <1>1, SegListFacts, SizeFits DEF Apart
  <2>2. \A i \in 1 .. Len(segs) : NamesAt(segs)[i] = Len(segs) + i
    BY <1>1, OffsetsAreNaturals
  <2> QED
    BY <2>1, <2>2
<1>4. IsContainer(cells, segs, 0)
  <2>1. 0 \in Nat /\ 0 + 1 = 1
    OBVIOUS
  <2>2. IsContainer(Image(segs, TotalSize(segs), 0, 0 + 1, NamesAt(segs), StartsAt(segs)), segs, 0)
    BY <1>1, <1>3, <2>1, ImageIsContainer
  <2> QED
    BY <2>1, <2>2
<1> HIDE DEF cells
<1>5. FileInv'
  BY <1>1, <1>2, <1>4 DEF FileInv, FileHolds
<1>6. Left /\ SlotsLeft
  BY DEF FixUpQpcFile, Left, SlotsLeft, builder
<1> QED
  BY <1>2, <1>5, <1>6, BuilderLeft, SlotsAreLeft DEF IInv

\* A file that is loaded and moved to its buffer is a container there.
LEMMA LoadQpcFileStep ==
  ASSUME IInv, NEW s \in Slots, LoadQpcFile(s)
  PROVE  IInv'
<1>1. PICK segs \in SegLists : IsContainer(disk, segs, 0) /\ saved = MapOf(segs)
  <2>1. disk # NoFile /\ disk[1].val.size = Len(disk) /\ FileHolds(disk, saved)
    BY DEF LoadQpcFile, IInv, FileInv
  <2> QED
    BY <2>1 DEF FileHolds, Unfinished
<1> DEFINE cells == Relocated(disk, Base(s))
<1>2. HoldsAt(cells, saved, Base(s))
  BY <1>1, RelocatedHolds
<1>3. /\ obj' = [obj EXCEPT ![s] = Buffer] /\ mem' = [mem EXCEPT ![s] = cells]
      /\ content' = [content EXCEPT ![s] = saved]
  BY DEF LoadQpcFile
<1> HIDE DEF cells
<1>4. SlotsInv'
  BY <1>2, <1>3, SlotChanges, NewObjects DEF IInv
<1>5. Left /\ FileLeft /\ writing' = writing
  BY DEF LoadQpcFile, Left, FileLeft, builder
<1> QED
  BY <1>4, <1>5, BuilderLeft, FileIsLeft DEF IInv

\* What a killed writer leaves is missing, unfinished or a container.
LEMMA KillStep ==
  ASSUME IInv, Kill
  PROVE  IInv'
<1>1. BuilderInv'
  BY BuilderClears DEF Kill
<1>2. SlotsInv'
  BY NewObjects DEF Kill, SlotsInv, HoldsAt
<1>3. FileLeft /\ writing' \in BOOLEAN
  BY DEF Kill, FileLeft
<1> QED
  BY <1>1, <1>2, <1>3, FileIsLeft DEF IInv

\* The invariant is inductive for a caller that builds into a handle once and does not
\* add a segment under a name in use.
THEOREM NextIInv ==
  ASSUME Replaces = FALSE, MaxBuilds = 1, IInv, [Next]_vars
  PROVE  IInv'
<1>1. CASE UNCHANGED vars
  <2>1. Left /\ SlotsLeft /\ FileLeft /\ writing' = writing
    BY <1>1 DEF vars, told, builder, Left, SlotsLeft, FileLeft
  <2> QED
    BY <2>1, BuilderLeft, SlotsAreLeft, FileIsLeft DEF IInv
<1>2. ASSUME NEW n \in Names, \/ AddSegment(n) \/ AddSegmentFromFile(n) \/ AddSegmentFails(n)
                              \/ RemoveSegment(n)
      PROVE  IInv'
  BY <1>2, AddSegmentStep, AddSegmentFromFileStep, AddSegmentFailsStep, RemoveSegmentStep
<1>3. CASE Reset \/ Kill \/ WriteQpcBody \/ FixUpQpcFile
  BY <1>3, ResetStep, KillStep, WriteQpcBodyStep, FixUpQpcFileStep
<1>4. ASSUME NEW s \in Slots, \/ Finalize(s) \/ FinalizeToByteArray(s) \/ CreateQpcHandle(s)
                              \/ DestroyQpcHandle(s) \/ LoadQpcFile(s)
      PROVE  IInv'
  BY <1>4, FinalizeStep, FinalizeToByteArrayStep, CreateQpcHandleStep, DestroyQpcHandleStep,
     LoadQpcFileStep
<1>5. ASSUME NEW from \in Slots, NEW s \in Slots,
             BuildFromQpc(from, s) \/ CopyQpcBuffer(from, s) \/ ConvertNetworkElfSection(from, s)
      PROVE  IInv'
  BY <1>5, BuildFromQpcStep, CopyQpcBufferStep, ConvertStep
<1> QED
  BY <1>1, <1>2, <1>3, <1>4, <1>5 DEF Next

-----------------------------------------------------------------------------
(* What follows for readers.                                               *)

\* A slot that holds nothing reads as a container without segments.
LEMMA NothingRead ==
  ASSUME NEW s \in Slots, mem[s] = <<>>
  PROVE  NumImages(s) = 0 /\ \A n : Find(s, n) = 0
<1>1. NumImages(s) = 0
  BY DEF NumImages
<1>2. 1 .. 0 = {}
  OBVIOUS
<1> QED
  BY <1>1, <1>2 DEF Find

\* The state is typed.
LEMMA TypeOKHolds == IInv => TypeOK
<1> SUFFICES ASSUME IInv PROVE TypeOK
  OBVIOUS
<1>1. DOMAIN segmentBufferMap \subseteq Names /\ DOMAIN segmentOffsets \subseteq Names /\ writing \in BOOLEAN
  BY DEF IInv, BuilderInv
<1>2. ASSUME NEW s \in Slots
      PROVE  /\ obj[s].kind \in {"free", "handle", "copy"} /\ Len(mem[s]) <= Room
             /\ mem[s] # <<>> => mem[s][1].val.size = Len(mem[s])
  <2>1. obj[s].kind \in {"free", "handle", "copy"}
    <3>1. obj[s] \in GoodObjects
      BY DEF IInv, SlotsInv
    <3> QED
      BY <3>1 DEF GoodObjects, Objects
  <2>2. CASE mem[s] = <<>>
    <3>1. Len(<<>>) = 0 /\ 0 <= Room
      BY SlotsAssumption
    <3> QED
      BY <2>1, <2>2, <3>1
  <2>3. CASE mem[s] # <<>>
    <3>1. PICK segs \in SegLists : IsContainer(mem[s], segs, Base(s))
      BY <2>3, SlotHolds DEF IInv
    <3>2. Len(mem[s]) <= Room /\ mem[s][1].val.size = Len(mem[s])
      BY <3>1, BaseIsNatural, ContainerSize
    <3> QED
      BY <2>1, <3>2
  <2> QED
    BY <2>2, <2>3
<1> QED
  BY <1>1, <1>2 DEF TypeOK

\* No constant part is larger than its segment.
LEMMA StaticPartFitsHolds == IInv => StaticPartFits
<1> SUFFICES ASSUME IInv, NEW s \in Slots, NEW i \in 1 .. NumImages(s)
             PROVE  Entry(s, i).val.offset <= Entry(s, i).val.size
  BY DEF StaticPartFits
<1>1. mem[s] # <<>>
  BY NothingRead
<1>2. PICK segs \in SegLists : IsContainer(mem[s], segs, Base(s))
  BY <1>1, SlotHolds DEF IInv
<1>3. i \in 1 .. Len(segs)
  BY <1>2, EntriesRead
<1>4. Entry(s, i).val.offset = segs[i].offset /\ Entry(s, i).val.size = Len(segs[i].data)
  BY <1>2, <1>3, EntriesRead DEF EntryCell
<1>5. SegmentOK(segs[i])
  BY <1>3, SegListFacts
<1> QED
  BY <1>4, <1>5 DEF SegmentOK

\* Every container that was converted has its conversion where readers look for it.
LEMMA ConvertedSectionsReadHolds == IInv => ConvertedSectionsRead
<1> SUFFICES ASSUME IInv, NEW s \in Slots, Find(s, Elf) # 0,
                    HasSection(SegmentsOf(s)[Find(s, Elf)].data, "metadata_fb")
             PROVE  SectionData(s, "metadata_fb") = Converted(SectionData(s, "metadata"))
  BY DEF ConvertedSectionsRead
<1>1. mem[s] # <<>>
  BY NothingRead
<1>2. PICK segs \in SegLists : IsContainer(mem[s], segs, Base(s))
  BY <1>1, SlotHolds DEF IInv
<1>3. PICK at \in 1 .. Len(segs) : segs[at].name = Elf
  BY <1>2, FindRead
<1>4. SegmentsOf(s) = segs /\ Find(s, Elf) = at
  BY <1>2, <1>3, SegmentsRead, FindRead
<1> DEFINE sections == segs[at].data
           k == IndexOf(sections, "metadata_fb")
           src == IndexOf(sections, "metadata")
<1>5. WellFormedElf(sections)
  BY <1>3, SegListFacts DEF SegmentOK, DataOK
<1>6. SectionData(s, "metadata_fb") = sections[k].text /\ SectionData(s, "metadata") = sections[src].text
  BY <1>4 DEF SectionData
<1>7. HasSection(sections, "metadata_fb")
  BY <1>4
<1> HIDE DEF sections
<1>8. k \in DOMAIN sections /\ sections[k].section = "metadata_fb"
  BY <1>7, SectionAt
<1>9. PICK j \in DOMAIN sections : sections[j].section = "metadata" /\ sections[k].text = Converted(sections[j].text)
  BY <1>5, <1>8 DEF WellFormedElf
<1>10. src = j
  BY <1>5, <1>9, OnlySection DEF WellFormedElf
<1> QED
  BY <1>6, <1>9, <1>10

\* Readers find the segments that were put in, and nothing else.
LEMMA ReadersSeeTheSegmentsHolds == IInv => ReadersSeeTheSegments
<1> SUFFICES ASSUME IInv PROVE ReadersSeeTheSegments
  OBVIOUS
<1>1. ASSUME NEW s \in Slots, mem[s] # <<>> PROVE Served(s) = content[s]
  <2>1. PICK segs \in SegLists : IsContainer(mem[s], segs, Base(s)) /\ content[s] = MapOf(segs)
    BY <1>1, SlotHolds DEF IInv
  <2> QED
    BY <2>1, ServedRead
<1>2. ASSUME disk # NoFile, disk[1].val.size = Len(disk) PROVE ServedFromDisk = saved
  <2>1. PICK segs \in SegLists : IsContainer(disk, segs, 0) /\ saved = MapOf(segs)
    BY <1>2 DEF IInv, FileInv, FileHolds, Unfinished
  <2> QED
    BY <2>1, ServedFromDiskRead
<1> QED
  BY <1>1, <1>2 DEF ReadersSeeTheSegments

-----------------------------------------------------------------------------
(* The theorems.                                                           *)

\* The callers that the theorems are about build into a handle once and add no segment
\* under a name in use.
OrderlyCaller == Replaces = FALSE /\ MaxBuilds = 1

\* The inductive invariant holds in every history of an orderly caller.
THEOREM InvariantHolds == ASSUME OrderlyCaller PROVE Spec => []IInv
<1>1. Init => IInv
  BY InitIInv
<1>2. IInv /\ [Next]_vars => IInv'
  BY NextIInv DEF OrderlyCaller
<1> QED
  BY <1>1, <1>2, PTL DEF Spec

\* The header of a container gives the size of its buffer, which fits into its slot
\* (QAicQpc.c, qpcSegmentsToBuffer).
THEOREM TypesHold == ASSUME OrderlyCaller PROVE Spec => []TypeOK
BY InvariantHolds, TypeOKHolds, PTL

\* QPCBuilder::hasSegment never finds data without an offset, or an offset without data.
THEOREM BuilderMapsAgree == ASSUME OrderlyCaller PROVE Spec => []MapsAgree
<1>1. IInv => MapsAgree
  BY DEF IInv, BuilderInv, MapsAgree
<1> QED
  BY <1>1, InvariantHolds, PTL

\* getQPCSegment never subtracts an offset from a smaller size, in any container.
THEOREM SizesDoNotUnderflow == ASSUME OrderlyCaller PROVE Spec => []StaticPartFits
BY InvariantHolds, StaticPartFitsHolds, PTL

\* A converted metadata section stays the conversion of the metadata beside it.
THEOREM ConversionsRead == ASSUME OrderlyCaller PROVE Spec => []ConvertedSectionsRead
BY InvariantHolds, ConvertedSectionsReadHolds, PTL

\* Whatever was done to a container, in memory or on disk, a reader sees the segments
\* that were put into it, and nobody reads a file that is not finished.
THEOREM ReadersServed == ASSUME OrderlyCaller PROVE Spec => []ReadersSeeTheSegments
BY InvariantHolds, ReadersSeeTheSegmentsHolds, PTL

-----------------------------------------------------------------------------
(* The metadata.                                                           *)

\* What the writer keeps true between calls: a feature in use is a required field.
FieldsFollow ==
  /\ dmaRequests \in Seq(Requests)
  /\ constants /= "CACHE_DISABLED" => ConstantsField \in requiredFields
  /\ heap /= "freeNetworkHeap" => HeapField \in requiredFields
  /\ dynamicDDRStatus \in {"Disabled", "Enabled"}
  /\ dynamicDDRStatus = "Enabled" => DynamicField \in requiredFields
  /\ \A i \in 1 .. Len(dmaRequests) : Uses(dmaRequests[i]) => dynamicDDRStatus = "Enabled"
  /\ execContext /= NoContext => ContextField \in requiredFields

\* An image, if it is complete, requires all the network needs.
Sealed(image) == image.is = "flat" => Needs(image) \subseteq image.requiredFields

\* Whoever accepted what the reader holds knows all it requires.
VerdictFits ==
  verdict.result = "accepted" =>
    held.is = "flat" /\ held.requiredFields \subseteq verdict.platform.fields

\* The inductive invariant of the metadata.
MetadataInv == FieldsFollow /\ Sealed(metadataBuffer) /\ Sealed(file) /\ Sealed(held) /\ VerdictFits

-----------------------------------------------------------------------------

\* A new writer has no features, and nothing has been read.
LEMMA MetadataInitInv == MetadataInit => MetadataInv
  BY DEF MetadataInit, MetadataInv, FieldsFollow, Sealed, VerdictFits, NoImage, NoVerdict

\* Calls that set no feature, and finalizing the structure.
LEMMA OtherCallsKeep ==
  MetadataInv /\ UNCHANGED <<dmaRequests, features, metadataBuffer, reader>> => MetadataInv'
  BY DEF MetadataInv, FieldsFollow, Sealed, Needs, VerdictFits, features, reader, Uses

\* Calls that describe the network set no feature, but for requests.
LEMMA DescribeNetworkKeeps == MetadataInv /\ DescribeNetwork => MetadataInv'
<1> SUFFICES ASSUME MetadataInv, DescribeNetwork PROVE MetadataInv'
  OBVIOUS
<1>1. CASE \E r \in Requests : AddDMARequest(r)
  <2>1. PICK r \in Requests : AddDMARequest(r)
    BY <1>1
  <2>2. UNCHANGED <<constants, heap, execContext, reader, metadataBuffer>>
        /\ dmaRequests' = Append(dmaRequests, r)
    BY <2>1 DEF AddDMARequest, Call, finals
  <2>3. Sealed(metadataBuffer)' /\ Sealed(file)' /\ Sealed(held)' /\ VerdictFits'
    BY <2>2 DEF MetadataInv, Sealed, Needs, VerdictFits, reader, Uses
  <2>4. /\ dmaRequests' \in Seq(Requests)
        /\ \A i \in 1 .. Len(dmaRequests') :
             (i \in 1 .. Len(dmaRequests) /\ dmaRequests'[i] = dmaRequests[i]) \/ dmaRequests'[i] = r
    BY <2>2 DEF MetadataInv, FieldsFollow
  <2>5. CASE EnabledBy(r)
    <3>1. dynamicDDRStatus' = "Enabled" /\ requiredFields' = requiredFields \union {DynamicField}
      BY <2>1, <2>5 DEF AddDMARequest, WithField
    <3> QED
      BY <3>1, <2>2, <2>3, <2>4 DEF MetadataInv, FieldsFollow
  <2>6. CASE ~EnabledBy(r)
    <3>1. UNCHANGED <<dynamicDDRStatus, requiredFields>>
      BY <2>1, <2>6 DEF AddDMARequest
    <3>2. Uses(r) => dynamicDDRStatus = "Enabled"
      BY <2>6 DEF EnabledBy, MetadataInv, FieldsFollow
    <3>3. ASSUME NEW i \in 1 .. Len(dmaRequests'), Uses(dmaRequests'[i])
          PROVE  dynamicDDRStatus' = "Enabled"
      <4>1. CASE dmaRequests'[i] = r
        BY <4>1, <3>1, <3>2, <3>3 DEF Uses
      <4>2. CASE i \in 1 .. Len(dmaRequests) /\ dmaRequests'[i] = dmaRequests[i]
        BY <4>2, <3>1, <3>3 DEF MetadataInv, FieldsFollow, Uses
      <4> QED
        BY <4>1, <4>2, <2>4
    <3> QED
      BY <3>1, <3>3, <2>2, <2>3, <2>4 DEF MetadataInv, FieldsFollow, Uses
  <2> QED
    BY <2>5, <2>6
<1>2. CASE ~\E r \in Requests : AddDMARequest(r)
  <2>1. UNCHANGED <<dmaRequests, features, metadataBuffer, reader>>
    BY <1>2 DEF DescribeNetwork, SetNumNSPs, SetSizes, SetNetworkName, SetNumSemaphores, InitSemaphore,
       InitL2TCMResize, InitL2TCM, AddNSPMulticastEntry, AddHostMulticastEntry, AddThreadDescriptor,
       AddConstantMapping, Both, Call, finals
  <2> QED
    BY <2>1, OtherCallsKeep
<1> QED
  BY <1>1, <1>2

\* The features that only the flat form has come with their required field.
LEMMA DescribeFeaturesKeeps == MetadataInv /\ DescribeFeatures => MetadataInv'
<1> SUFFICES ASSUME MetadataInv, DescribeFeatures PROVE MetadataInv'
  OBVIOUS
<1>1. UNCHANGED <<dmaRequests, dynamicDDRStatus, metadataBuffer, reader>>
  BY DEF DescribeFeatures, SetCacheableConstants, SetNetworkHeapBehavior, AddRequiredField, AddPort,
     SetExecContext, FlatOnly, Call, finals
<1>2. Sealed(metadataBuffer)' /\ Sealed(file)' /\ Sealed(held)' /\ VerdictFits'
  BY <1>1 DEF MetadataInv, Sealed, Needs, VerdictFits, reader, Uses
<1>3. requiredFields \subseteq requiredFields'
  BY DEF DescribeFeatures, SetCacheableConstants, SetNetworkHeapBehavior, AddRequiredField, AddPort,
     SetExecContext, WithField
<1>4. constants' /= "CACHE_DISABLED" => ConstantsField \in requiredFields'
  BY <1>3 DEF MetadataInv, FieldsFollow, DescribeFeatures, SetCacheableConstants, SetNetworkHeapBehavior,
     AddRequiredField, AddPort, SetExecContext, WithField
<1>5. heap' /= "freeNetworkHeap" => HeapField \in requiredFields'
  BY <1>3 DEF MetadataInv, FieldsFollow, DescribeFeatures, SetCacheableConstants, SetNetworkHeapBehavior,
     AddRequiredField, AddPort, SetExecContext, WithField
<1>6. execContext' /= NoContext => ContextField \in requiredFields'
  BY <1>3 DEF MetadataInv, FieldsFollow, DescribeFeatures, SetCacheableConstants, SetNetworkHeapBehavior,
     AddRequiredField, AddPort, SetExecContext, WithField
<1>7. /\ dmaRequests' \in Seq(Requests) /\ dynamicDDRStatus' \in {"Disabled", "Enabled"}
      /\ dynamicDDRStatus' = "Enabled" => DynamicField \in requiredFields'
      /\ \A i \in 1 .. Len(dmaRequests') : Uses(dmaRequests'[i]) => dynamicDDRStatus' = "Enabled"
  BY <1>1, <1>3 DEF MetadataInv, FieldsFollow, Uses
<1> QED
  BY <1>2, <1>4, <1>5, <1>6, <1>7 DEF MetadataInv, FieldsFollow, Uses

\* finalize packs an image that requires all it needs.
LEMMA FinalizeFlatKeeps == MetadataInv /\ FinalizeFlat => MetadataInv'
<1> SUFFICES ASSUME MetadataInv, FinalizeFlat PROVE MetadataInv'
  OBVIOUS
<1>1. UNCHANGED <<dmaRequests, constants, heap, dynamicDDRStatus, reader>>
      /\ requiredFields' = FinalFields
  BY DEF FinalizeFlat
<1>2. requiredFields \subseteq FinalFields /\ ContextField \in FinalFields
  BY DEF FinalFields, WithField, MetadataInv, FieldsFollow
<1>3. FieldsFollow'
  BY <1>1, <1>2 DEF MetadataInv, FieldsFollow, Uses
<1>4. /\ metadataBuffer'.constants = constants /\ metadataBuffer'.heap = heap
      /\ metadataBuffer'.dmaRequests = dmaRequests /\ metadataBuffer'.requiredFields = FinalFields
  BY DEF FinalizeFlat
<1>5. Needs(metadataBuffer') \subseteq FinalFields
  BY <1>2, <1>4 DEF Needs, MetadataInv, FieldsFollow
<1>6. Sealed(metadataBuffer')
  BY <1>4, <1>5 DEF Sealed
<1>7. Sealed(file)' /\ Sealed(held)' /\ VerdictFits'
  BY <1>1 DEF MetadataInv, Sealed, Needs, VerdictFits, reader, Uses
<1> QED
  BY <1>3, <1>6, <1>7 DEF MetadataInv, Sealed, Needs, Uses

\* What is written, whole or in part, requires all it needs.
LEMMA WriteMetadataKeeps == MetadataInv /\ WriteMetadata => MetadataInv'
<1> SUFFICES ASSUME MetadataInv, WriteMetadata PROVE MetadataInv'
  OBVIOUS
<1>1. UNCHANGED <<flat, metadataBuffer, held, verdict>>
  BY DEF WriteMetadata, finals
<1>2. Sealed(file')
  BY DEF WriteMetadata, MetadataInv, Sealed
<1> QED
  BY <1>1, <1>2 DEF MetadataInv, FieldsFollow, Sealed, Needs, VerdictFits, flat, features, Uses

\* A reader's copy is the file, and what became of an earlier one is forgotten.
LEMMA LoadFileKeeps == MetadataInv /\ LoadFile => MetadataInv'
<1> SUFFICES ASSUME MetadataInv, LoadFile PROVE MetadataInv'
  OBVIOUS
<1>1. UNCHANGED <<flat, metadataBuffer, file>> /\ held' = file /\ verdict' = NoVerdict
  BY DEF LoadFile, finals
<1>2. VerdictFits'
  BY <1>1 DEF VerdictFits, NoVerdict
<1> QED
  BY <1>1, <1>2 DEF MetadataInv, FieldsFollow, Sealed, Needs, flat, features, Uses

\* Taking the terminator off leaves what the metadata requires and needs.
LEMMA StrippedKeeps ==
  ASSUME NEW image, Sealed(image)
  PROVE  Sealed(Stripped(image)) /\ (image.is = "flat" => Stripped(image).is = "flat"
           /\ Stripped(image).requiredFields = image.requiredFields)
<1>1. CASE image.is = "flat"
  <2>1. /\ Stripped(image).is = image.is /\ Stripped(image).requiredFields = image.requiredFields
        /\ Stripped(image).constants = image.constants /\ Stripped(image).heap = image.heap
        /\ Stripped(image).dmaRequests = image.dmaRequests
    BY <1>1 DEF Stripped
  <2> QED
    BY <2>1, <1>1 DEF Sealed, Needs, Uses
<1>2. CASE image.is /= "flat"
  BY <1>2 DEF Stripped
<1> QED
  BY <1>1, <1>2

\* A platform accepts only what it knows all the required fields of.
LEMMA ReadMetadataFlatKeeps == \A p \in Platforms : MetadataInv /\ ReadMetadataFlat(p) => MetadataInv'
<1> SUFFICES ASSUME NEW p \in Platforms, MetadataInv, ReadMetadataFlat(p) PROVE MetadataInv'
  OBVIOUS
<1>1. UNCHANGED <<flat, metadataBuffer, file>> /\ held' = Stripped(held)
  BY DEF ReadMetadataFlat, finals
<1>2. Sealed(held')
  BY <1>1, StrippedKeeps DEF MetadataInv
<1>3. ASSUME verdict'.result = "accepted"
      PROVE  held.is = "flat" /\ Compatible(held, p) /\ verdict'.platform = p
  <2>1. CASE held.is /= "flat"
    <3>1. verdict' = [result |-> "failed to verify", platform |-> p]
      BY <2>1 DEF ReadMetadataFlat
    <3> QED
      BY <3>1, <1>3
  <2>2. CASE held.is = "flat" /\ ~Compatible(held, p)
    <3>1. verdict' = [result |-> "incompatible", platform |-> p]
      BY <2>2 DEF ReadMetadataFlat
    <3> QED
      BY <3>1, <1>3
  <2>3. CASE held.is = "flat" /\ Compatible(held, p)
    <3>1. \E c : verdict' = [result |-> "accepted", platform |-> p, context |-> c]
      BY <2>3 DEF ReadMetadataFlat
    <3> QED
      BY <3>1, <2>3
  <2> QED
    BY <2>1, <2>2, <2>3
<1>4. VerdictFits'
  BY <1>1, <1>3, StrippedKeeps DEF VerdictFits, Compatible, MetadataInv
<1> QED
  BY <1>1, <1>2, <1>4 DEF MetadataInv, FieldsFollow, Sealed, Needs, flat, features, Uses

-----------------------------------------------------------------------------

\* A platform that accepts metadata knows every feature the network makes use of, in every history
\* of calls, finalizations, cut files and readers (metadataFlatbufferWriter.h:232,
\* metadataflatbufDecode.hpp:134).
THEOREM PlatformsUnderstandAlways == MetadataSpec => []PlatformsUnderstand
<1>1. MetadataInv /\ [MetadataNext]_metadataVars => MetadataInv'
  <2> SUFFICES ASSUME MetadataInv, [MetadataNext]_metadataVars PROVE MetadataInv'
    OBVIOUS
  <2>1. CASE DescribeNetwork
    BY <2>1, DescribeNetworkKeeps
  <2>2. CASE DescribeFeatures
    BY <2>2, DescribeFeaturesKeeps
  <2>3. CASE FinalizeRawMetadata
    BY <2>3, OtherCallsKeep DEF FinalizeRawMetadata, flat
  <2>4. CASE FinalizeFlat
    BY <2>4, FinalizeFlatKeeps
  <2>5. CASE WriteMetadata
    BY <2>5, WriteMetadataKeeps
  <2>6. CASE LoadFile
    BY <2>6, LoadFileKeeps
  <2>7. CASE \E p \in Platforms : ReadMetadataFlat(p)
    BY <2>7, ReadMetadataFlatKeeps
  <2>8. CASE UNCHANGED metadataVars
    BY <2>8, OtherCallsKeep DEF metadataVars, flat, finals
  <2> QED
    BY <2>1, <2>2, <2>3, <2>4, <2>5, <2>6, <2>7, <2>8 DEF MetadataNext
<1>2. MetadataInv => PlatformsUnderstand
  BY DEF MetadataInv, VerdictFits, Sealed, PlatformsUnderstand
<1> QED
  BY MetadataInitInv, <1>1, <1>2, PTL DEF MetadataSpec

-----------------------------------------------------------------------------
(* The regions of the initial L2TCM image (CompressL2TCMInitState.h).        *)

\* f is defined by recursion over 0 .. n.
DefinedFromZero(f, n, a, step) == f[0] = a /\ \A i \in 1 .. n : f[i] = step[<<f[i - 1], i>>]

\* Such a function exists.
LEMMA RecursionFromZero ==
  ASSUME NEW n \in Nat, NEW V, NEW a \in V, NEW step \in [V \X Nat -> V]
  PROVE  \E f \in [0 .. n -> V] : DefinedFromZero(f, n, a, step)
<1> DEFINE shifted == [x \in V \X Nat |-> IF x[2] = 0 THEN a ELSE step[<<x[1], x[2] - 1>>]]
<1>1. \A v \in V : \A i \in Nat : i # 0 => shifted[<<v, i>>] = step[<<v, i - 1>>]
  OBVIOUS
<1>2. shifted \in [V \X Nat -> V]
  <2>1. ASSUME NEW x \in V \X Nat PROVE (IF x[2] = 0 THEN a ELSE step[<<x[1], x[2] - 1>>]) \in V
    <3>1. x[1] \in V /\ x[2] \in Nat /\ (x[2] # 0 => <<x[1], x[2] - 1>> \in V \X Nat)
      OBVIOUS
    <3> QED
      BY <3>1
  <2> QED
    BY <2>1
<1> HIDE DEF shifted
<1>3. n + 1 \in Nat /\ n + 1 > 0
  OBVIOUS
<1>4. PICK g \in [1 .. n + 1 -> V] : DefinedBy(g, n + 1, a, shifted)
  BY <1>2, <1>3, Recursion
<1> DEFINE f == [i \in 0 .. n |-> g[i + 1]]
<1>5. f \in [0 .. n -> V] /\ f[0] = a
  <2>1. \A i \in 0 .. n : i + 1 \in 1 .. n + 1
    OBVIOUS
  <2>2. g[0 + 1] = a
    BY <1>4 DEF DefinedBy
  <2> QED
    BY <2>1, <2>2
<1>6. ASSUME NEW i \in 1 .. n PROVE f[i] = step[<<f[i - 1], i>>]
  <2>1. i \in 0 .. n /\ i - 1 \in 0 .. n /\ i + 1 \in 2 .. n + 1 /\ i - 1 + 1 = i /\ i + 1 - 1 = i
    OBVIOUS
  <2>2. g[i + 1] = shifted[<<g[i], i + 1>>]
    BY <1>4, <2>1 DEF DefinedBy
  <2>3. f[i] = g[i + 1] /\ f[i - 1] = g[i]
    BY <2>1
  <2>4. g[i] \in V /\ i + 1 \in Nat /\ i + 1 # 0
    BY <2>1
  <2> QED
    BY <1>1, <2>1, <2>2, <2>3, <2>4
<1> HIDE DEF f
<1> QED
  BY <1>5, <1>6 DEF DefinedFromZero

\* Induction over 0 .. n.
LEMMA FromZero ==
  ASSUME NEW n \in Nat, NEW S, 0 \in S, \A i \in 1 .. n : i - 1 \in S => i \in S
  PROVE  0 .. n \subseteq S
<1> DEFINE T == {k \in Nat : k <= n => k \in S}
<1>1. 0 \in T
  OBVIOUS
<1>2. ASSUME NEW k \in Nat, k \in T PROVE k + 1 \in T
  <2> SUFFICES ASSUME k + 1 <= n PROVE k + 1 \in S
    OBVIOUS
  <2>1. k \in S /\ k + 1 \in 1 .. n /\ k + 1 - 1 = k
    BY <1>2
  <2> QED
    BY <2>1
<1> HIDE DEF T
<1>3. Nat \subseteq T
  BY <1>1, <1>2, SetInduction
<1> QED
  BY <1>3 DEF T

-----------------------------------------------------------------------------
(* The zero regions of an image.                                           *)

Regions == [start : Nat, end : Nat, size : Int]
AllZero(data, s, e) == \A j \in s + 1 .. e : data[j] = 0

\* Zero regions of the image up to b: in order, long enough, full of zeroes, and no
\* run that is long enough is missing.
InOrder(zero) ==
  \A j, k \in 1 .. Len(zero) : j < k => zero[j].end <= zero[k].start
FoundUpTo(zero, data, b) ==
  /\ zero \in Seq(Regions) /\ InOrder(zero)
  /\ \A k \in 1 .. Len(zero) : /\ LongEnough(zero[k].start, zero[k].end) /\ zero[k].end <= b
                               /\ AllZero(data, zero[k].start, zero[k].end)
  /\ \A s, e \in 0 .. b : LongEnough(s, e) /\ AllZero(data, s, e) =>
       \E k \in 1 .. Len(zero) : zero[k].start <= s /\ e <= zero[k].end

\* A region from one position to a later one.
LEMMA RegionOf ==
  ASSUME NEW s \in Nat, NEW e \in Nat
  PROVE  Region(s, e) \in Regions /\ Region(s, e).start = s /\ Region(s, e).end = e
         /\ Region(s, e).size = e - s
BY DEF Region, Regions

\* Positions are natural numbers.
LEMMA RegionsHavePositions ==
  ASSUME NEW zero \in Seq(Regions), NEW k \in 1 .. Len(zero)
  PROVE  zero[k].start \in Nat /\ zero[k].end \in Nat
<1>1. zero[k] \in Regions
  OBVIOUS
<1> QED
  BY <1>1 DEF Regions

\* A position that is not zero ends what has been found.
LEMMA NonZeroEnds ==
  ASSUME NEW data, NEW zero, NEW b \in Nat, FoundUpTo(zero, data, b), data[b + 1] # 0
  PROVE  FoundUpTo(zero, data, b + 1)
<1>1. ASSUME NEW k \in 1 .. Len(zero) PROVE zero[k].end <= b + 1
  <2>1. zero[k].end \in Nat /\ zero[k].end <= b
    BY RegionsHavePositions DEF FoundUpTo
  <2> QED
    BY <2>1
<1>2. ASSUME NEW s \in 0 .. b + 1, NEW e \in 0 .. b + 1, LongEnough(s, e), AllZero(data, s, e)
      PROVE  \E k \in 1 .. Len(zero) : zero[k].start <= s /\ e <= zero[k].end
  <2>1. s < e
    BY <1>2, RegionAssumption DEF LongEnough
  <2>2. e # b + 1
    BY <1>2, <2>1 DEF AllZero
  <2>3. s \in 0 .. b /\ e \in 0 .. b
    BY <2>1, <2>2
  <2> QED
    BY <1>2, <2>3 DEF FoundUpTo
<1> QED
  BY <1>1, <1>2 DEF FoundUpTo

\* A run of zeroes is added when it ends, if it is long enough.
LEMMA RunCloses ==
  ASSUME NEW data, NEW st, NEW e \in Nat, NEW b \in Nat, b = st.start, b <= e,
         FoundUpTo(st.found, data, b), AllZero(data, b, e), b > 0 => data[b] # 0
  PROVE  FoundUpTo(Closed(st, e), data, e)
<1> DEFINE zero == st.found
           new == Closed(st, e)
           r == Region(b, e)
<1>1. /\ zero \in Seq(Regions) /\ InOrder(zero)
      /\ \A k \in 1 .. Len(zero) : /\ zero[k].start \in Nat /\ zero[k].end \in Nat /\ zero[k].end <= b
                                   /\ LongEnough(zero[k].start, zero[k].end)
                                   /\ AllZero(data, zero[k].start, zero[k].end)
  BY RegionsHavePositions DEF FoundUpTo
<1>2. \A k \in 1 .. Len(zero) : zero[k].end <= e
  BY <1>1
<1>3. ASSUME NEW s \in 0 .. e, NEW f \in 0 .. e, LongEnough(s, f), AllZero(data, s, f)
      PROVE  \/ b <= s /\ f <= e /\ LongEnough(b, e)
             \/ \E k \in 1 .. Len(zero) : zero[k].start <= s /\ f <= zero[k].end
  <2>1. s < f
    BY <1>3, RegionAssumption DEF LongEnough
  <2>2. CASE f <= b
    <3>1. s \in 0 .. b /\ f \in 0 .. b
      BY <2>1, <2>2
    <3> QED
      BY <1>3, <3>1 DEF FoundUpTo
  <2>3. CASE f > b
    <3>1. b <= s
      <4>1. SUFFICES ASSUME s < b PROVE FALSE
        OBVIOUS
      <4>2. b \in s + 1 .. f /\ b > 0
        BY <2>3, <4>1
      <4> QED
        BY <1>3, <4>2 DEF AllZero
    <3>2. LongEnough(b, e)
      BY <1>3, <3>1, RegionAssumption DEF LongEnough
    <3> QED
      BY <3>1, <3>2
  <2> QED
    BY <2>2, <2>3
<1>4. CASE ~LongEnough(b, e)
  <2>1. new = zero
    BY <1>4 DEF Closed
  <2> HIDE DEF new, zero
  <2> QED
    BY <1>1, <1>2, <1>3, <1>4, <2>1 DEF FoundUpTo, new
<1>5. CASE LongEnough(b, e)
  <2> DEFINE n == Len(zero)
  <2>1. new = Append(zero, r)
    BY <1>5 DEF Closed
  <2>2. r \in Regions /\ r.start = b /\ r.end = e
    BY RegionOf
  <2> HIDE DEF new, zero, r
  <2>3. n \in Nat
    BY <1>1
  <2>4. new \in Seq(Regions) /\ Len(new) = n + 1 /\ new[n + 1] = r /\ \A k \in 1 .. n : new[k] = zero[k]
    BY <1>1, <2>1, <2>2
  <2> HIDE DEF n
  <2>5. \A k \in 1 .. n + 1 : k = n + 1 \/ k \in 1 .. n
    BY <2>3
  <2>6. InOrder(new)
    <3> SUFFICES ASSUME NEW j \in 1 .. n + 1, NEW k \in 1 .. n + 1, j < k PROVE new[j].end <= new[k].start
      BY <2>4 DEF InOrder
    <3>1. j \in 1 .. n
      BY <2>3
    <3>2. CASE k = n + 1
      BY <1>1, <2>2, <2>4, <3>1, <3>2 DEF n
    <3>3. CASE k \in 1 .. n
      BY <1>1, <2>4, <3>1, <3>3 DEF InOrder, n
    <3> QED
      BY <2>5, <3>2, <3>3
  <2>7. \A k \in 1 .. n + 1 : /\ LongEnough(new[k].start, new[k].end) /\ new[k].end <= e
                              /\ AllZero(data, new[k].start, new[k].end)
    <3> TAKE k \in 1 .. n + 1
    <3>1. CASE k = n + 1
      BY <1>5, <2>2, <2>4, <3>1
    <3>2. CASE k \in 1 .. n
      BY <1>1, <1>2, <2>4, <3>2 DEF n
    <3> QED
      BY <2>5, <3>1, <3>2
  <2>8. ASSUME NEW s \in 0 .. e, NEW f \in 0 .. e, LongEnough(s, f), AllZero(data, s, f)
        PROVE  \E k \in 1 .. n + 1 : new[k].start <= s /\ f <= new[k].end
    <3>1. CASE b <= s /\ f <= e /\ LongEnough(b, e)
      <4>1. n + 1 \in 1 .. n + 1
        BY <2>3
      <4> QED
        BY <2>2, <2>4, <3>1, <4>1
    <3>2. CASE \E k \in 1 .. Len(zero) : zero[k].start <= s /\ f <= zero[k].end
      <4>1. PICK k \in 1 .. n : zero[k].start <= s /\ f <= zero[k].end
        BY <3>2 DEF n
      <4>2. k \in 1 .. n + 1
        BY <2>3
      <4> QED
        BY <2>4, <4>1, <4>2
    <3> QED
      BY <1>3, <2>8, <3>1, <3>2
  <2> HIDE DEF new
  <2>9. FoundUpTo(new, data, e)
    BY <2>4, <2>6, <2>7, <2>8 DEF FoundUpTo
  <2> QED
    BY <2>9 DEF new
<1> QED
  BY <1>4, <1>5

\* The scan's state is typed.
ScanStates == [in : BOOLEAN, start : Nat, found : Seq(Regions)]
LEMMA ScanStepTyped ==
  ASSUME NEW data, NEW st \in ScanStates, NEW i \in Nat, i > 0
  PROVE  ScanStep(st, data, i) \in ScanStates
<1>1. st.in \in BOOLEAN /\ st.start \in Nat /\ st.found \in Seq(Regions)
  BY DEF ScanStates
<1>2. i - 1 \in Nat
  OBVIOUS
<1>3. Closed(st, i - 1) \in Seq(Regions)
  BY <1>1, <1>2, RegionOf DEF Closed
<1>4. CASE data[i] = 0 /\ ~st.in
  <2>1. ScanStep(st, data, i) = [st EXCEPT !.in = TRUE, !.start = i - 1]
    BY <1>4 DEF ScanStep
  <2> QED
    BY <1>2, <2>1 DEF ScanStates
<1>5. CASE data[i] # 0 /\ st.in
  <2>1. ScanStep(st, data, i) = [st EXCEPT !.in = FALSE, !.found = Closed(st, i - 1)]
    BY <1>5 DEF ScanStep
  <2> QED
    BY <1>3, <2>1 DEF ScanStates
<1>6. CASE ~(data[i] = 0 /\ ~st.in) /\ ~(data[i] # 0 /\ st.in)
  BY <1>6 DEF ScanStep
<1> QED
  BY <1>4, <1>5, <1>6

\* The function that FindZeroRegions defines by recursion.
IsScan(f, data, n) ==
  /\ f \in [0 .. n -> ScanStates] /\ f[0] = ScanStart(data)
  /\ \A i \in 1 .. n : f[i] = ScanStep(f[i - 1], data, i)
ScanOf(data) ==
  CHOOSE f : f = [i \in 0 .. Len(data) |->
                    IF i = 0 THEN ScanStart(data) ELSE ScanStep(f[i - 1], data, i)]

\* There is such a function.
LEMMA ScanExists ==
  ASSUME NEW data, NEW n \in Nat, n = Len(data)
  PROVE  IsScan(ScanOf(data), data, n)
<1> DEFINE step == [x \in ScanStates \X Nat |-> IF x[2] > 0 THEN ScanStep(x[1], data, x[2]) ELSE x[1]]
           Solves(f) == f = [i \in 0 .. n |-> IF i = 0 THEN ScanStart(data) ELSE ScanStep(f[i - 1], data, i)]
<1>1. ScanStart(data) \in ScanStates
  BY DEF ScanStart, ScanStates
<1>2. step \in [ScanStates \X Nat -> ScanStates]
  BY ScanStepTyped
<1>3. \A st \in ScanStates : \A i \in Nat : i > 0 => step[<<st, i>>] = ScanStep(st, data, i)
  OBVIOUS
<1> HIDE DEF step
<1>4. PICK g \in [0 .. n -> ScanStates] :
        DefinedFromZero(g, n, ScanStart(data), step)
  BY <1>1, <1>2, RecursionFromZero
<1>5. \A i \in 1 .. n : g[i] = ScanStep(g[i - 1], data, i)
  <2> TAKE i \in 1 .. n
  <2>1. i - 1 \in 0 .. n /\ i \in Nat /\ i > 0
    OBVIOUS
  <2> QED
    BY <1>3, <1>4, <2>1 DEF DefinedFromZero
<1>6. \A i \in 0 .. n : g[i] = IF i = 0 THEN ScanStart(data) ELSE ScanStep(g[i - 1], data, i)
  <2> TAKE i \in 0 .. n
  <2>1. i = 0 \/ i \in 1 .. n
    OBVIOUS
  <2> QED
    BY <1>4, <1>5, <2>1 DEF DefinedFromZero
<1>7. Solves(g)
  BY <1>6
<1>8. ASSUME NEW f, Solves(f) PROVE IsScan(f, data, n)
  <2>1. \A i \in 0 .. n : f[i] = IF i = 0 THEN ScanStart(data) ELSE ScanStep(f[i - 1], data, i)
    BY <1>8
  <2>2. 0 \in 0 .. n /\ \A i \in 1 .. n : i \in 0 .. n /\ i # 0 /\ i \in Nat /\ i > 0
    OBVIOUS
  <2>3. f[0] = ScanStart(data) /\ \A i \in 1 .. n : f[i] = ScanStep(f[i - 1], data, i)
    BY <2>1, <2>2
  <2> DEFINE S == {i \in Nat : f[i] \in ScanStates}
  <2>4. 0 \in S
    BY <1>1, <2>3
  <2>5. ASSUME NEW i \in 1 .. n, i - 1 \in S PROVE i \in S
    BY <2>2, <2>3, <2>5, ScanStepTyped
  <2> HIDE DEF S
  <2>6. 0 .. n \subseteq S
    BY <2>4, <2>5, FromZero
  <2>7. \A i \in 0 .. n : f[i] \in ScanStates
    BY <2>6 DEF S
  <2>8. f = [i \in 0 .. n |-> f[i]]
    BY <1>8
  <2>9. f \in [0 .. n -> ScanStates]
    BY <2>7, <2>8
  <2> QED
    BY <2>3, <2>9 DEF IsScan
<1>9. Solves(CHOOSE f : Solves(f))
  BY <1>7
<1>10. (CHOOSE f : Solves(f)) = ScanOf(data)
  BY DEF ScanOf
<1> HIDE DEF Solves
<1> QED
  BY <1>8, <1>9, <1>10

\* What the scan knows at position i of an image of n bytes.
ScanInv(st, data, n, i) ==
  /\ FoundUpTo(st.found, data, IF st.in THEN st.start ELSE i)
  /\ st.in => /\ st.start \in 0 .. i /\ AllZero(data, st.start, i)
              /\ st.start > 0 => data[st.start] # 0
  /\ ~st.in /\ i > 0 => data[i] # 0
  /\ i = 0 /\ n > 0 => (st.in <=> data[1] = 0)

\* It knows it at the start.
LEMMA ScanStarts ==
  ASSUME NEW data, NEW n \in Nat, n = Len(data)
  PROVE  ScanInv(ScanStart(data), data, n, 0)
<1> DEFINE st == ScanStart(data)
<1>1. st.in = (n > 0 /\ data[1] = 0) /\ st.start = 0 /\ st.found = <<>>
  BY DEF ScanStart
<1> HIDE DEF st
<1>2. FoundUpTo(<<>>, data, 0)
  <2>1. \A s, e \in 0 .. 0 : ~LongEnough(s, e)
    BY RegionAssumption DEF LongEnough
  <2>2. <<>> \in Seq(Regions) /\ Len(<<>>) = 0 /\ \A k \in 1 .. 0 : FALSE
    OBVIOUS
  <2> QED
    BY <2>1, <2>2 DEF FoundUpTo, InOrder
<1>3. AllZero(data, 0, 0)
  BY DEF AllZero
<1>4. ASSUME n > 0 /\ data[1] = 0 PROVE ScanInv(st, data, n, 0)
  <2>1. st.in = TRUE
    BY <1>1, <1>4
  <2> QED
    BY <1>1, <1>2, <1>3, <1>4, <2>1 DEF ScanInv
<1>5. ASSUME ~(n > 0 /\ data[1] = 0) PROVE ScanInv(st, data, n, 0)
  <2>1. st.in = FALSE
    BY <1>1, <1>5
  <2> QED
    BY <1>1, <1>2, <1>5, <2>1 DEF ScanInv
<1> QED
  BY <1>4, <1>5 DEF st

\* And at the next position.
LEMMA ScanGoesOn ==
  ASSUME NEW data, NEW n \in Nat, NEW i \in 1 .. n, NEW st \in ScanStates, ScanInv(st, data, n, i - 1)
  PROVE  ScanInv(ScanStep(st, data, i), data, n, i)
<1> DEFINE next == ScanStep(st, data, i)
<1>1. st.in \in BOOLEAN /\ st.start \in Nat /\ st.found \in Seq(Regions) /\ i - 1 \in Nat /\ i - 1 + 1 = i
  BY DEF ScanStates
<1>2. CASE data[i] = 0 /\ ~st.in
  <2>1. next = [st EXCEPT !.in = TRUE, !.start = i - 1]
    BY <1>2 DEF ScanStep
  <2>2. next.in = TRUE /\ next.start = i - 1 /\ next.found = st.found
    BY <2>1 DEF ScanStates
  <2> HIDE DEF next
  <2>3. FoundUpTo(st.found, data, i - 1) /\ (i - 1 > 0 => data[i - 1] # 0)
    BY <1>2 DEF ScanInv
  <2>4. AllZero(data, i - 1, i)
    <3>1. \A j \in i - 1 + 1 .. i : j = i
      OBVIOUS
    <3> QED
      BY <1>2, <3>1 DEF AllZero
  <2>5. ScanInv(next, data, n, i)
    BY <1>1, <2>2, <2>3, <2>4 DEF ScanInv
  <2> QED
    BY <2>5 DEF next
<1>3. CASE data[i] # 0 /\ st.in
  <2>1. next = [st EXCEPT !.in = FALSE, !.found = Closed(st, i - 1)]
    BY <1>3 DEF ScanStep
  <2>2. next.in = FALSE /\ next.found = Closed(st, i - 1)
    BY <2>1 DEF ScanStates
  <2> HIDE DEF next
  <2>3. /\ FoundUpTo(st.found, data, st.start) /\ st.start \in 0 .. i - 1
        /\ AllZero(data, st.start, i - 1) /\ (st.start > 0 => data[st.start] # 0)
    BY <1>3 DEF ScanInv
  <2>4. FoundUpTo(Closed(st, i - 1), data, i - 1)
    BY <1>1, <2>3, RunCloses
  <2>5. FoundUpTo(Closed(st, i - 1), data, i - 1 + 1)
    BY <1>1, <1>3, <2>4, NonZeroEnds
  <2>6. ScanInv(next, data, n, i)
    BY <1>1, <1>3, <2>2, <2>5 DEF ScanInv
  <2> QED
    BY <2>6 DEF next
<1>4. CASE data[i] = 0 /\ st.in
  <2>1. next = st
    BY <1>4 DEF ScanStep
  <2>2. AllZero(data, st.start, i) /\ st.start \in 0 .. i
    <3>1. AllZero(data, st.start, i - 1) /\ st.start \in 0 .. i - 1
      BY <1>4 DEF ScanInv
    <3>2. \A j \in st.start + 1 .. i : j \in st.start + 1 .. i - 1 \/ j = i
      BY <1>1
    <3> QED
      BY <1>4, <3>1, <3>2 DEF AllZero
  <2> QED
    BY <1>1, <1>4, <2>1, <2>2 DEF ScanInv
<1>5. CASE data[i] # 0 /\ ~st.in
  <2>1. next = st
    BY <1>5 DEF ScanStep
  <2>2. FoundUpTo(st.found, data, i - 1 + 1)
    BY <1>1, <1>5, NonZeroEnds DEF ScanInv
  <2> QED
    BY <1>1, <1>5, <2>1, <2>2 DEF ScanInv
<1> QED
  BY <1>1, <1>2, <1>3, <1>4, <1>5

\* FindZeroRegions finds all runs of zeroes that are long enough.
LEMMA ZeroRegionsFound ==
  ASSUME NEW data, NEW n \in Nat, n = Len(data)
  PROVE  FoundUpTo(FindZeroRegions(data), data, n)
<1> DEFINE f == ScanOf(data)
           S == {i \in Nat : i <= n => ScanInv(f[i], data, n, i)}
<1>1. FindZeroRegions(data) = IF f[n].in THEN Closed(f[n], n) ELSE f[n].found
  BY DEF FindZeroRegions, ScanOf
<1>2. IsScan(f, data, n)
  BY ScanExists
<1> HIDE DEF f
<1>3. 0 \in S
  BY <1>2, ScanStarts DEF IsScan
<1>4. ASSUME NEW i \in 1 .. n, i - 1 \in S PROVE i \in S
  <2>1. ScanInv(f[i - 1], data, n, i - 1) /\ i - 1 \in 0 .. n
    BY <1>4
  <2>2. f[i - 1] \in ScanStates /\ f[i] = ScanStep(f[i - 1], data, i)
    BY <1>2, <2>1 DEF IsScan
  <2> QED
    BY <2>1, <2>2, ScanGoesOn
<1> HIDE DEF S
<1>5. n \in S
  <2>1. 0 .. n \subseteq S
    BY <1>3, <1>4, FromZero
  <2> QED
    BY <2>1
<1>6. ScanInv(f[n], data, n, n)
  BY <1>5 DEF S
<1>7. CASE f[n].in
  <2>1. /\ FoundUpTo(f[n].found, data, f[n].start) /\ f[n].start \in 0 .. n
        /\ AllZero(data, f[n].start, n) /\ (f[n].start > 0 => data[f[n].start] # 0)
    BY <1>6, <1>7 DEF ScanInv
  <2> QED
    BY <1>1, <1>7, <2>1, RunCloses
<1>8. CASE ~f[n].in
  BY <1>1, <1>6, <1>8 DEF ScanInv
<1> QED
  BY <1>7, <1>8

-----------------------------------------------------------------------------
(* The regions that are left.                                              *)

\* Where the gap before the i-th zero region starts and ends; the last one is after all.
GapStart(zero, i) == IF i = 1 THEN 0 ELSE zero[i - 1].end
GapEnd(zero, n, i) == IF i = Len(zero) + 1 THEN n ELSE zero[i].start
Gaps(zero, n) == Before(zero) \o Between(zero) \o After(zero, n)

\* Facts about what has been found.
LEMMA FoundFacts ==
  ASSUME NEW data, NEW n \in Nat, NEW zero, FoundUpTo(zero, data, n)
  PROVE  /\ Len(zero) \in Nat
         /\ \A k \in 1 .. Len(zero) : /\ zero[k].start \in Nat /\ zero[k].end \in Nat
                                      /\ zero[k].start < zero[k].end /\ zero[k].end <= n
         /\ \A j, k \in 1 .. Len(zero) : j <= k => /\ zero[j].start <= zero[k].start
                                                   /\ zero[j].end <= zero[k].end
<1>1. zero \in Seq(Regions) /\ Len(zero) \in Nat
  BY DEF FoundUpTo
<1>2. \A k \in 1 .. Len(zero) : /\ zero[k].start \in Nat /\ zero[k].end \in Nat
                                /\ zero[k].start < zero[k].end /\ zero[k].end <= n
  <2> TAKE k \in 1 .. Len(zero)
  <2>1. zero[k].start \in Nat /\ zero[k].end \in Nat
    BY <1>1, RegionsHavePositions
  <2>2. LongEnough(zero[k].start, zero[k].end) /\ zero[k].end <= n
    BY DEF FoundUpTo
  <2> QED
    BY <2>1, <2>2, RegionAssumption DEF LongEnough
<1>3. ASSUME NEW j \in 1 .. Len(zero), NEW k \in 1 .. Len(zero), j <= k
      PROVE  zero[j].start <= zero[k].start /\ zero[j].end <= zero[k].end
  <2>1. CASE j = k
    BY <1>2, <2>1
  <2>2. CASE j < k
    <3>1. zero[j].end <= zero[k].start
      BY <2>2 DEF FoundUpTo, InOrder
    <3> QED
      BY <1>2, <3>1
  <2> QED
    BY <1>1, <1>3, <2>1, <2>2
<1> QED
  BY <1>1, <1>2, <1>3

\* The gaps are regions, in this order.
LEMMA GapsAre ==
  ASSUME NEW data, NEW n \in Nat, NEW zero, FoundUpTo(zero, data, n), zero # <<>>
  PROVE  /\ Gaps(zero, n) \in Seq(Regions) /\ Len(Gaps(zero, n)) = Len(zero) + 1
         /\ \A i \in 1 .. Len(zero) + 1 :
              /\ GapStart(zero, i) \in Nat /\ GapEnd(zero, n, i) \in Nat /\ GapEnd(zero, n, i) <= n
              /\ Gaps(zero, n)[i] = Region(GapStart(zero, i), GapEnd(zero, n, i))
<1> DEFINE m == Len(zero)
           a == Before(zero)
           b == Between(zero)
           c == After(zero, n)
<1>1. /\ m \in Nat /\ m > 0
      /\ \A k \in 1 .. m : /\ zero[k].start \in Nat /\ zero[k].end \in Nat
                           /\ zero[k].start < zero[k].end /\ zero[k].end <= n
  <2>1. zero \in Seq(Regions)
    BY DEF FoundUpTo
  <2>2. m # 0
    BY <2>1
  <2> QED
    BY <2>2, FoundFacts
<1>2. \A i \in 1 .. m + 1 : GapStart(zero, i) \in Nat /\ GapEnd(zero, n, i) \in Nat /\ GapEnd(zero, n, i) <= n
  <2> TAKE i \in 1 .. m + 1
  <2>1. GapStart(zero, i) \in Nat
    <3>1. i = 1 \/ i - 1 \in 1 .. m
      BY <1>1
    <3> QED
      BY <1>1, <3>1 DEF GapStart
  <2>2. GapEnd(zero, n, i) \in Nat /\ GapEnd(zero, n, i) <= n
    <3>1. i = m + 1 \/ (i # m + 1 /\ i \in 1 .. m)
      BY <1>1
    <3>2. CASE i = m + 1
      BY <3>2 DEF GapEnd
    <3>3. CASE i # m + 1 /\ i \in 1 .. m
      <4>1. GapEnd(zero, n, i) = zero[i].start
        BY <3>3 DEF GapEnd
      <4> QED
        BY <1>1, <3>3, <4>1
    <3> QED
      BY <3>1, <3>2, <3>3
  <2> QED
    BY <2>1, <2>2
<1>3. a \in Seq(Regions) /\ Len(a) = 1 /\ a[1] = Region(GapStart(zero, 1), GapEnd(zero, n, 1))
  <2>1. 1 \in 1 .. m /\ 1 # m + 1
    BY <1>1
  <2>2. GapStart(zero, 1) = 0 /\ GapEnd(zero, n, 1) = zero[1].start
    BY <2>1 DEF GapStart, GapEnd
  <2>3. Region(0, zero[1].start) \in Regions
    BY <1>1, <2>1, RegionOf
  <2> QED
    BY <2>2, <2>3 DEF Before
<1>4. /\ b \in Seq(Regions) /\ Len(b) = m - 1
      /\ \A i \in 1 .. m - 1 : b[i] = Region(GapStart(zero, i + 1), GapEnd(zero, n, i + 1))
  <2>1. \A i \in 1 .. m - 1 : i \in 1 .. m /\ i + 1 \in 1 .. m /\ i + 1 # m + 1 /\ i + 1 # 1 /\ i + 1 - 1 = i
    BY <1>1
  <2>2. \A i \in 1 .. m - 1 : GapStart(zero, i + 1) = zero[i].end /\ GapEnd(zero, n, i + 1) = zero[i + 1].start
    BY <2>1 DEF GapStart, GapEnd
  <2>3. \A i \in 1 .. m - 1 : Region(zero[i].end, zero[i + 1].start) \in Regions
    BY <1>1, <2>1, RegionOf
  <2>4. b \in [1 .. m - 1 -> Regions]
    BY <2>3 DEF Between
  <2>5. m - 1 \in Nat
    BY <1>1
  <2>6. b \in Seq(Regions) /\ Len(b) = m - 1
    BY <2>4, <2>5, FunctionIsSeq
  <2> QED
    BY <2>2, <2>6 DEF Between
<1>5. c \in Seq(Regions) /\ Len(c) = 1 /\ c[1] = Region(GapStart(zero, m + 1), GapEnd(zero, n, m + 1))
  <2>1. m \in 1 .. m /\ m + 1 # 1 /\ m + 1 - 1 = m
    BY <1>1
  <2>2. GapStart(zero, m + 1) = zero[m].end /\ GapEnd(zero, n, m + 1) = n
    BY <2>1 DEF GapStart, GapEnd
  <2>3. Region(zero[m].end, n) \in Regions
    BY <1>1, <2>1, RegionOf
  <2> QED
    BY <2>2, <2>3 DEF After
<1> HIDE DEF a, b, c, m
<1>6. TwoParts(a \o b, a, b) /\ a \o b \in Seq(Regions)
  BY <1>3, <1>4, TwoPartsOf
<1>7. TwoParts((a \o b) \o c, a \o b, c) /\ (a \o b) \o c \in Seq(Regions)
  BY <1>5, <1>6, TwoPartsOf
<1> DEFINE ab == a \o b
           all == ab \o c
<1>8. /\ Len(ab) = m /\ ab[1] = a[1] /\ \A i \in 1 .. m - 1 : ab[1 + i] = b[i]
  BY <1>1, <1>3, <1>4, <1>6 DEF TwoParts
<1>9. Len(all) = m + 1 /\ all[m + 1] = c[1] /\ \A i \in 1 .. m : all[i] = ab[i]
  <2>1. TwoParts(all, ab, c)
    BY <1>7
  <2> HIDE DEF ab, all
  <2>2. Len(all) = m + 1 /\ 1 \in 1 .. Len(c) /\ \A i \in 1 .. m : all[i] = ab[i]
    BY <1>1, <1>5, <1>8, <2>1 DEF TwoParts
  <2>3. all[m + 1] = c[1]
    BY <1>8, <2>1, <2>2 DEF TwoParts
  <2> QED
    BY <2>2, <2>3
<1>10. Gaps(zero, n) = all
  BY DEF Gaps, a, b, c
<1>11. all \in Seq(Regions)
  BY <1>7
<1> HIDE DEF all, ab
<1>12. \A i \in 1 .. m + 1 : all[i] = Region(GapStart(zero, i), GapEnd(zero, n, i))
  <2> TAKE i \in 1 .. m + 1
  <2>1. CASE i = m + 1
    BY <1>5, <1>9, <2>1
  <2>2. CASE i = 1
    BY <1>1, <1>3, <1>8, <1>9, <2>2
  <2>3. CASE i # 1 /\ i # m + 1
    <3>1. i \in 1 .. m /\ i - 1 \in 1 .. m - 1 /\ 1 + (i - 1) = i /\ i - 1 + 1 = i
      BY <1>1, <2>3
    <3>2. all[i] = ab[i] /\ ab[1 + (i - 1)] = b[i - 1]
      BY <1>8, <1>9, <3>1
    <3> QED
      BY <1>4, <3>1, <3>2
  <2> QED
    BY <2>1, <2>2, <2>3
<1> QED
  BY <1>2, <1>9, <1>10, <1>11, <1>12 DEF m

\* A gap starts where a later one ends only behind a zero region.
LEMMA GapsApart ==
  ASSUME NEW data, NEW n \in Nat, NEW zero, FoundUpTo(zero, data, n), zero # <<>>,
         NEW j \in 1 .. Len(zero) + 1, NEW i \in 1 .. Len(zero) + 1, j < i
  PROVE  LongEnough(GapEnd(zero, n, j), GapStart(zero, i))
<1>1. Len(zero) \in Nat
  BY FoundFacts
<1>2. j \in 1 .. Len(zero) /\ i - 1 \in 1 .. Len(zero) /\ j <= i - 1 /\ i # 1 /\ j # Len(zero) + 1
  BY <1>1
<1>3. GapEnd(zero, n, j) = zero[j].start /\ GapStart(zero, i) = zero[i - 1].end
  BY <1>2 DEF GapEnd, GapStart
<1>4. /\ zero[j].start \in Nat /\ zero[i - 1].start \in Nat /\ zero[i - 1].end \in Nat
      /\ zero[j].start <= zero[i - 1].start
  BY <1>2, FoundFacts
<1>5. LongEnough(zero[i - 1].start, zero[i - 1].end)
  BY <1>2 DEF FoundUpTo
<1> QED
  BY <1>3, <1>4, <1>5, RegionAssumption DEF LongEnough

\* The first i gaps that are not empty.
CutUpTo(regions, gaps, i) ==
  /\ regions \in Seq(Regions)
  /\ \A k \in 1 .. Len(regions) : \E j \in 1 .. i : regions[k] = gaps[j] /\ gaps[j].size > 0
  /\ \A j \in 1 .. i : gaps[j].size > 0 => \E k \in 1 .. Len(regions) : regions[k] = gaps[j]
  /\ \A k \in 1 .. Len(regions) - 1 : LongEnough(regions[k].end, regions[k + 1].start)

\* One more gap.
LEMMA CutNext ==
  ASSUME NEW gaps \in Seq(Regions), NEW i \in 1 .. Len(gaps), NEW regions, CutUpTo(regions, gaps, i - 1),
         \A j \in 1 .. i - 1 : LongEnough(gaps[j].end, gaps[i].start)
  PROVE  CutUpTo(regions \o NotEmpty(gaps[i]), gaps, i)
<1> DEFINE n == Len(regions)
           r == gaps[i]
           new == regions \o NotEmpty(r)
<1>1. /\ regions \in Seq(Regions) /\ n \in Nat /\ r \in Regions
      /\ \A k \in 1 .. n : \E j \in 1 .. i - 1 : regions[k] = gaps[j] /\ gaps[j].size > 0
      /\ \A j \in 1 .. i - 1 : gaps[j].size > 0 => \E k \in 1 .. n : regions[k] = gaps[j]
      /\ \A k \in 1 .. n - 1 : LongEnough(regions[k].end, regions[k + 1].start)
  BY DEF CutUpTo
<1>2. Len(gaps) \in Nat
  OBVIOUS
<1>3. \A j \in 1 .. i : j = i \/ j \in 1 .. i - 1
  BY <1>2
<1>4. \A j \in 1 .. i - 1 : j \in 1 .. i
  BY <1>2
<1> HIDE DEF r
<1>5. CASE ~(r.size > 0)
  <2>1. new = regions
    BY <1>1, <1>5 DEF NotEmpty
  <2> HIDE DEF new
  <2>2. CutUpTo(new, gaps, i)
    BY <1>1, <1>3, <1>4, <1>5, <2>1 DEF CutUpTo, r
  <2> QED
    BY <2>2 DEF new, r
<1>6. CASE r.size > 0
  <2>1. new = regions \o <<r>>
    BY <1>6 DEF NotEmpty
  <2>2. new \in Seq(Regions) /\ Len(new) = n + 1 /\ new[n + 1] = r /\ \A k \in 1 .. n : new[k] = regions[k]
    BY <1>1, <2>1
  <2> HIDE DEF new, n
  <2>3. \A k \in 1 .. n + 1 : k = n + 1 \/ k \in 1 .. n
    BY <1>1
  <2>4. \A k \in 1 .. n : k \in 1 .. n + 1
    BY <1>1
  <2>5. i \in 1 .. i /\ n + 1 \in 1 .. n + 1
    BY <1>1, <1>2
  <2>6. \A k \in 1 .. n + 1 : \E j \in 1 .. i : new[k] = gaps[j] /\ gaps[j].size > 0
    <3> TAKE k \in 1 .. n + 1
    <3>1. CASE k = n + 1
      BY <1>6, <2>2, <2>5, <3>1 DEF r
    <3>2. CASE k \in 1 .. n
      <4>1. PICK j \in 1 .. i - 1 : regions[k] = gaps[j] /\ gaps[j].size > 0
        BY <1>1, <3>2
      <4> QED
        BY <1>4, <2>2, <3>2, <4>1
    <3> QED
      BY <2>3, <3>1, <3>2
  <2>7. \A j \in 1 .. i : gaps[j].size > 0 => \E k \in 1 .. n + 1 : new[k] = gaps[j]
    <3> SUFFICES ASSUME NEW j \in 1 .. i, gaps[j].size > 0 PROVE \E k \in 1 .. n + 1 : new[k] = gaps[j]
      OBVIOUS
    <3>1. CASE j = i
      BY <2>2, <2>5, <3>1 DEF r
    <3>2. CASE j \in 1 .. i - 1
      <4>1. PICK k \in 1 .. n : regions[k] = gaps[j]
        BY <1>1, <3>2
      <4> QED
        BY <2>2, <2>4, <4>1
    <3> QED
      BY <1>3, <3>1, <3>2
  <2>8. \A k \in 1 .. n + 1 - 1 : LongEnough(new[k].end, new[k + 1].start)
    <3> TAKE k \in 1 .. n + 1 - 1
    <3>1. k \in 1 .. n
      BY <1>1
    <3>2. CASE k = n
      <4>1. PICK j \in 1 .. i - 1 : regions[k] = gaps[j]
        BY <1>1, <3>1
      <4> QED
        BY <2>2, <3>1, <3>2, <4>1 DEF r
    <3>3. CASE k # n
      <4>1. k \in 1 .. n - 1 /\ k + 1 \in 1 .. n
        BY <1>1, <3>1, <3>3
      <4> QED
        BY <1>1, <2>2, <3>1, <4>1
    <3> QED
      BY <3>2, <3>3
  <2>9. /\ \A k \in 1 .. Len(new) : \E j \in 1 .. i : new[k] = gaps[j] /\ gaps[j].size > 0
        /\ \A j \in 1 .. i : gaps[j].size > 0 => \E k \in 1 .. Len(new) : new[k] = gaps[j]
        /\ \A k \in 1 .. Len(new) - 1 : LongEnough(new[k].end, new[k + 1].start)
    <3>1. n + 1 = Len(new)
      BY <2>2
    <3>2. \A k \in 1 .. Len(new) : \E j \in 1 .. i : new[k] = gaps[j] /\ gaps[j].size > 0
      BY <2>6, <3>1
    <3>3. \A j \in 1 .. i : gaps[j].size > 0 => \E k \in 1 .. Len(new) : new[k] = gaps[j]
      BY <2>7, <3>1
    <3>4. \A k \in 1 .. Len(new) - 1 : LongEnough(new[k].end, new[k + 1].start)
      <4> TAKE k \in 1 .. Len(new) - 1
      <4>1. Len(new) - 1 = n + 1 - 1
        BY <1>1, <3>1
      <4>2. k \in 1 .. n + 1 - 1
        BY <4>1
      <4> QED
        BY <2>8, <4>2
    <3> QED
      BY <3>2, <3>3, <3>4
  <2>10. CutUpTo(new, gaps, i)
    BY <2>2, <2>9, Zenon DEF CutUpTo
  <2> QED
    BY <2>10 DEF new, r
<1> QED
  BY <1>5, <1>6

\* All gaps, if there is a zero region.
LEMMA GapsCut ==
  ASSUME NEW data, NEW n \in Nat, NEW zero, FoundUpTo(zero, data, n), zero # <<>>
  PROVE  CutUpTo(FindNonZeroRegions(zero, n), Gaps(zero, n), Len(zero) + 1)
<1> DEFINE gaps == Gaps(zero, n)
           m == Len(zero) + 1
           s == [i \in DOMAIN gaps |-> NotEmpty(gaps[i])]
<1>1. /\ gaps \in Seq(Regions) /\ Len(gaps) = m /\ m \in Nat /\ m > 0
      /\ \A i \in 1 .. m : /\ GapStart(zero, i) \in Nat /\ GapEnd(zero, n, i) \in Nat
                           /\ gaps[i] = Region(GapStart(zero, i), GapEnd(zero, n, i))
  BY FoundFacts, GapsAre
<1>2. FindNonZeroRegions(zero, n) = FlattenSeq(s)
  BY DEF FindNonZeroRegions, Gaps
<1>3. ASSUME NEW i \in 1 .. m, NEW j \in 1 .. i - 1 PROVE LongEnough(gaps[j].end, gaps[i].start)
  <2>1. j \in 1 .. m /\ j < i
    BY <1>1
  <2>2. gaps[j].end = GapEnd(zero, n, j) /\ gaps[i].start = GapStart(zero, i)
    <3>1. gaps[j] = Region(GapStart(zero, j), GapEnd(zero, n, j))
      BY <1>1, <2>1
    <3>2. gaps[i] = Region(GapStart(zero, i), GapEnd(zero, n, i))
      BY <1>1
    <3> HIDE DEF gaps
    <3> QED
      BY <3>1, <3>2 DEF Region
  <2> QED
    BY <2>1, <2>2, GapsApart
<1> HIDE DEF gaps
<1>4. s \in Seq(Seq(Regions)) /\ Len(s) = m /\ \A i \in 1 .. m : s[i] = NotEmpty(gaps[i])
  <2>1. DOMAIN gaps = 1 .. m
    BY <1>1
  <2>2. \A i \in 1 .. m : NotEmpty(gaps[i]) \in Seq(Regions)
    BY <1>1 DEF NotEmpty
  <2>3. s \in [1 .. m -> Seq(Regions)]
    BY <2>1, <2>2
  <2>4. s \in Seq(Seq(Regions)) /\ Len(s) = m
    BY <1>1, <2>3, FunctionIsSeq
  <2> QED
    BY <2>1, <2>4
<1> HIDE DEF s, m
<1>5. PICK g \in [1 .. m -> Seq(Regions)] : Joins(g, m, s) /\ FlattenSeq(s) = g[m]
  <2>1. s # <<>>
    BY <1>1, <1>4
  <2> QED
    BY <1>4, <2>1, FlattenDef
<1> DEFINE S == {i \in Nat : CutUpTo(g[i], gaps, i)}
<1>6. 1 \in S
  <2>1. CutUpTo(<<>>, gaps, 1 - 1)
    <3>1. <<>> \in Seq(Regions) /\ Len(<<>>) = 0 /\ 1 - 1 = 0 /\ 0 - 1 = -1
      OBVIOUS
    <3>2. \A k \in 1 .. 0 : FALSE
      OBVIOUS
    <3>3. \A k \in 1 .. -1 : FALSE
      OBVIOUS
    <3> QED
      BY <3>1, <3>2, <3>3 DEF CutUpTo
  <2>2. 1 \in 1 .. Len(gaps)
    BY <1>1
  <2>3. CutUpTo(<<>> \o NotEmpty(gaps[1]), gaps, 1)
    <3>1. \A j \in 1 .. 1 - 1 : FALSE
      OBVIOUS
    <3> QED
      BY <1>1, <2>1, <2>2, <3>1, CutNext
  <2>4. NotEmpty(gaps[1]) \in Seq(Regions)
    BY <1>1, <2>2 DEF NotEmpty
  <2>5. <<>> \o NotEmpty(gaps[1]) = g[1]
    BY <1>1, <1>4, <1>5, <2>2, <2>4 DEF Joins
  <2> QED
    BY <2>3, <2>5
<1>7. ASSUME NEW i \in 2 .. m, i - 1 \in S PROVE i \in S
  <2>1. i \in 1 .. Len(gaps) /\ i \in 1 .. m
    BY <1>1
  <2>2. g[i] = g[i - 1] \o NotEmpty(gaps[i])
    BY <1>4, <1>5, <2>1 DEF Joins
  <2>3. CutUpTo(g[i - 1], gaps, i - 1)
    BY <1>7
  <2>4. \A j \in 1 .. i - 1 : LongEnough(gaps[j].end, gaps[i].start)
    BY <1>3, <2>1
  <2>5. CutUpTo(g[i - 1] \o NotEmpty(gaps[i]), gaps, i)
    BY <1>1, <2>1, <2>3, <2>4, CutNext
  <2>6. CutUpTo(g[i], gaps, i)
    BY <2>2, <2>5
  <2>7. i \in Nat
    BY <1>1
  <2> QED
    BY <2>6, <2>7
<1> HIDE DEF S
<1>8. m \in S
  <2>1. 1 .. m \subseteq S
    BY <1>1, <1>6, <1>7, UpTo
  <2> QED
    BY <1>1, <2>1
<1> QED
  BY <1>2, <1>5, <1>8 DEF S, m, gaps

\* A position is in a gap or in a zero region.
LEMMA PositionsCovered ==
  ASSUME NEW data, NEW n \in Nat, NEW zero, FoundUpTo(zero, data, n), NEW i \in 1 .. n
  PROVE  \/ \E j \in 1 .. Len(zero) + 1 : GapStart(zero, j) < i /\ i <= GapEnd(zero, n, j)
         \/ \E k \in 1 .. Len(zero) : zero[k].start < i /\ i <= zero[k].end
<1> DEFINE m == Len(zero) + 1
           Covered == \/ \E j \in 1 .. m : GapStart(zero, j) < i /\ i <= GapEnd(zero, n, j)
                      \/ \E k \in 1 .. Len(zero) : zero[k].start < i /\ i <= zero[k].end
           S == {j \in Nat : i <= GapEnd(zero, n, j) => Covered}
<1>1. /\ m \in Nat /\ m > 0 /\ Len(zero) \in Nat
      /\ \A k \in 1 .. Len(zero) : zero[k].start \in Nat /\ zero[k].end \in Nat
  <2>1. /\ Len(zero) \in Nat
        /\ \A k \in 1 .. Len(zero) : zero[k].start \in Nat /\ zero[k].end \in Nat
    BY FoundFacts
  <2>2. \A l \in Nat : l + 1 \in Nat /\ l + 1 > 0
    OBVIOUS
  <2> QED
    BY <2>1, <2>2
<1>2. 1 \in S
  <2> SUFFICES ASSUME i <= GapEnd(zero, n, 1) PROVE Covered
    OBVIOUS
  <2>1. GapStart(zero, 1) = 0 /\ 0 < i /\ 1 \in 1 .. m
    BY <1>1 DEF GapStart
  <2> QED
    BY <2>1
<1>3. ASSUME NEW j \in 2 .. m, j - 1 \in S PROVE j \in S
  <2> SUFFICES ASSUME i <= GapEnd(zero, n, j) PROVE Covered
    BY <1>1
  <2>1. j - 1 \in 1 .. Len(zero) /\ j \in 1 .. m /\ j # 1 /\ j - 1 # Len(zero) + 1
    BY <1>1
  <2>2. GapEnd(zero, n, j - 1) = zero[j - 1].start /\ GapStart(zero, j) = zero[j - 1].end
    BY <2>1 DEF GapEnd, GapStart
  <2>3. CASE i <= zero[j - 1].start
    BY <1>3, <2>2, <2>3
  <2>4. CASE zero[j - 1].start < i /\ i <= zero[j - 1].end
    BY <2>1, <2>4
  <2>5. CASE zero[j - 1].end < i
    BY <2>1, <2>2, <2>5
  <2> QED
    BY <1>1, <2>1, <2>3, <2>4, <2>5
<1> HIDE DEF S
<1>4. m \in S
  <2>1. 1 .. m \subseteq S
    BY <1>1, <1>2, <1>3, UpTo
  <2> QED
    BY <1>1, <2>1
<1>5. i <= GapEnd(zero, n, m)
  BY DEF GapEnd
<1> QED
  BY <1>4, <1>5 DEF S

\* The regions of an image, with and without zero regions.
LEMMA RegionsOfImage ==
  ASSUME NEW data, NEW n \in Nat, n = Len(data), NEW zero, zero = FindZeroRegions(data)
  PROVE  /\ zero = <<>> => NonZeroRegions(data) = <<Region(0, n)>>
         /\ zero # <<>> => CutUpTo(NonZeroRegions(data), Gaps(zero, n), Len(zero) + 1)
<1>1. FoundUpTo(zero, data, n)
  BY ZeroRegionsFound
<1>2. NonZeroRegions(data) = FindNonZeroRegions(zero, n)
  BY DEF NonZeroRegions
<1>3. zero = <<>> => FindNonZeroRegions(zero, n) = <<Region(0, n)>>
  BY DEF FindNonZeroRegions
<1> QED
  BY <1>1, <1>2, <1>3, GapsCut

\* Each region is a gap that is not empty.
LEMMA RegionIsGap ==
  ASSUME NEW data, NEW n \in Nat, NEW zero, FoundUpTo(zero, data, n), zero # <<>>,
         NEW regions, CutUpTo(regions, Gaps(zero, n), Len(zero) + 1), NEW k \in 1 .. Len(regions)
  PROVE  \E j \in 1 .. Len(zero) + 1 :
           /\ regions[k].start = GapStart(zero, j) /\ regions[k].end = GapEnd(zero, n, j)
           /\ regions[k].size = GapEnd(zero, n, j) - GapStart(zero, j)
           /\ GapStart(zero, j) \in Nat /\ GapEnd(zero, n, j) \in Nat /\ GapEnd(zero, n, j) <= n
           /\ GapEnd(zero, n, j) - GapStart(zero, j) > 0
<1>1. PICK j \in 1 .. Len(zero) + 1 : regions[k] = Gaps(zero, n)[j] /\ Gaps(zero, n)[j].size > 0
  BY DEF CutUpTo
<1>2. /\ GapStart(zero, j) \in Nat /\ GapEnd(zero, n, j) \in Nat /\ GapEnd(zero, n, j) <= n
      /\ Gaps(zero, n)[j] = Region(GapStart(zero, j), GapEnd(zero, n, j))
  BY GapsAre
<1>3. /\ regions[k].start = GapStart(zero, j) /\ regions[k].end = GapEnd(zero, n, j)
      /\ regions[k].size = GapEnd(zero, n, j) - GapStart(zero, j)
  BY <1>1, <1>2 DEF Region
<1> QED
  BY <1>1, <1>2, <1>3

\* Loading the regions into cleared memory gives back the image.
LEMMA RegionsGiveBackImage ==
  ASSUME NEW V, NEW data \in Seq(V)
  PROVE  Loaded(data, NonZeroRegions(data)) = data
<1> DEFINE n == Len(data)
           zero == FindZeroRegions(data)
           regions == NonZeroRegions(data)
           In(i) == \E k \in 1 .. Len(regions) : regions[k].start < i /\ i <= regions[k].end
<1>1. n \in Nat /\ DOMAIN data = 1 .. n
  OBVIOUS
<1>2. FoundUpTo(zero, data, n)
  BY <1>1, ZeroRegionsFound
<1>3. /\ zero = <<>> => regions = <<Region(0, n)>>
      /\ zero # <<>> => CutUpTo(regions, Gaps(zero, n), Len(zero) + 1)
  BY <1>1, RegionsOfImage
<1> HIDE DEF zero, regions
<1>4. ASSUME NEW i \in 1 .. n, ~In(i) PROVE data[i] = 0
  <2>1. CASE zero = <<>>
    <3>1. regions = <<Region(0, n)>> /\ Len(regions) = 1 /\ regions[1] = Region(0, n)
      BY <1>3, <2>1
    <3>2. regions[1].start = 0 /\ regions[1].end = n /\ 0 < i /\ i <= n /\ 1 \in 1 .. Len(regions)
      BY <1>1, <3>1 DEF Region
    <3> QED
      BY <1>4, <3>2
  <2>2. CASE zero # <<>>
    <3>1. ~\E j \in 1 .. Len(zero) + 1 : GapStart(zero, j) < i /\ i <= GapEnd(zero, n, j)
      <4> SUFFICES ASSUME NEW j \in 1 .. Len(zero) + 1, GapStart(zero, j) < i, i <= GapEnd(zero, n, j)
                   PROVE  FALSE
        OBVIOUS
      <4>1. /\ GapStart(zero, j) \in Nat /\ GapEnd(zero, n, j) \in Nat
            /\ Gaps(zero, n)[j] = Region(GapStart(zero, j), GapEnd(zero, n, j))
        BY <1>1, <1>2, <2>2, GapsAre
      <4>2. /\ Gaps(zero, n)[j].start = GapStart(zero, j) /\ Gaps(zero, n)[j].end = GapEnd(zero, n, j)
            /\ Gaps(zero, n)[j].size = GapEnd(zero, n, j) - GapStart(zero, j)
        BY <4>1 DEF Region
      <4>3. Gaps(zero, n)[j].size > 0
        BY <4>1, <4>2
      <4>4. PICK k \in 1 .. Len(regions) : regions[k] = Gaps(zero, n)[j]
        BY <1>3, <2>2, <4>3 DEF CutUpTo
      <4> QED
        BY <1>4, <4>2, <4>4
    <3>2. PICK k \in 1 .. Len(zero) : zero[k].start < i /\ i <= zero[k].end
      BY <1>1, <1>2, <3>1, PositionsCovered
    <3>3. AllZero(data, zero[k].start, zero[k].end) /\ zero[k].start \in Nat /\ zero[k].end \in Nat
      BY <1>1, <1>2, FoundFacts DEF FoundUpTo
    <3>4. i \in zero[k].start + 1 .. zero[k].end
      BY <3>2, <3>3
    <3> QED
      BY <3>3, <3>4 DEF AllZero
  <2> QED
    BY <2>1, <2>2
<1>5. Loaded(data, regions) = [i \in 1 .. n |-> IF In(i) THEN data[i] ELSE 0]
  BY DEF Loaded
<1>6. \A i \in 1 .. n : (IF In(i) THEN data[i] ELSE 0) = data[i]
  BY <1>4
<1> HIDE DEF In
<1>7. Loaded(data, regions) = [i \in 1 .. n |-> data[i]]
  BY <1>5, <1>6
<1>8. data = [i \in 1 .. n |-> data[i]]
  BY <1>1
<1> QED
  BY <1>7, <1>8 DEF regions

\* The regions are apart, and leave out all that is worth leaving out.
LEMMA RegionsWellCut ==
  ASSUME NEW V, NEW data \in Seq(V)
  PROVE  WellCut(data, NonZeroRegions(data))
<1> DEFINE n == Len(data)
           zero == FindZeroRegions(data)
           regions == NonZeroRegions(data)
<1>1. n \in Nat /\ DOMAIN data = 1 .. n /\ (data # <<>> => n > 0)
  OBVIOUS
<1>2. FoundUpTo(zero, data, n)
  BY <1>1, ZeroRegionsFound
<1>3. /\ zero = <<>> => regions = <<Region(0, n)>>
      /\ zero # <<>> => CutUpTo(regions, Gaps(zero, n), Len(zero) + 1)
  BY <1>1, RegionsOfImage
<1> HIDE DEF zero, regions
<1>4. CASE zero = <<>>
  <2>1. Len(regions) = 1 /\ regions[1] = Region(0, n)
    BY <1>3, <1>4
  <2>2. regions[1].start = 0 /\ regions[1].end = n /\ regions[1].size = n - 0
    BY <2>1 DEF Region
  <2>3. ASSUME NEW s \in 0 .. n, NEW e \in 0 .. n, LongEnough(s, e) PROVE \E i \in s + 1 .. e : data[i] # 0
    <3>1. ~AllZero(data, s, e)
      <4>1. Len(zero) = 0
        BY <1>4
      <4>2. 1 .. 0 = {}
        OBVIOUS
      <4> QED
        BY <1>2, <2>3, <4>1, <4>2 DEF FoundUpTo
    <3> QED
      BY <3>1 DEF AllZero
  <2>4. \A k \in 1 .. Len(regions) : k = 1
    BY <2>1
  <2>5. \A k \in 1 .. Len(regions) - 1 : FALSE
    BY <2>1
  <2>6. n - 0 = n /\ 0 <= 0 /\ n <= n
    BY <1>1
  <2>7. \A k \in 1 .. Len(regions) :
          /\ regions[k].size = regions[k].end - regions[k].start
          /\ 0 <= regions[k].start /\ regions[k].end <= Len(data)
          /\ data # <<>> => regions[k].size > 0
    BY <1>1, <2>2, <2>4, <2>6
  <2>8. \A k \in 1 .. Len(regions) : \A s, e \in regions[k].start .. regions[k].end :
          LongEnough(s, e) => \E i \in s + 1 .. e : data[i] # 0
    BY <2>2, <2>3, <2>4
  <2> QED
    BY <2>5, <2>7, <2>8 DEF WellCut, regions
<1>5. CASE zero # <<>>
  <2>1. \A k \in 1 .. Len(regions) :
          \E j \in 1 .. Len(zero) + 1 :
            /\ regions[k].start = GapStart(zero, j) /\ regions[k].end = GapEnd(zero, n, j)
            /\ regions[k].size = GapEnd(zero, n, j) - GapStart(zero, j)
            /\ GapStart(zero, j) \in Nat /\ GapEnd(zero, n, j) \in Nat /\ GapEnd(zero, n, j) <= n
            /\ GapEnd(zero, n, j) - GapStart(zero, j) > 0
    BY <1>1, <1>2, <1>3, <1>5, RegionIsGap
  <2>2. \A k \in 1 .. Len(regions) :
          /\ regions[k].size = regions[k].end - regions[k].start
          /\ 0 <= regions[k].start /\ regions[k].end <= Len(data)
          /\ data # <<>> => regions[k].size > 0
    BY <1>1, <2>1
  <2>3. \A k \in 1 .. Len(regions) - 1 : LongEnough(regions[k].end, regions[k + 1].start)
    BY <1>3, <1>5 DEF CutUpTo
  <2>4. ASSUME NEW k \in 1 .. Len(regions),
               NEW s \in regions[k].start .. regions[k].end, NEW e \in regions[k].start .. regions[k].end,
               LongEnough(s, e), AllZero(data, s, e)
        PROVE  FALSE
    <3>1. PICK j \in 1 .. Len(zero) + 1 :
            /\ regions[k].start = GapStart(zero, j) /\ regions[k].end = GapEnd(zero, n, j)
            /\ GapStart(zero, j) \in Nat /\ GapEnd(zero, n, j) \in Nat /\ GapEnd(zero, n, j) <= n
      BY <2>1
    <3>2. /\ s \in 0 .. n /\ e \in 0 .. n
          /\ GapStart(zero, j) <= s /\ e <= GapEnd(zero, n, j)
      BY <1>1, <3>1
    <3>3. s < e
      BY <2>4, <3>2, RegionAssumption DEF LongEnough
    <3>4. PICK l \in 1 .. Len(zero) : zero[l].start <= s /\ e <= zero[l].end
      BY <1>2, <2>4, <3>2 DEF FoundUpTo
    <3>5. /\ Len(zero) \in Nat
          /\ \A i \in 1 .. Len(zero) : zero[i].start \in Nat /\ zero[i].end \in Nat
          /\ \A i, h \in 1 .. Len(zero) : i <= h => zero[i].start <= zero[h].start /\ zero[i].end <= zero[h].end
      BY <1>1, <1>2, FoundFacts
    <3>6. CASE j <= l
      <4>1. j \in 1 .. Len(zero) /\ j # Len(zero) + 1
        BY <3>5, <3>6
      <4>2. GapEnd(zero, n, j) = zero[j].start /\ zero[j].start <= zero[l].start
        BY <3>5, <3>6, <4>1 DEF GapEnd
      <4> QED
        BY <3>2, <3>3, <3>4, <3>5, <4>1, <4>2
    <3>7. CASE l < j
      <4>1. j - 1 \in 1 .. Len(zero) /\ j # 1 /\ l <= j - 1
        BY <3>5, <3>7
      <4>2. GapStart(zero, j) = zero[j - 1].end /\ zero[l].end <= zero[j - 1].end
        BY <3>5, <4>1 DEF GapStart
      <4>3. /\ zero[l].end \in Nat /\ zero[j - 1].end \in Nat /\ s \in Nat /\ e \in Nat
            /\ zero[l].end <= zero[j - 1].end /\ zero[j - 1].end <= s /\ e <= zero[l].end
        BY <3>2, <3>4, <3>5, <4>1, <4>2
      <4> QED
        BY <3>3, <4>3
    <3> QED
      BY <3>5, <3>6, <3>7
  <2>5. \A k \in 1 .. Len(regions) : \A s, e \in regions[k].start .. regions[k].end :
          LongEnough(s, e) => \E i \in s + 1 .. e : data[i] # 0
    BY <2>4 DEF AllZero
  <2> QED
    BY <2>2, <2>3, <2>5 DEF WellCut, regions
<1> QED
  BY <1>4, <1>5

\* A sequence, of whatever.
IsSequence(s) == Len(s) \in Nat /\ s = [i \in 1 .. Len(s) |-> s[i]]

\* The image of the memory is a sequence, and so is the one that is serialised with its regions.
ImageInv ==
  /\ "L2TCMInitState" \in DOMAIN table /\ IsSequence(table.L2TCMInitState)
  /\ metadataBuffer /= NoImage =>
       LET image == metadataBuffer.table.L2TCMInitState
       IN IsSequence(image) /\ metadataBuffer.regions = NonZeroRegions(image)

\* A function of the positions up to a number is a sequence.
LEMMA PositionsMakeSequence ==
  ASSUME NEW n \in Nat, NEW s, s = [i \in 1 .. n |-> s[i]] PROVE IsSequence(s)
<1>1. [i \in 1 .. n |-> s[i]] \in Seq({s[i] : i \in 1 .. n})
  OBVIOUS
<1>2. Len([i \in 1 .. n |-> s[i]]) = n
  OBVIOUS
<1> QED
  BY <1>1, <1>2 DEF IsSequence

\* What a sequence is made of.
LEMMA SequenceOfItself == ASSUME NEW s, IsSequence(s) PROVE s \in Seq({s[i] : i \in 1 .. Len(s)})
<1> DEFINE n == Len(s)
           V == {s[i] : i \in 1 .. n}
<1>1. n \in Nat /\ s = [i \in 1 .. n |-> s[i]]
  BY DEF IsSequence
<1>2. \A i \in 1 .. n : s[i] \in V
  OBVIOUS
<1> HIDE DEF V
<1>3. [i \in 1 .. n |-> s[i]] \in Seq(V)
  BY <1>1, <1>2
<1> QED
  BY <1>1, <1>3 DEF V

\* A new image is empty.
LEMMA ImageInit == MetadataInit => ImageInv
<1> SUFFICES ASSUME MetadataInit PROVE ImageInv
  OBVIOUS
<1>1. table = NewTable /\ metadataBuffer = NoImage
  BY DEF MetadataInit
<1>2. "L2TCMInitState" \in DOMAIN NewTable /\ NewTable.L2TCMInitState = <<>>
  BY DEF NewTable
<1>3. IsSequence(<<>>)
  <2>1. Len(<<>>) = 0 /\ <<>> \in Seq({})
    OBVIOUS
  <2> QED
    BY <2>1 DEF IsSequence
<1> QED
  BY <1>1, <1>2, <1>3 DEF ImageInv

\* The calls that leave the image alone.
LEMMA OtherFieldsKeepImage ==
  ASSUME ImageInv, UNCHANGED metadataBuffer, "L2TCMInitState" \in DOMAIN table',
         table'.L2TCMInitState = table.L2TCMInitState
  PROVE  ImageInv'
  BY DEF ImageInv, IsSequence, NoImage

\* Every call that describes the network keeps the image a sequence.
LEMMA DescribeNetworkKeepsImage == ImageInv /\ DescribeNetwork => ImageInv'
<1> SUFFICES ASSUME ImageInv, DescribeNetwork PROVE ImageInv'
  OBVIOUS
<1>0. UNCHANGED metadataBuffer
  BY DEF DescribeNetwork, SetNumNSPs, SetSizes, SetNetworkName, SetNumSemaphores, InitSemaphore,
     InitL2TCMResize, InitL2TCM, AddNSPMulticastEntry, AddHostMulticastEntry, AddThreadDescriptor,
     AddConstantMapping, AddDMARequest, Both, Call, finals
<1>1. CASE \E n \in NSPCounts : SetNumNSPs(n)
  <2>1. /\ DOMAIN table' = DOMAIN table /\ table'.L2TCMInitState = table.L2TCMInitState
    BY <1>1 DEF SetNumNSPs, ImageInv
  <2> QED
    BY <1>0, <2>1, OtherFieldsKeepImage DEF ImageInv
<1>2. CASE \E s \in SizeChoices : SetSizes(s)
  <2>1. /\ DOMAIN table' = DOMAIN table /\ table'.L2TCMInitState = table.L2TCMInitState
    BY <1>2 DEF SetSizes, ImageInv
  <2> QED
    BY <1>0, <2>1, OtherFieldsKeepImage DEF ImageInv
<1>3. CASE \E n \in NetworkNames : SetNetworkName(n)
  <2>1. /\ DOMAIN table' = DOMAIN table /\ table'.L2TCMInitState = table.L2TCMInitState
    BY <1>3 DEF SetNetworkName, ImageInv
  <2> QED
    BY <1>0, <2>1, OtherFieldsKeepImage DEF ImageInv
<1>4. CASE \E n \in SemaphoreCounts : SetNumSemaphores(n)
  <2>1. /\ DOMAIN table' = DOMAIN table /\ table'.L2TCMInitState = table.L2TCMInitState
    BY <1>4 DEF SetNumSemaphores, ImageInv
  <2> QED
    BY <1>0, <2>1, OtherFieldsKeepImage DEF ImageInv
<1>5. CASE \E i \in 1 .. Len(table.semaphoreInitState), v \in SemaphoreValues : InitSemaphore(i, v)
  <2>1. /\ DOMAIN table' = DOMAIN table /\ table'.L2TCMInitState = table.L2TCMInitState
    BY <1>5 DEF InitSemaphore, ImageInv
  <2> QED
    BY <1>0, <2>1, OtherFieldsKeepImage DEF ImageInv
<1>6. CASE \E n \in ImageSizes : InitL2TCMResize(n)
  <2>1. PICK n \in ImageSizes : InitL2TCMResize(n)
    BY <1>6
  <2>2. /\ DOMAIN table' = DOMAIN table
        /\ table'.L2TCMInitState = Resized(table.L2TCMInitState, n)
    BY <2>1 DEF InitL2TCMResize, ImageInv
  <2>3. n \in Nat
    BY ImageSizesAssumption
  <2> DEFINE s == Resized(table.L2TCMInitState, n)
  <2>4. s = [i \in 1 .. n |-> s[i]]
    BY DEF Resized
  <2> HIDE DEF s
  <2>5. IsSequence(s)
    BY <2>3, <2>4, PositionsMakeSequence
  <2> QED
    BY <1>0, <2>2, <2>5 DEF ImageInv, NoImage, s
<1>7. CASE \E i \in 1 .. Len(table.L2TCMInitState), w \in {<<b>> : b \in Bytes} \union Words : InitL2TCM(i, w)
  <2>1. PICK i \in 1 .. Len(table.L2TCMInitState), w \in {<<b>> : b \in Bytes} \union Words : InitL2TCM(i, w)
    BY <1>7
  <2> DEFINE image == table.L2TCMInitState
             n == Len(image)
             s == [j \in 1 .. n |-> IF j \in i .. i + Len(w) - 1 THEN w[j - i + 1] ELSE image[j]]
  <2>2. /\ DOMAIN table' = DOMAIN table
        /\ table'.L2TCMInitState = s
    BY <2>1 DEF InitL2TCM, ImageInv
  <2>3. n \in Nat
    BY DEF ImageInv, IsSequence
  <2>4. s = [j \in 1 .. n |-> s[j]]
    OBVIOUS
  <2> HIDE DEF s, n
  <2>5. IsSequence(s)
    BY <2>3, <2>4, PositionsMakeSequence
  <2> QED
    BY <1>0, <2>2, <2>5 DEF ImageInv, NoImage
<1>8. CASE \E r \in Requests : AddDMARequest(r)
  <2>1. table' = table
    BY <1>8 DEF AddDMARequest
  <2> QED
    BY <1>0, <2>1, OtherFieldsKeepImage DEF ImageInv
<1>9. CASE \E c \in 1 .. table.numNSPs, e \in NSPEntries : AddNSPMulticastEntry(c, e)
  <2>1. /\ DOMAIN table' = DOMAIN table /\ table'.L2TCMInitState = table.L2TCMInitState
    BY <1>9 DEF AddNSPMulticastEntry, ImageInv
  <2> QED
    BY <1>0, <2>1, OtherFieldsKeepImage DEF ImageInv
<1>10. CASE \E e \in HostEntries : AddHostMulticastEntry(e)
  <2>1. /\ DOMAIN table' = DOMAIN table /\ table'.L2TCMInitState = table.L2TCMInitState
    BY <1>10 DEF AddHostMulticastEntry, ImageInv
  <2> QED
    BY <1>0, <2>1, OtherFieldsKeepImage DEF ImageInv
<1>11. CASE \E t \in Threads : AddThreadDescriptor(t)
  <2>1. /\ DOMAIN table' = DOMAIN table /\ table'.L2TCMInitState = table.L2TCMInitState
    BY <1>11 DEF AddThreadDescriptor, ImageInv
  <2> QED
    BY <1>0, <2>1, OtherFieldsKeepImage DEF ImageInv
<1>12. CASE \E m \in Mappings : AddConstantMapping(m)
  <2>1. /\ DOMAIN table' = DOMAIN table /\ table'.L2TCMInitState = table.L2TCMInitState
    BY <1>12 DEF AddConstantMapping, ImageInv
  <2> QED
    BY <1>0, <2>1, OtherFieldsKeepImage DEF ImageInv
<1> QED
  BY <1>1, <1>2, <1>3, <1>4, <1>5, <1>6, <1>7, <1>8, <1>9, <1>10, <1>11, <1>12 DEF DescribeNetwork

\* Of the calls only the flat form has, one changes the table.
LEMMA DescribeFeaturesKeepsImage == ImageInv /\ DescribeFeatures => ImageInv'
<1> SUFFICES ASSUME ImageInv, DescribeFeatures PROVE ImageInv'
  OBVIOUS
<1>1. UNCHANGED metadataBuffer
  BY DEF DescribeFeatures, SetCacheableConstants, SetNetworkHeapBehavior, AddRequiredField, AddPort,
     SetExecContext, FlatOnly, Call, finals
<1>2. DOMAIN table' = DOMAIN table /\ table'.L2TCMInitState = table.L2TCMInitState
  <2>1. CASE \E p \in Ports : AddPort(p)
    BY <2>1 DEF AddPort, ImageInv
  <2>2. CASE ~\E p \in Ports : AddPort(p)
    BY <2>2 DEF DescribeFeatures, SetCacheableConstants, SetNetworkHeapBehavior, AddRequiredField,
       SetExecContext
  <2> QED
    BY <2>1, <2>2
<1> QED
  BY <1>1, <1>2, OtherFieldsKeepImage DEF ImageInv

\* finalize serialises the image with its regions.
LEMMA FinalizeFlatKeepsImage == ImageInv /\ FinalizeFlat => ImageInv'
<1> SUFFICES ASSUME ImageInv, FinalizeFlat PROVE ImageInv'
  OBVIOUS
<1>1. table' = Named(table)
  BY DEF FinalizeFlat
<1>2. metadataBuffer'.table = Named(table) /\ metadataBuffer'.regions = NonZeroRegions(table.L2TCMInitState)
  BY DEF FinalizeFlat
<1>3. DOMAIN Named(table) = DOMAIN table /\ Named(table).L2TCMInitState = table.L2TCMInitState
  BY DEF Named, ImageInv
<1> QED
  BY <1>1, <1>2, <1>3 DEF ImageInv

\* The image is kept by every step.
LEMMA ImageNext == ImageInv /\ [MetadataNext]_metadataVars => ImageInv'
<1> SUFFICES ASSUME ImageInv, [MetadataNext]_metadataVars PROVE ImageInv'
  OBVIOUS
<1>1. CASE UNCHANGED <<table, metadataBuffer>>
  BY <1>1, OtherFieldsKeepImage DEF ImageInv
<1>2. CASE FinalizeRawMetadata
  BY <1>1, <1>2 DEF FinalizeRawMetadata, flat
<1>3. CASE WriteMetadata
  BY <1>1, <1>3 DEF WriteMetadata, flat, finals
<1>4. CASE LoadFile
  BY <1>1, <1>4 DEF LoadFile, flat, finals
<1>5. CASE \E p \in Platforms : ReadMetadataFlat(p)
  BY <1>1, <1>5 DEF ReadMetadataFlat, flat, finals
<1>6. CASE UNCHANGED metadataVars
  BY <1>1, <1>6 DEF metadataVars, flat, finals
<1> QED
  BY <1>2, <1>3, <1>4, <1>5, <1>6, DescribeNetworkKeepsImage, DescribeFeaturesKeepsImage,
     FinalizeFlatKeepsImage DEF MetadataNext

\* The regions of the metadata reproduce the image.
LEMMA ImageReproduced == ImageInv => RegionsReproduceImage
<1> SUFFICES ASSUME ImageInv, metadataBuffer /= NoImage
             PROVE  LET image == metadataBuffer.table.L2TCMInitState
                    IN /\ Loaded(image, metadataBuffer.regions) = image
                       /\ WellCut(image, metadataBuffer.regions)
  BY DEF RegionsReproduceImage
<1> DEFINE image == metadataBuffer.table.L2TCMInitState
<1>1. IsSequence(image) /\ metadataBuffer.regions = NonZeroRegions(image)
  BY DEF ImageInv
<1> HIDE DEF image
<1>2. image \in Seq({image[i] : i \in 1 .. Len(image)})
  BY <1>1, SequenceOfItself
<1>3. Loaded(image, NonZeroRegions(image)) = image /\ WellCut(image, NonZeroRegions(image))
  BY <1>2, RegionsGiveBackImage, RegionsWellCut
<1> QED
  BY <1>1, <1>3 DEF image

\* Loading the regions of the metadata into cleared memory gives the image they were made from.
THEOREM RegionsAlwaysReproduce == MetadataSpec => []RegionsReproduceImage
<1>1. MetadataInit => ImageInv
  BY ImageInit
<1>2. ImageInv /\ [MetadataNext]_metadataVars => ImageInv'
  BY ImageNext
<1>3. ImageInv => RegionsReproduceImage
  BY ImageReproduced
<1> QED
  BY <1>1, <1>2, <1>3, PTL DEF MetadataSpec

-----------------------------------------------------------------------------
(* The execution context (execContextWriter.hpp, execContext_C_Decoder.h).   *)

\* Four sequences one after the other.
LEMMA FourJoined ==
  ASSUME NEW V, NEW a \in Seq(V), NEW b \in Seq(V), NEW c \in Seq(V), NEW d \in Seq(V)
  PROVE  /\ a \o b \o c \o d \in Seq(V)
         /\ Len(a \o b \o c \o d) = Len(a) + Len(b) + Len(c) + Len(d)
  OBVIOUS

\* The elements of a sequence.
LEMMA ElementsTyped == ASSUME NEW V, NEW s \in Seq(V) PROVE \A i \in 1 .. Len(s) : s[i] \in V
  OBVIOUS

\* The structure has 33 members of one, two, four or eight bytes.
LEMMA SizesFacts == Members = 1 .. 33 /\ \A m \in Members : Sizes[m] \in {1, 2, 4, 8}
<1> DEFINE V == {1, 2, 4, 8}
           a == <<2, 2, 1>>
           b == <<4, 4, 4, 4, 4, 4, 8>>
           c == <<4, 4, 4, 4, 4, 4, 4, 4, 4, 4, 4, 4, 4, 8, 4>>
           d == <<4, 4, 4, 4, 4, 4, 4, 4>>
<1>1. a \in Seq(V) /\ b \in Seq(V) /\ c \in Seq(V) /\ d \in Seq(V)
  OBVIOUS
<1>2. Len(a) = 3 /\ Len(b) = 7 /\ Len(c) = 15 /\ Len(d) = 8
  OBVIOUS
<1>3. Sizes = a \o b \o c \o d
  BY DEF Sizes
<1> HIDE DEF V, a, b, c, d
<1>4. Sizes \in Seq(V) /\ Len(Sizes) = Len(a) + Len(b) + Len(c) + Len(d)
  BY <1>1, <1>3, FourJoined
<1>5. Len(Sizes) = 33
  BY <1>2, <1>4
<1>6. \A m \in 1 .. Len(Sizes) : Sizes[m] \in V
  BY <1>4, ElementsTyped
<1> QED
  BY <1>5, <1>6 DEF Members, V

\* The next multiple of a member's size is not negative.
LEMMA NextMultipleTyped == \A at \in Nat : \A size \in {1, 2, 4, 8} : NextMultiple(at, size) \in Nat
<1> TAKE at \in Nat, size \in {1, 2, 4, 8}
<1>1. CASE size = 1
  BY <1>1 DEF NextMultiple
<1>2. CASE size = 2
  BY <1>2 DEF NextMultiple
<1>3. CASE size = 4
  BY <1>3 DEF NextMultiple
<1>4. CASE size = 8
  BY <1>4 DEF NextMultiple
<1> QED
  BY <1>1, <1>2, <1>3, <1>4

\* Every member has an offset.
LEMMA OffsetsTyped == OffsetOf \in [Members -> Nat]
<1> DEFINE next(v, i) == NextMultiple(v + Sizes[i - 1], Sizes[i])
           step == [x \in Nat \X Nat |-> IF x[2] \in 2 .. 33 THEN next(x[1], x[2]) ELSE 0]
           Solves(f) == f = [m \in Members |-> IF m = 1 THEN 0
                                               ELSE NextMultiple(f[m - 1] + Sizes[m - 1], Sizes[m])]
<1>1. \A v \in Nat : \A i \in 2 .. 33 : next(v, i) \in Nat
  <2> TAKE v \in Nat, i \in 2 .. 33
  <2>1. Sizes[i] \in {1, 2, 4, 8} /\ Sizes[i - 1] \in Nat
    BY SizesFacts
  <2>2. v + Sizes[i - 1] \in Nat
    BY <2>1
  <2> QED
    BY <2>1, <2>2, NextMultipleTyped
<1> HIDE DEF next
<1>2. step \in [Nat \X Nat -> Nat]
  BY <1>1
<1>3. \A v \in Nat : \A i \in 2 .. 33 : step[<<v, i>>] = next(v, i)
  OBVIOUS
<1> HIDE DEF step
<1>4. PICK g \in [1 .. 33 -> Nat] : DefinedBy(g, 33, 0, step)
  <2>1. 33 \in Nat /\ 33 > 0 /\ 0 \in Nat
    OBVIOUS
  <2> QED
    BY <1>2, <2>1, Recursion
<1>5. \A m \in 1 .. 33 : g[m] = IF m = 1 THEN 0 ELSE NextMultiple(g[m - 1] + Sizes[m - 1], Sizes[m])
  <2> TAKE m \in 1 .. 33
  <2>1. CASE m = 1
    BY <1>4, <2>1 DEF DefinedBy
  <2>2. CASE m # 1
    <3>1. m \in 2 .. 33 /\ m - 1 \in 1 .. 33
      BY <2>2
    <3> QED
      BY <1>3, <1>4, <2>2, <3>1 DEF DefinedBy, next
  <2> QED
    BY <2>1, <2>2
<1>6. Solves(g)
  BY <1>5, SizesFacts
<1>7. ASSUME NEW f, Solves(f) PROVE f \in [Members -> Nat]
  <2> DEFINE S == {m \in Nat : f[m] \in Nat}
  <2>1. \A m \in 1 .. 33 : f[m] = IF m = 1 THEN 0 ELSE next(f[m - 1], m)
    BY <1>7, SizesFacts DEF next
  <2>2. 33 \in Nat /\ 1 \in 1 .. 33 /\ \A m \in 2 .. 33 : m \in 1 .. 33 /\ m # 1 /\ m \in Nat
    OBVIOUS
  <2>3. 1 \in S
    BY <2>1, <2>2
  <2>4. ASSUME NEW m \in 2 .. 33, m - 1 \in S PROVE m \in S
    <3>1. next(f[m - 1], m) \in Nat
      BY <1>1, <2>4
    <3> QED
      BY <2>1, <2>2, <3>1
  <2> HIDE DEF S
  <2>5. 1 .. 33 \subseteq S
    BY <2>2, <2>3, <2>4, UpTo
  <2>6. \A m \in Members : f[m] \in Nat
    BY <2>5, SizesFacts DEF S
  <2>7. f = [m \in Members |-> f[m]]
    BY <1>7
  <2> QED
    BY <2>6, <2>7
<1>8. Solves(CHOOSE f : Solves(f))
  BY <1>6
<1>9. ASSUME NEW f, f = (CHOOSE h : Solves(h)) PROVE OffsetOf = [m \in Members |-> f[m]]
  BY <1>9 DEF OffsetOf
<1> HIDE DEF Solves
<1>10. OffsetOf = [m \in Members |-> (CHOOSE f : Solves(f))[m]]
  BY <1>9
<1>11. (CHOOSE f : Solves(f)) \in [Members -> Nat]
  BY <1>7, <1>8
<1> QED
  BY <1>10, <1>11

\* Each section asks for members of the structure.
LEMMA SectionMembersTyped == \A s \in Sections : SectionMembers(s) \in Seq(Members)
<1> DEFINE from(first, n) == [i \in 1 .. n |-> first + i - 1]
<1>1. ASSUME NEW first \in Nat, NEW n \in Nat, first > 0, first + n <= 34
      PROVE  from(first, n) \in Seq(Members)
  <2>1. \A i \in 1 .. n : first + i - 1 \in 1 .. 33
    BY <1>1
  <2>2. from(first, n) \in [1 .. n -> 1 .. 33]
    BY <2>1
  <2> QED
    BY <2>2, FunctionIsSeq, SizesFacts
<1>2. /\ from(1, 3) \in Seq(Members) /\ from(4, 7) \in Seq(Members)
      /\ from(11, 15) \in Seq(Members) /\ from(26, 8) \in Seq(Members)
  <2> HIDE DEF from
  <2>1. from(1, 3) \in Seq(Members)
    BY <1>1
  <2>2. from(4, 7) \in Seq(Members)
    BY <1>1
  <2>3. from(11, 15) \in Seq(Members)
    BY <1>1
  <2>4. from(26, 8) \in Seq(Members)
    BY <1>1
  <2> QED
    BY <2>1, <2>2, <2>3, <2>4
<1>3. /\ SectionMembers("Version") = from(1, 3) /\ SectionMembers("VirtualAddresses") = from(4, 7)
      /\ SectionMembers("NNCfp") = from(11, 15) /\ SectionMembers("RTLDapi") = from(26, 8)
  BY DEF SectionMembers
<1> HIDE DEF from
<1> QED
  BY <1>2, <1>3 DEF Sections

\* So does every use of a writer.
LEMMA UsedMembersTyped == \A sections \in Seq(Sections) : UsedMembers(sections) \in Seq(Members)
<1> TAKE sections \in Seq(Sections)
<1> DEFINE s == [i \in DOMAIN sections |-> SectionMembers(sections[i])]
           n == Len(sections)
<1>1. n \in Nat /\ DOMAIN sections = 1 .. n /\ \A i \in 1 .. n : sections[i] \in Sections
  OBVIOUS
<1>2. s \in [1 .. n -> Seq(Members)]
  BY <1>1, SectionMembersTyped
<1>3. UsedMembers(sections) = FlattenSeq(s)
  BY DEF UsedMembers
<1> HIDE DEF n, s
<1>4. s \in Seq(Seq(Members)) /\ Len(s) = n
  BY <1>1, <1>2, FunctionIsSeq
<1>5. CASE s # <<>>
  <2>1. Len(s) \in 1 .. Len(s)
    BY <1>4, <1>5
  <2>2. PICK g \in [1 .. Len(s) -> Seq(Members)] : FlattenSeq(s) = g[Len(s)]
    BY <1>4, <1>5, FlattenDef
  <2> QED
    BY <1>3, <2>1, <2>2
<1>6. CASE s = <<>>
  <2>1. FlattenSeq(<<>>) = <<>> /\ <<>> \in Seq(Members)
    BY DEF FlattenSeq
  <2> QED
    BY <1>3, <1>6, <2>1
<1> QED
  BY <1>5, <1>6

\* Fields as they are made by the writer, inside the size.
FieldType == [variable : Members, size : Nat, offset : Nat, isRequired : {"required"}]
ContextType == [fields : Seq(FieldType), maxsize : Nat]
WithinSize(c) == \A i \in 1 .. Len(c.fields) : c.fields[i].offset + c.fields[i].size <= c.maxsize

\* What addUsedElement makes.
LEMMA FieldTyped ==
  \A m \in Members : /\ Field(m) \in FieldType /\ Field(m).offset = OffsetOf[m] /\ Field(m).size = Sizes[m]
                     /\ OffsetOf[m] \in Nat /\ Sizes[m] \in Nat
<1> TAKE m \in Members
<1>1. OffsetOf[m] \in Nat
  BY OffsetsTyped
<1>2. Sizes[m] \in Nat
  <2>1. {1, 2, 4, 8} \subseteq Nat
    OBVIOUS
  <2> QED
    BY <2>1, SizesFacts
<1> QED
  BY <1>1, <1>2 DEF Field, FieldType

\* A member added to fields that are inside the size.
LEMMA AddKeepsWithin ==
  ASSUME NEW c \in ContextType, NEW m \in Members
  PROVE  /\ AddUsedElement(c, m) \in ContextType
         /\ WithinSize(c) => WithinSize(AddUsedElement(c, m))
<1> DEFINE f == Field(m)
           n == Len(c.fields)
           new == AddUsedElement(c, m)
<1>1. /\ f \in FieldType /\ f.offset = OffsetOf[m] /\ f.size = Sizes[m]
      /\ OffsetOf[m] \in Nat /\ Sizes[m] \in Nat
  BY FieldTyped
<1>2. c.fields \in Seq(FieldType) /\ c.maxsize \in Nat /\ n \in Nat
  BY DEF ContextType
<1>3. /\ new.fields = Append(c.fields, f)
      /\ new.maxsize = IF OffsetOf[m] + Sizes[m] > c.maxsize THEN OffsetOf[m] + Sizes[m] ELSE c.maxsize
      /\ new = [fields |-> new.fields, maxsize |-> new.maxsize]
  BY DEF AddUsedElement
<1> HIDE DEF f, new
<1>4. new.maxsize \in Nat /\ c.maxsize <= new.maxsize /\ OffsetOf[m] + Sizes[m] <= new.maxsize
  BY <1>1, <1>2, <1>3
<1>5. /\ new.fields \in Seq(FieldType) /\ Len(new.fields) = n + 1 /\ new.fields[n + 1] = f
      /\ \A i \in 1 .. n : new.fields[i] = c.fields[i]
  BY <1>1, <1>2, <1>3
<1>6. new \in ContextType
  BY <1>3, <1>4, <1>5 DEF ContextType
<1>7. ASSUME WithinSize(c) PROVE WithinSize(new)
  <2> SUFFICES ASSUME NEW i \in 1 .. n + 1 PROVE new.fields[i].offset + new.fields[i].size <= new.maxsize
    BY <1>5 DEF WithinSize
  <2>1. CASE i = n + 1
    BY <1>1, <1>4, <1>5, <2>1
  <2>2. CASE i # n + 1
    <3>1. i \in 1 .. n
      BY <1>2, <2>2
    <3>2. c.fields[i].offset \in Nat /\ c.fields[i].size \in Nat
      <4>1. c.fields[i] \in FieldType
        BY <1>2, <3>1, ElementsTyped
      <4> QED
        BY <4>1 DEF FieldType
    <3>3. c.fields[i].offset + c.fields[i].size <= c.maxsize
      BY <1>7, <3>1 DEF WithinSize
    <3>4. new.fields[i] = c.fields[i]
      BY <1>5, <3>1
    <3> HIDE DEF n
    <3>5. c.fields[i].offset + c.fields[i].size <= new.maxsize
      BY <1>2, <1>4, <3>2, <3>3
    <3> QED
      BY <3>4, <3>5
  <2> QED
    BY <2>1, <2>2
<1> QED
  BY <1>6, <1>7 DEF new

\* The contexts a writer goes through, by recursion.
ContextsOf(used) ==
  CHOOSE c : c = [i \in 0 .. Len(used) |-> IF i = 0 THEN NewContext ELSE AddUsedElement(c[i - 1], used[i])]

\* The last of them has fields of the structure, inside the size.
LEMMA LastContext ==
  ASSUME NEW used \in Seq(Members)
  PROVE  /\ ContextsOf(used)[Len(used)] \in ContextType
         /\ WithinSize(ContextsOf(used)[Len(used)])
<1> DEFINE n == Len(used)
           step == [x \in ContextType \X Nat |->
                      IF x[2] \in 1 .. n THEN AddUsedElement(x[1], used[x[2]]) ELSE x[1]]
           Solves(f) == f = [i \in 0 .. n |-> IF i = 0 THEN NewContext ELSE AddUsedElement(f[i - 1], used[i])]
<1>1. n \in Nat /\ \A i \in 1 .. n : used[i] \in Members
  OBVIOUS
<1>2. NewContext \in ContextType /\ WithinSize(NewContext)
  <2>1. NewContext.fields = <<>> /\ NewContext.maxsize = 0 /\ <<>> \in Seq(FieldType) /\ Len(<<>>) = 0
    BY DEF NewContext
  <2>2. NewContext \in ContextType
    BY <2>1 DEF NewContext, ContextType
  <2> QED
    BY <2>1, <2>2 DEF WithinSize
<1> HIDE DEF n
<1>3. step \in [ContextType \X Nat -> ContextType]
  <2>1. ASSUME NEW x \in ContextType \X Nat
        PROVE  (IF x[2] \in 1 .. n THEN AddUsedElement(x[1], used[x[2]]) ELSE x[1]) \in ContextType
    BY <1>1, AddKeepsWithin
  <2> QED
    BY <2>1
<1>4. ASSUME NEW c \in ContextType, NEW i \in 1 .. n PROVE step[<<c, i>>] = AddUsedElement(c, used[i])
  <2>1. <<c, i>> \in ContextType \X Nat
    BY <1>1
  <2> QED
    BY <2>1
<1> HIDE DEF step
<1>5. PICK g \in [0 .. n -> ContextType] : DefinedFromZero(g, n, NewContext, step)
  BY <1>1, <1>2, <1>3, RecursionFromZero
<1>6. \A i \in 0 .. n : g[i] = IF i = 0 THEN NewContext ELSE AddUsedElement(g[i - 1], used[i])
  <2> TAKE i \in 0 .. n
  <2>1. CASE i = 0
    BY <1>5, <2>1 DEF DefinedFromZero
  <2>2. CASE i # 0
    <3>1. i \in 1 .. n /\ i - 1 \in 0 .. n
      BY <1>1, <2>2
    <3>2. g[i] = step[<<g[i - 1], i>>] /\ g[i - 1] \in ContextType
      BY <1>5, <3>1 DEF DefinedFromZero
    <3> QED
      BY <1>4, <2>2, <3>1, <3>2
  <2> QED
    BY <2>1, <2>2
<1>7. Solves(g)
  BY <1>6
<1>8. ASSUME NEW f, Solves(f) PROVE f[n] \in ContextType /\ WithinSize(f[n])
  <2> DEFINE S == {i \in Nat : f[i] \in ContextType /\ WithinSize(f[i])}
  <2>1. \A i \in 0 .. n : f[i] = IF i = 0 THEN NewContext ELSE AddUsedElement(f[i - 1], used[i])
    BY <1>8
  <2>2. 0 \in 0 .. n /\ n \in 0 .. n /\ \A i \in 1 .. n : i \in 0 .. n /\ i # 0 /\ i \in Nat
    BY <1>1
  <2>3. 0 \in S
    BY <1>2, <2>1, <2>2
  <2>4. ASSUME NEW i \in 1 .. n, i - 1 \in S PROVE i \in S
    <3>1. f[i] = AddUsedElement(f[i - 1], used[i])
      BY <2>1, <2>2
    <3>2. f[i - 1] \in ContextType /\ WithinSize(f[i - 1]) /\ used[i] \in Members
      BY <1>1, <2>4
    <3>3. f[i] \in ContextType /\ WithinSize(f[i])
      BY <3>1, <3>2, AddKeepsWithin
    <3> QED
      BY <2>2, <3>3
  <2> HIDE DEF S
  <2>5. 0 .. n \subseteq S
    BY <1>1, <2>3, <2>4, FromZero
  <2> QED
    BY <2>2, <2>5 DEF S
<1>9. Solves(CHOOSE f : Solves(f))
  BY <1>7
<1>10. (CHOOSE f : Solves(f)) = ContextsOf(used)
  BY DEF ContextsOf, n
<1> HIDE DEF Solves
<1> QED
  BY <1>8, <1>9, <1>10 DEF n

\* The bytes of a writer: required fields of the structure, inside the size.
LEMMA ContextBytesFacts ==
  ASSUME NEW sections \in Seq(Sections)
  PROVE  LET info == ContextBytes(sections)
         IN /\ info.fields \in Seq(FieldType)
            /\ Fillable(info)
<1> DEFINE used == UsedMembers(sections)
           end == ContextsOf(used)[Len(used)]
<1>1. end \in ContextType /\ WithinSize(end)
  BY UsedMembersTyped, LastContext
<1>2. ContextBytes(sections) = [execContextSize |-> end.maxsize, fields |-> end.fields]
  BY DEF ContextBytes, ContextsOf
<1> HIDE DEF end
<1>3. ContextBytes(sections).execContextSize = end.maxsize /\ ContextBytes(sections).fields = end.fields
  BY <1>2
<1> QED
  BY <1>1, <1>3 DEF ContextType, WithinSize, Fillable

\* A complete image holds the bytes of a writer.
ContextImage(image) == image.is = "flat" => image.execContext \in Seq(Sections)

\* Whoever loaded a context loaded the one it holds.
LoadedFits ==
  (verdict.result = "accepted" /\ verdict.context = "success") =>
    /\ held.is = "flat"
    /\ LoadExecContext(ContextBytes(held.execContext), verdict.platform.members) = "success"

\* A context is always that of a writer; where it was loaded, all it asks for was known.
ContextInv ==
  /\ execContext \in Seq(Sections)
  /\ ContextImage(metadataBuffer) /\ ContextImage(file) /\ ContextImage(held)
  /\ LoadedFits

\* At first there is no context.
LEMMA ContextInit == MetadataInit => ContextInv
<1> SUFFICES ASSUME MetadataInit PROVE ContextInv
  OBVIOUS
<1>1. <<>> \in Seq(Sections)
  OBVIOUS
<1>2. /\ execContext = <<>> /\ verdict.result = "none"
      /\ metadataBuffer.is = "none" /\ file.is = "none" /\ held.is = "none"
  BY DEF MetadataInit, NoContext, NoImage, NoVerdict
<1> QED
  BY <1>1, <1>2 DEF ContextInv, ContextImage, LoadedFits

\* Steps that touch neither the context nor an image.
LEMMA OtherCallsKeepContext ==
  ContextInv /\ UNCHANGED <<execContext, metadataBuffer, reader>> => ContextInv'
<1> SUFFICES ASSUME ContextInv, UNCHANGED <<execContext, metadataBuffer, reader>> PROVE ContextInv'
  OBVIOUS
<1> QED
  BY DEF ContextInv, ContextImage, LoadedFits, reader

\* Describing the network does not touch it.
LEMMA DescribeNetworkKeepsContext == ContextInv /\ DescribeNetwork => ContextInv'
  BY OtherCallsKeepContext DEF DescribeNetwork, SetNumNSPs, SetSizes, SetNetworkName, SetNumSemaphores,
     InitSemaphore, InitL2TCMResize, InitL2TCM, AddNSPMulticastEntry, AddHostMulticastEntry,
     AddThreadDescriptor, AddConstantMapping, AddDMARequest, Both, Call, finals, features

\* A caller hands over the bytes of a writer.
LEMMA DescribeFeaturesKeepsContext == ContextInv /\ DescribeFeatures => ContextInv'
<1> SUFFICES ASSUME ContextInv, DescribeFeatures PROVE ContextInv'
  OBVIOUS
<1>1. UNCHANGED <<metadataBuffer, reader>>
  BY DEF DescribeFeatures, SetCacheableConstants, SetNetworkHeapBehavior, AddRequiredField, AddPort,
     SetExecContext, FlatOnly, Call, finals
<1>2. execContext' \in Seq(Sections)
  <2>1. CASE \E s \in SectionOrders : SetExecContext(s)
    BY <2>1, SectionsAssumption DEF SetExecContext
  <2>2. CASE ~\E s \in SectionOrders : SetExecContext(s)
    BY <2>2 DEF ContextInv, DescribeFeatures, SetCacheableConstants, SetNetworkHeapBehavior,
       AddRequiredField, AddPort
  <2> QED
    BY <2>1, <2>2
<1> QED
  BY <1>1, <1>2 DEF ContextInv, ContextImage, LoadedFits, reader

\* finalize serialises the context, or that of a writer of every section.
LEMMA FinalizeFlatKeepsContext == ContextInv /\ FinalizeFlat => ContextInv'
<1> SUFFICES ASSUME ContextInv, FinalizeFlat PROVE ContextInv'
  OBVIOUS
<1>1. DefaultSections \in Seq(Sections)
  BY DEF DefaultSections, Sections
<1>2. execContext' = ContextOrDefault /\ metadataBuffer'.execContext = ContextOrDefault
      /\ UNCHANGED reader
  BY DEF FinalizeFlat
<1>3. ContextOrDefault \in Seq(Sections)
  BY <1>1 DEF ContextOrDefault, ContextInv
<1> QED
  BY <1>2, <1>3 DEF ContextInv, ContextImage, LoadedFits, reader

\* A file is the image, or cut.
LEMMA WriteMetadataKeepsContext == ContextInv /\ WriteMetadata => ContextInv'
<1> SUFFICES ASSUME ContextInv, WriteMetadata PROVE ContextInv'
  OBVIOUS
<1>1. UNCHANGED <<execContext, metadataBuffer, held, verdict>>
  BY DEF WriteMetadata, flat, features, finals
<1>2. ContextImage(file')
  BY DEF WriteMetadata, ContextInv, ContextImage
<1> QED
  BY <1>1, <1>2 DEF ContextInv, ContextImage, LoadedFits

\* Loading a file forgets what became of the one before.
LEMMA LoadFileKeepsContext == ContextInv /\ LoadFile => ContextInv'
<1> SUFFICES ASSUME ContextInv, LoadFile PROVE ContextInv'
  OBVIOUS
<1>1. UNCHANGED <<execContext, metadataBuffer, file>> /\ held' = file /\ verdict'.result = "none"
  BY DEF LoadFile, NoVerdict, flat, features, finals
<1> QED
  BY <1>1 DEF ContextInv, ContextImage, LoadedFits

\* A context counts as loaded only if the load of the one held succeeded.
LEMMA ReadMetadataFlatKeepsContext == \A p \in Platforms : ContextInv /\ ReadMetadataFlat(p) => ContextInv'
<1> SUFFICES ASSUME NEW p \in Platforms, ContextInv, ReadMetadataFlat(p) PROVE ContextInv'
  OBVIOUS
<1>1. UNCHANGED <<execContext, metadataBuffer, file>> /\ held' = Stripped(held)
  BY DEF ReadMetadataFlat, flat, features, finals
<1>2. ASSUME held.is = "flat"
      PROVE  Stripped(held).is = "flat" /\ Stripped(held).execContext = held.execContext
  BY <1>2 DEF Stripped
<1>3. held.is # "flat" => Stripped(held) = held
  BY DEF Stripped
<1>4. ASSUME verdict'.result = "accepted", verdict'.context = "success"
      PROVE  /\ held.is = "flat"
             /\ LoadExecContext(ContextBytes(held.execContext), verdict'.platform.members) = "success"
  <2>1. CASE held.is /= "flat"
    <3>1. verdict' = [result |-> "failed to verify", platform |-> p]
      BY <2>1 DEF ReadMetadataFlat
    <3> QED
      BY <3>1, <1>4
  <2>2. CASE held.is = "flat" /\ ~Compatible(held, p)
    <3>1. verdict' = [result |-> "incompatible", platform |-> p]
      BY <2>2 DEF ReadMetadataFlat
    <3> QED
      BY <3>1, <1>4
  <2>3. CASE held.is = "flat" /\ Compatible(held, p)
    <3> DEFINE load == LoadExecContext(ContextBytes(held.execContext), p.members)
    <3>1. PICK c \in {load, "no memory"} : verdict' = [result |-> "accepted", platform |-> p, context |-> c]
      BY <2>3 DEF ReadMetadataFlat
    <3> HIDE DEF load
    <3>2. verdict'.platform = p /\ verdict'.context = c
      BY <3>1
    <3>3. c = load
      BY <1>4, <3>2
    <3>4. load = "success"
      BY <1>4, <3>2, <3>3
    <3> QED
      BY <2>3, <3>2, <3>4 DEF load
  <2> QED
    BY <2>1, <2>2, <2>3
<1>5. LoadedFits'
  BY <1>1, <1>2, <1>4 DEF LoadedFits
<1>6. ContextImage(held')
  BY <1>1, <1>2, <1>3 DEF ContextInv, ContextImage
<1> QED
  BY <1>1, <1>5, <1>6 DEF ContextInv, ContextImage

\* The invariant is kept by every step.
LEMMA ContextNext == ContextInv /\ [MetadataNext]_metadataVars => ContextInv'
<1> SUFFICES ASSUME ContextInv, [MetadataNext]_metadataVars PROVE ContextInv'
  OBVIOUS
<1>1. CASE FinalizeRawMetadata
  BY <1>1, OtherCallsKeepContext DEF FinalizeRawMetadata, flat, features
<1>2. CASE UNCHANGED metadataVars
  BY <1>2, OtherCallsKeepContext DEF metadataVars, flat, features, finals
<1> QED
  BY <1>1, <1>2, DescribeNetworkKeepsContext, DescribeFeaturesKeepsContext, FinalizeFlatKeepsContext,
     WriteMetadataKeepsContext, LoadFileKeepsContext, ReadMetadataFlatKeepsContext DEF MetadataNext

\* A context that was loaded can be filled.
LEMMA ContextFilled == ContextInv => ExecContextFits
<1> SUFFICES ASSUME ContextInv, verdict.result = "accepted", verdict.context = "success"
             PROVE  LET info == ContextBytes(held.execContext)
                    IN /\ Fillable(info)
                       /\ \A i \in 1 .. Len(info.fields) :
                            info.fields[i].variable \in verdict.platform.members
  BY DEF ExecContextFits
<1> DEFINE info == ContextBytes(held.execContext)
<1>1. held.execContext \in Seq(Sections) /\ LoadExecContext(info, verdict.platform.members) = "success"
  BY DEF ContextInv, ContextImage, LoadedFits
<1>2. info.fields \in Seq(FieldType) /\ Fillable(info)
  BY <1>1, ContextBytesFacts
<1> HIDE DEF info
<1>3. ASSUME NEW i \in 1 .. Len(info.fields) PROVE info.fields[i].variable \in verdict.platform.members
  <2>1. info.fields[i] \in FieldType
    BY <1>2, ElementsTyped
  <2>2. info.fields[i].isRequired = "required"
    BY <2>1 DEF FieldType
  <2>3. "error" # "success"
    OBVIOUS
  <2> QED
    BY <1>1, <2>2, <2>3 DEF LoadExecContext
<1> QED
  BY <1>2, <1>3 DEF info

\* A device that loads the execution context knows every member it is asked for and has room for it.
THEOREM ExecContextAlwaysFits == MetadataSpec => []ExecContextFits
<1>1. MetadataInit => ContextInv
  BY ContextInit
<1>2. ContextInv /\ [MetadataNext]_metadataVars => ContextInv'
  BY ContextNext
<1>3. ContextInv => ExecContextFits
  BY ContextFilled
<1> QED
  BY <1>1, <1>2, <1>3, PTL DEF MetadataSpec

-----------------------------------------------------------------------------
(* Metadata as a structure: what is written in its buffer stays there.     *)

\* The types of the objects a structure is made of, but for names.
ArrayTypes == {"header", "word", "byte", "semaphoreOp", "doorbellOp", "request", "nspEntry", "table",
               "hostEntry", "thread", "mapping"}

\* Their bytes, and their alignments.
LEMMA BytesOfTypes ==
  ASSUME NEW type \in ArrayTypes \union {"name"}
  PROVE  SizeOf[type] \in Nat \ {0} /\ AlignOf[type] \in {1, 2, 4, 8}
<1>1. /\ SizeOf["header"] = 160 /\ SizeOf["word"] = 4 /\ SizeOf["byte"] = 1 /\ SizeOf["semaphoreOp"] = 8
      /\ SizeOf["doorbellOp"] = 16 /\ SizeOf["request"] = 48 /\ SizeOf["nspEntry"] = 24
      /\ SizeOf["table"] = 16 /\ SizeOf["hostEntry"] = 8 /\ SizeOf["thread"] = 16 /\ SizeOf["mapping"] = 16
      /\ SizeOf["name"] = NameBytes
  BY DEF SizeOf
<1>2. /\ AlignOf["header"] = 8 /\ AlignOf["word"] = 4 /\ AlignOf["byte"] = 1 /\ AlignOf["semaphoreOp"] = 2
      /\ AlignOf["doorbellOp"] = 8 /\ AlignOf["request"] = 8 /\ AlignOf["nspEntry"] = 8
      /\ AlignOf["table"] = 8 /\ AlignOf["hostEntry"] = 4 /\ AlignOf["thread"] = 8 /\ AlignOf["mapping"] = 8
      /\ AlignOf["name"] = 1
  BY DEF AlignOf
<1>3. SizeOf[type] \in Nat \ {0}
  BY <1>1, SizesAssumption DEF ArrayTypes
<1>4. AlignOf[type] \in {1, 2, 4, 8}
  BY <1>2 DEF ArrayTypes
<1> QED
  BY <1>3, <1>4

\* Aligning goes up.
LEMMA AlignsUp ==
  ASSUME NEW x \in Nat, NEW m \in {1, 2, 4, 8}
  PROVE  AlignTo(x, m) \in Nat /\ x <= AlignTo(x, m)
  BY DEF AlignTo

\* Where the elements of an array start: apart, in order and in the array.
LEMMA Places ==
  ASSUME NEW s \in Nat \ {0}, NEW at \in Nat, NEW n \in Nat, NEW i \in 1 .. n
  PROVE  /\ at + (i - 1) * s \in Nat /\ at <= at + (i - 1) * s /\ at + (i - 1) * s < at + n * s
         /\ (at + (i - 1) * s - at) \div s + 1 = i
<1>1. i - 1 \in Nat /\ (i - 1) * s \in Nat
  OBVIOUS
<1>2. at + (i - 1) * s < at + n * s
  OBVIOUS
<1>3. ((i - 1) * s) \div s = i - 1
  <2> DEFINE k == i - 1
  <2>1. ASSUME NEW m \in Nat PROVE (m * s) \div s = m
    OBVIOUS
  <2> QED
    BY <1>1, <2>1
<1>4. at + (i - 1) * s - at = (i - 1) * s
  BY <1>1
<1> QED
  BY <1>1, <1>2, <1>3, <1>4

\* A buffer: all objects start inside.
BufferOK(buf) ==
  /\ DOMAIN buf = {"size", "cells", "at"}
  /\ buf.size \in Nat /\ buf.at \in Nat
  /\ \A o \in DOMAIN buf.cells : o \in Nat /\ o < buf.size

\* What a buffer holds behind its start stays in one that was written after it.
Grows(old, new) ==
  /\ old.size <= new.size
  /\ \A o \in DOMAIN old.cells \ {0} : o \in DOMAIN new.cells /\ new.cells[o] = old.cells[o]

\* An array stands in a buffer, behind the structure at its start.
Holds(buf, type, at, elts) ==
  \A i \in 1 .. Len(elts) :
    LET o == at + (i - 1) * SizeOf[type]
    IN o \in Nat \ {0} /\ o \in DOMAIN buf.cells /\ buf.cells[o] = [type |-> type, val |-> elts[i]]

\* Growing adds up.
LEMMA GrowsOn ==
  ASSUME NEW a, NEW b, NEW c, BufferOK(a), BufferOK(b), BufferOK(c), Grows(a, b), Grows(b, c)
  PROVE  Grows(a, c)
<1>1. a.size \in Nat /\ b.size \in Nat /\ c.size \in Nat /\ a.size <= b.size /\ b.size <= c.size
  BY DEF BufferOK, Grows
<1> QED
  BY <1>1 DEF Grows

\* A buffer grows not at all.
LEMMA GrowsNot ==
  ASSUME NEW a, BufferOK(a) PROVE Grows(a, a)
  BY DEF Grows, BufferOK

\* What is held is held on.
LEMMA HoldsOn ==
  ASSUME NEW a, NEW b, Grows(a, b), NEW type, NEW at, NEW elts, Holds(a, type, at, elts)
  PROVE  Holds(b, type, at, elts)
  BY DEF Grows, Holds

\* Writing an array (AICMetadataWriter::write).
LEMMA WriteHolds ==
  ASSUME NEW buf, BufferOK(buf), NEW type \in ArrayTypes \union {"name"}, NEW elts, Len(elts) \in Nat
  PROVE  LET new == Write(buf, type, elts)
         IN /\ BufferOK(new) /\ Grows(buf, new) /\ buf.size <= new.at
            /\ new.size = new.at + Len(elts) * SizeOf[type]
            /\ buf.size > 0 => Holds(new, type, new.at, elts)
            /\ \A i \in 1 .. Len(elts) :
                 LET o == new.at + (i - 1) * SizeOf[type]
                 IN o \in DOMAIN new.cells /\ new.cells[o] = [type |-> type, val |-> elts[i]]
<1> DEFINE n == Len(elts)
           s == SizeOf[type]
           at == AlignTo(buf.size, AlignOf[type])
           place(i) == at + (i - 1) * s
           written == [o \in {place(i) : i \in 1 .. n} |->
                         [type |-> type, val |-> elts[((o - at) \div s) + 1]]]
           new == Write(buf, type, elts)
<1>1. s \in Nat \ {0} /\ n \in Nat
  BY BytesOfTypes
<1>2. at \in Nat /\ buf.size \in Nat /\ buf.size <= at
  BY BytesOfTypes, AlignsUp DEF BufferOK
<1>3. new = [size |-> at + n * s, cells |-> Over(written, buf.cells), at |-> at]
  BY DEF Write
<1> HIDE DEF n, s, at, new
<1>4. \A i \in 1 .. n : /\ place(i) \in Nat /\ at <= place(i) /\ place(i) < at + n * s
                        /\ (place(i) - at) \div s + 1 = i
  BY <1>1, <1>2, Places
<1>5. at + n * s \in Nat /\ at <= at + n * s
  BY <1>1, <1>2
<1> HIDE DEF place
<1>6. DOMAIN written = {place(i) : i \in 1 .. n}
  OBVIOUS
<1>7. \A i \in 1 .. n : written[place(i)] = [type |-> type, val |-> elts[i]]
  <2> SUFFICES ASSUME NEW i \in 1 .. n PROVE written[place(i)] = [type |-> type, val |-> elts[i]]
    OBVIOUS
  <2>1. written[place(i)] = [type |-> type, val |-> elts[((place(i) - at) \div s) + 1]]
    OBVIOUS
  <2>2. (place(i) - at) \div s + 1 = i
    BY <1>4
  <2> QED
    BY <2>1, <2>2
<1> HIDE DEF written
<1>8. /\ DOMAIN new = {"size", "cells", "at"}
      /\ new.size = at + n * s /\ new.at = at /\ new.cells = Over(written, buf.cells)
  BY <1>3
<1>9. /\ DOMAIN new.cells = DOMAIN written \union DOMAIN buf.cells
      /\ \A o \in DOMAIN new.cells : new.cells[o] = IF o \in DOMAIN written THEN written[o] ELSE buf.cells[o]
  BY <1>8 DEF Over
<1>10. BufferOK(new)
  <2>1. ASSUME NEW o \in DOMAIN new.cells PROVE o \in Nat /\ o < new.size
    <3>1. CASE o \in DOMAIN written
      BY <1>4, <1>6, <1>8, <3>1
    <3>2. CASE o \in DOMAIN buf.cells
      BY <1>2, <1>5, <1>8, <3>2 DEF BufferOK
    <3> QED
      BY <1>9, <3>1, <3>2
  <2> QED
    BY <1>2, <1>5, <1>8, <2>1 DEF BufferOK
<1>11. Grows(buf, new)
  <2>1. ASSUME NEW o \in DOMAIN buf.cells PROVE o \in DOMAIN new.cells /\ new.cells[o] = buf.cells[o]
    <3>1. o \in Nat /\ o < at
      BY <1>2 DEF BufferOK
    <3>2. o \notin DOMAIN written
      BY <1>2, <1>4, <1>6, <3>1
    <3> QED
      BY <1>9, <3>2
  <2> QED
    BY <1>2, <1>5, <1>8, <2>1 DEF Grows
<1>12. \A i \in 1 .. n : place(i) \in DOMAIN new.cells /\ new.cells[place(i)] = [type |-> type, val |-> elts[i]]
  BY <1>6, <1>7, <1>9
<1>13. ASSUME buf.size > 0 PROVE \A i \in 1 .. n : place(i) \in Nat \ {0}
  BY <1>2, <1>4, <1>13
<1> QED
  BY <1>2, <1>8, <1>10, <1>11, <1>12, <1>13 DEF Holds, n, s, place, new

\* A buffer that starts with a structure.
Full(buf) == BufferOK(buf) /\ buf.size > 0

\* Something written in a buffer.
Stores(buf, new, type, elts) == Full(new) /\ Grows(buf, new) /\ Holds(new, type, new.at, elts)

\* Writing stores an array, and so does writing it only if there is one.
LEMMA WriteStores ==
  ASSUME NEW buf, Full(buf), NEW type \in ArrayTypes \union {"name"}, NEW elts, Len(elts) \in Nat
  PROVE  /\ Stores(buf, Write(buf, type, elts), type, elts)
         /\ Stores(buf, WriteIfAny(buf, type, elts), type, elts)
<1>1. Stores(buf, Write(buf, type, elts), type, elts)
  <2> DEFINE new == Write(buf, type, elts)
  <2>1. BufferOK(new) /\ Grows(buf, new) /\ Holds(new, type, new.at, elts)
    BY WriteHolds DEF Full
  <2> HIDE DEF new
  <2>2. new.size > 0
    BY <2>1 DEF Full, BufferOK, Grows
  <2> QED
    BY <2>1, <2>2 DEF Stores, Full, new
<1>2. CASE elts = <<>>
  <2> DEFINE new == [buf EXCEPT !.at = 0]
  <2>1. WriteIfAny(buf, type, elts) = new
    BY <1>2 DEF WriteIfAny
  <2>2. DOMAIN new = DOMAIN buf /\ new.size = buf.size /\ new.cells = buf.cells /\ new.at = 0
    BY DEF Full, BufferOK
  <2> HIDE DEF new
  <2>3. Full(new) /\ Grows(buf, new)
    BY <2>2 DEF Full, BufferOK, Grows
  <2>4. Len(elts) = 0
    BY <1>2
  <2>5. Holds(new, type, new.at, elts)
    BY <2>4 DEF Holds
  <2> QED
    BY <1>1, <2>1, <2>3, <2>5 DEF Stores
<1>3. CASE elts # <<>>
  BY <1>1, <1>3 DEF WriteIfAny
<1> QED
  BY <1>2, <1>3

\* A sequence of sequences that is written part by part.
PartsOf(type, item) ==
  IF type = "request" THEN Len(item.semaphoreOps) \in Nat /\ Len(item.doorbellOps) \in Nat
  ELSE Len(item) \in Nat

\* The parts of one item stand where the item will say.
LEMMA PartsStored ==
  ASSUME NEW buf, Full(buf), NEW type, NEW item, PartsOf(type, item)
  PROVE  LET new == WriteParts(buf, type, item)
         IN /\ Full(new) /\ Grows(buf, new)
            /\ type = "request" =>
                 /\ Holds(new, "semaphoreOp", SemaphoresOf(buf, item).at, item.semaphoreOps)
                 /\ Holds(new, "doorbellOp", new.at, item.doorbellOps)
            /\ type # "request" => Holds(new, "nspEntry", new.at, item)
<1> DEFINE new == WriteParts(buf, type, item)
<1>1. CASE type = "request"
  <2> DEFINE sems == SemaphoresOf(buf, item)
  <2>1. new = WriteIfAny(sems, "doorbellOp", item.doorbellOps)
    BY <1>1 DEF WriteParts
  <2>2. Stores(buf, sems, "semaphoreOp", item.semaphoreOps)
    BY <1>1, WriteStores DEF SemaphoresOf, PartsOf, ArrayTypes
  <2> HIDE DEF sems, new
  <2>3. Stores(sems, new, "doorbellOp", item.doorbellOps)
    BY <1>1, <2>1, <2>2, WriteStores DEF Stores, PartsOf, ArrayTypes
  <2>4. Grows(buf, new)
    BY <2>2, <2>3, GrowsOn DEF Stores, Full
  <2>5. Holds(new, "semaphoreOp", sems.at, item.semaphoreOps)
    BY <2>2, <2>3, HoldsOn DEF Stores
  <2> QED
    BY <1>1, <2>3, <2>4, <2>5 DEF Stores, new, sems
<1>2. CASE type # "request"
  <2>1. new = Write(buf, "nspEntry", item)
    BY <1>2 DEF WriteParts
  <2>2. Stores(buf, new, "nspEntry", item)
    BY <1>2, <2>1, WriteStores DEF PartsOf, ArrayTypes
  <2> QED
    BY <1>2, <2>2 DEF Stores
<1> QED
  BY <1>1, <1>2

\* f goes through the buffers of Written.
GoesThrough(f, buf, type, items, n) ==
  f[0] = buf /\ \A i \in 1 .. n : f[i] = WriteParts(f[i - 1], type, items[i])

\* There is such a function.
LEMMA SomethingGoesThrough ==
  ASSUME NEW buf, NEW type, NEW items, NEW n \in Nat
  PROVE  \E f : DOMAIN f = 0 .. n /\ f = [i \in 0 .. n |-> f[i]] /\ GoesThrough(f, buf, type, items, n)
<1> DEFINE Exists(m) == \E f : DOMAIN f = 0 .. m /\ f = [i \in 0 .. m |-> f[i]] /\ GoesThrough(f, buf, type, items, m)
           S == {m \in Nat : Exists(m)}
<1>1. Exists(0)
  <2> DEFINE f == [i \in 0 .. 0 |-> buf]
  <2>1. DOMAIN f = 0 .. 0 /\ f = [i \in 0 .. 0 |-> f[i]] /\ f[0] = buf /\ 1 .. 0 = {}
    OBVIOUS
  <2> HIDE DEF f
  <2>2. GoesThrough(f, buf, type, items, 0)
    BY <2>1 DEF GoesThrough
  <2> QED
    BY <2>1, <2>2
<1>2. ASSUME NEW m \in Nat, Exists(m) PROVE Exists(m + 1)
  <2>1. PICK f : DOMAIN f = 0 .. m /\ GoesThrough(f, buf, type, items, m)
    BY <1>2
  <2> DEFINE g == [i \in 0 .. m + 1 |-> IF i = m + 1 THEN WriteParts(f[m], type, items[m + 1]) ELSE f[i]]
  <2>2. DOMAIN g = 0 .. m + 1 /\ g = [i \in 0 .. m + 1 |-> g[i]]
    OBVIOUS
  <2>3. \A i \in 0 .. m : i \in 0 .. m + 1 /\ i # m + 1
    OBVIOUS
  <2>4. \A i \in 0 .. m : g[i] = f[i]
    BY <2>3
  <2>5. g[m + 1] = WriteParts(f[m], type, items[m + 1])
    <3>1. m + 1 \in 0 .. m + 1
      OBVIOUS
    <3> QED
      BY <3>1
  <2> HIDE DEF g
  <2>6. g[0] = buf
    <3>1. 0 \in 0 .. m
      OBVIOUS
    <3> QED
      BY <2>1, <2>4, <3>1 DEF GoesThrough
  <2>7. ASSUME NEW i \in 1 .. m + 1 PROVE g[i] = WriteParts(g[i - 1], type, items[i])
    <3>1. CASE i = m + 1
      <4>1. i - 1 = m /\ m \in 0 .. m
        BY <3>1
      <4> QED
        BY <2>4, <2>5, <3>1, <4>1
    <3>2. CASE i # m + 1
      <4>1. i \in 1 .. m /\ i \in 0 .. m /\ i - 1 \in 0 .. m
        BY <3>2
      <4> QED
        BY <2>1, <2>4, <4>1 DEF GoesThrough
    <3> QED
      BY <3>1, <3>2
  <2>8. GoesThrough(g, buf, type, items, m + 1)
    BY <2>6, <2>7 DEF GoesThrough
  <2> QED
    BY <2>2, <2>8
<1>3. 0 \in S
  BY <1>1
<1>4. ASSUME NEW m \in Nat, m \in S PROVE m + 1 \in S
  BY <1>2, <1>4
<1> HIDE DEF S
<1>5. Nat \subseteq S
  BY <1>3, <1>4, SetInduction
<1>6. n \in S
  BY <1>5
<1> QED
  BY <1>6 DEF S

\* So Written goes through them.
LEMMA WrittenGoesThrough ==
  ASSUME NEW buf, NEW type, NEW items, Len(items) \in Nat
  PROVE  GoesThrough(Written(buf, type, items), buf, type, items, Len(items))
<1> DEFINE n == Len(items)
           Solves(f) == f = [i \in 0 .. n |-> IF i = 0 THEN buf ELSE WriteParts(f[i - 1], type, items[i])]
<1>1. n \in Nat
  OBVIOUS
<1>2. Written(buf, type, items) = CHOOSE f : Solves(f)
  BY DEF Written
<1> HIDE DEF n
<1>3. PICK g : g = [i \in 0 .. n |-> g[i]] /\ GoesThrough(g, buf, type, items, n)
  BY <1>1, SomethingGoesThrough
<1>4. \A i \in 0 .. n : g[i] = IF i = 0 THEN buf ELSE WriteParts(g[i - 1], type, items[i])
  <2> TAKE i \in 0 .. n
  <2>1. i # 0 => i \in 1 .. n
    BY <1>1
  <2> QED
    BY <1>3, <2>1 DEF GoesThrough
<1>5. Solves(g)
  BY <1>3, <1>4
<1>6. Solves(CHOOSE f : Solves(f))
  BY <1>5
<1>7. ASSUME NEW f, Solves(f) PROVE GoesThrough(f, buf, type, items, n)
  <2>1. \A i \in 0 .. n : f[i] = IF i = 0 THEN buf ELSE WriteParts(f[i - 1], type, items[i])
    BY <1>7
  <2>2. 0 \in 0 .. n /\ \A i \in 1 .. n : i \in 0 .. n /\ i # 0
    BY <1>1
  <2> QED
    BY <2>1, <2>2 DEF GoesThrough
<1> HIDE DEF Solves
<1> QED
  BY <1>2, <1>6, <1>7 DEF n

\* All of these buffers are kept in the last one.
LEMMA WrittenGrows ==
  ASSUME NEW buf, Full(buf), NEW type, NEW items, Len(items) \in Nat,
         \A i \in 1 .. Len(items) : PartsOf(type, items[i])
  PROVE  LET after == Written(buf, type, items)
         IN \A i \in 0 .. Len(items) :
              Full(after[i]) /\ Grows(after[i], after[Len(items)]) /\ Grows(buf, after[i])
<1> DEFINE n == Len(items)
           f == Written(buf, type, items)
<1>1. n \in Nat /\ GoesThrough(f, buf, type, items, n)
  BY WrittenGoesThrough
<1> HIDE DEF n, f
<1>2. \A i \in 1 .. n : PartsOf(type, items[i])
  BY DEF n
<1>3. f[0] = buf /\ \A i \in 1 .. n : f[i] = WriteParts(f[i - 1], type, items[i]) /\ i - 1 \in 0 .. n
  BY <1>1 DEF GoesThrough
<1>4. \A i \in 0 .. n : Full(f[i])
  <2> DEFINE S == {i \in Nat : Full(f[i])}
  <2>1. 0 \in S
    BY <1>3
  <2>2. ASSUME NEW i \in 1 .. n, i - 1 \in S PROVE i \in S
    <3>1. i \in Nat
      OBVIOUS
    <3> QED
      BY <1>2, <1>3, <2>2, <3>1, PartsStored
  <2> HIDE DEF S
  <2>3. 0 .. n \subseteq S
    BY <1>1, <2>1, <2>2, FromZero
  <2> QED
    BY <2>3 DEF S
<1>5. \A i \in 1 .. n : Grows(f[i - 1], f[i])
  BY <1>2, <1>3, <1>4, PartsStored
<1>6. ASSUME NEW i \in 0 .. n, NEW j \in 0 .. n, i <= j PROVE Grows(f[i], f[j])
  <2> DEFINE S == {k \in Nat : i <= k => Grows(f[i], f[k])}
  <2>1. 0 \in S
    <3>1. i <= 0 => i = 0
      OBVIOUS
    <3> QED
      BY <1>4, <3>1, GrowsNot DEF Full
  <2>2. ASSUME NEW k \in 1 .. n, k - 1 \in S PROVE k \in S
    <3>1. k \in Nat /\ k \in 0 .. n /\ k - 1 \in 0 .. n
      BY <1>1
    <3>2. CASE i = k
      BY <1>4, <3>1, <3>2, GrowsNot DEF Full
    <3>3. CASE i < k
      <4>1. Grows(f[i], f[k - 1])
        BY <2>2, <3>3
      <4>2. Grows(f[i], f[k])
        BY <1>4, <1>5, <3>1, <4>1, GrowsOn DEF Full
      <4> QED
        BY <3>1, <4>2
    <3>4. CASE i > k
      BY <3>1, <3>4
    <3> QED
      BY <3>2, <3>3, <3>4
  <2> HIDE DEF S
  <2>3. 0 .. n \subseteq S
    BY <1>1, <2>1, <2>2, FromZero
  <2> QED
    BY <1>6, <2>3 DEF S
<1>7. 0 \in 0 .. n /\ n \in 0 .. n /\ \A i \in 0 .. n : 0 <= i /\ i <= n
  BY <1>1
<1>8. \A i \in 0 .. n : Full(f[i]) /\ Grows(f[i], f[n]) /\ Grows(buf, f[i])
  BY <1>3, <1>4, <1>6, <1>7
<1> QED
  BY <1>8 DEF n, f

\* Requests stand in a buffer with their operations.
RequestsStand(buf, at, requests) ==
  \E out :
    /\ Len(out) = Len(requests) /\ Holds(buf, "request", at, out)
    /\ \A i \in 1 .. Len(requests) :
         LET r == requests[i]
         IN /\ out[i].request = r.request
            /\ out[i].numSemaphoreOps = Len(r.semaphoreOps)
            /\ out[i].numDoorbellOps = Len(r.doorbellOps)
            /\ Holds(buf, "semaphoreOp", out[i].semaphoreOps, r.semaphoreOps)
            /\ Holds(buf, "doorbellOp", out[i].doorbellOps, r.doorbellOps)

\* Multicast tables stand in a buffer with their entries, which are of some type.
TablesStand(buf, at, tables, type) ==
  \E out :
    /\ Len(out) = Len(tables) /\ Holds(buf, "table", at, out)
    /\ \A c \in 1 .. Len(tables) :
         out[c].num = Len(tables[c]) /\ Holds(buf, type, out[c].multicastEntries, tables[c])

\* They stay there.
LEMMA StandsOn ==
  ASSUME NEW a, NEW b, Grows(a, b), NEW at
  PROVE  /\ \A requests : RequestsStand(a, at, requests) => RequestsStand(b, at, requests)
         /\ \A tables, type : TablesStand(a, at, tables, type) => TablesStand(b, at, tables, type)
<1>1. ASSUME NEW requests, RequestsStand(a, at, requests) PROVE RequestsStand(b, at, requests)
  BY <1>1, HoldsOn DEF RequestsStand
<1>2. ASSUME NEW tables, NEW type, TablesStand(a, at, tables, type) PROVE TablesStand(b, at, tables, type)
  BY <1>2, HoldsOn DEF TablesStand
<1> QED
  BY <1>1, <1>2

\* Requests whose operations a structure can count.
Countable(requests) ==
  /\ Len(requests) \in Nat
  /\ \A i \in 1 .. Len(requests) :
       /\ Len(requests[i].semaphoreOps) \in Nat /\ Len(requests[i].semaphoreOps) < MaxOps
       /\ Len(requests[i].doorbellOps) \in Nat /\ Len(requests[i].doorbellOps) < MaxOps

\* A sequence made by positions.
LEMMA LengthByPositions ==
  ASSUME NEW n \in Nat, NEW s, s = [i \in 1 .. n |-> s[i]]
  PROVE  Len(s) = n
  OBVIOUS

\* Writing what is pointed to first and the array of pointers then (WriteEach).
LEMMA EachStored ==
  ASSUME NEW buf, Full(buf), NEW type \in ArrayTypes, NEW elts, Len(elts) \in Nat, NEW old \in Nat
  PROVE  Stores(buf, WriteEach(buf, type, elts, old), type, elts)
<1>1. CASE elts = <<>>
  <2> DEFINE new == [buf EXCEPT !.at = old]
  <2>1. WriteEach(buf, type, elts, old) = new
    BY <1>1 DEF WriteEach
  <2>2. DOMAIN new = DOMAIN buf /\ new.size = buf.size /\ new.cells = buf.cells /\ new.at = old
    BY DEF Full, BufferOK
  <2> HIDE DEF new
  <2>3. Full(new) /\ Grows(buf, new)
    BY <2>2 DEF Full, BufferOK, Grows
  <2>4. Len(elts) = 0
    BY <1>1
  <2>5. Holds(new, type, new.at, elts)
    BY <2>4 DEF Holds
  <2> QED
    BY <2>1, <2>3, <2>5 DEF Stores
<1>2. CASE elts # <<>>
  BY <1>2, WriteStores DEF WriteEach
<1> QED
  BY <1>1, <1>2

\* The requests stand where finiDMARequests says.
LEMMA RequestsStored ==
  ASSUME NEW buf, Full(buf), NEW requests, Countable(requests), NEW old \in Nat
  PROVE  LET new == FiniDMARequests(buf, requests, old)
         IN Full(new) /\ Grows(buf, new) /\ RequestsStand(new, new.at, requests)
<1> DEFINE n == Len(requests)
           after == Written(buf, "request", requests)
           out == [i \in 1 .. n |->
                     LET r == requests[i]
                     IN [request |-> r.request, numSemaphoreOps |-> Len(r.semaphoreOps) % MaxOps,
                         semaphoreOps |-> SemaphoresOf(after[i - 1], r).at,
                         numDoorbellOps |-> Len(r.doorbellOps) % MaxOps, doorbellOps |-> after[i].at]]
           new == FiniDMARequests(buf, requests, old)
<1>1. n \in Nat /\ \A i \in 1 .. n : PartsOf("request", requests[i])
  BY DEF Countable, PartsOf
<1>2. new = WriteEach(after[n], "request", out, old)
  BY DEF FiniDMARequests
<1>3. \A i \in 0 .. n : Full(after[i]) /\ Grows(after[i], after[n]) /\ Grows(buf, after[i])
  BY <1>1, WrittenGrows
<1>4. \A i \in 1 .. n : after[i] = WriteParts(after[i - 1], "request", requests[i])
  BY <1>1, WrittenGoesThrough DEF GoesThrough
<1> HIDE DEF after, new
<1>5. ASSUME NEW i \in 1 .. n
      PROVE  LET r == requests[i]
             IN /\ out[i].request = r.request
                /\ out[i].numSemaphoreOps = Len(r.semaphoreOps) /\ out[i].numDoorbellOps = Len(r.doorbellOps)
                /\ out[i].semaphoreOps = SemaphoresOf(after[i - 1], r).at
                /\ out[i].doorbellOps = after[i].at
  <2> DEFINE r == requests[i]
  <2>1. Len(r.semaphoreOps) % MaxOps = Len(r.semaphoreOps) /\ Len(r.doorbellOps) % MaxOps = Len(r.doorbellOps)
    <3>1. ASSUME NEW k \in Nat, k < MaxOps PROVE k % MaxOps = k
      BY <3>1, SizesAssumption
    <3> QED
      BY <3>1 DEF Countable
  <2>2. out[i] = [request |-> r.request, numSemaphoreOps |-> Len(r.semaphoreOps) % MaxOps,
                  semaphoreOps |-> SemaphoresOf(after[i - 1], r).at,
                  numDoorbellOps |-> Len(r.doorbellOps) % MaxOps, doorbellOps |-> after[i].at]
    OBVIOUS
  <2> HIDE DEF out
  <2> QED
    BY <2>1, <2>2
<1>6. out = [i \in 1 .. n |-> out[i]]
  OBVIOUS
<1> HIDE DEF out
<1>7. Len(out) = n
  BY <1>1, <1>6, LengthByPositions
<1> HIDE DEF n
<1>8. n \in 0 .. n /\ \A i \in 1 .. n : i \in 0 .. n /\ i - 1 \in 0 .. n
  BY <1>1
<1>9. Stores(after[n], new, "request", out)
  BY <1>1, <1>2, <1>3, <1>7, <1>8, EachStored DEF ArrayTypes
<1>10. \A i \in 0 .. n : Grows(after[i], new)
  BY <1>3, <1>8, <1>9, GrowsOn DEF Stores, Full
<1>11. Grows(buf, new)
  BY <1>3, <1>8, <1>9, GrowsOn DEF Stores, Full
<1>12. ASSUME NEW i \in 1 .. n
       PROVE  /\ Holds(new, "semaphoreOp", out[i].semaphoreOps, requests[i].semaphoreOps)
              /\ Holds(new, "doorbellOp", out[i].doorbellOps, requests[i].doorbellOps)
  <2>1. /\ Holds(after[i], "semaphoreOp", SemaphoresOf(after[i - 1], requests[i]).at, requests[i].semaphoreOps)
        /\ Holds(after[i], "doorbellOp", after[i].at, requests[i].doorbellOps)
    BY <1>1, <1>3, <1>4, <1>8, PartsStored
  <2>2. Grows(after[i], new)
    BY <1>8, <1>10
  <2> QED
    BY <1>5, <2>1, <2>2, HoldsOn
<1>13. RequestsStand(new, new.at, requests)
  BY <1>5, <1>7, <1>9, <1>12 DEF RequestsStand, Stores, n
<1> QED
  BY <1>9, <1>11, <1>13 DEF Stores, new

\* The tables of the NSPs stand where finiMulticastTables says.
LEMMA TablesStored ==
  ASSUME NEW buf, Full(buf), NEW tables, Len(tables) \in Nat,
         \A c \in 1 .. Len(tables) : Len(tables[c]) \in Nat
  PROVE  LET new == FiniNSPTables(buf, tables)
         IN Full(new) /\ Grows(buf, new) /\ TablesStand(new, new.at, tables, "nspEntry")
<1> DEFINE n == Len(tables)
           after == Written(buf, "table", tables)
           out == [c \in 1 .. n |-> [num |-> Len(tables[c]), multicastEntries |-> after[c].at]]
           new == FiniNSPTables(buf, tables)
<1>1. n \in Nat /\ \A i \in 1 .. n : PartsOf("table", tables[i])
  BY DEF PartsOf
<1>2. new = WriteEach(after[n], "table", out, 0)
  BY DEF FiniNSPTables
<1>3. \A i \in 0 .. n : Full(after[i]) /\ Grows(after[i], after[n]) /\ Grows(buf, after[i])
  BY <1>1, WrittenGrows
<1>4. \A i \in 1 .. n : after[i] = WriteParts(after[i - 1], "table", tables[i])
  BY <1>1, WrittenGoesThrough DEF GoesThrough
<1> HIDE DEF after, new
<1>5. \A c \in 1 .. n : out[c].num = Len(tables[c]) /\ out[c].multicastEntries = after[c].at
  OBVIOUS
<1>6. out = [i \in 1 .. n |-> out[i]]
  OBVIOUS
<1> HIDE DEF out
<1>7. Len(out) = n
  BY <1>1, <1>6, LengthByPositions
<1> HIDE DEF n
<1>8. n \in 0 .. n /\ \A i \in 1 .. n : i \in 0 .. n /\ i - 1 \in 0 .. n
  BY <1>1
<1>9. Stores(after[n], new, "table", out)
  BY <1>1, <1>2, <1>3, <1>7, <1>8, EachStored DEF ArrayTypes
<1>10. Grows(buf, new)
  BY <1>3, <1>8, <1>9, GrowsOn DEF Stores, Full
<1>11. ASSUME NEW c \in 1 .. n PROVE Holds(new, "nspEntry", out[c].multicastEntries, tables[c])
  <2>1. Holds(after[c], "nspEntry", after[c].at, tables[c])
    BY <1>1, <1>3, <1>4, <1>8, PartsStored
  <2>2. Grows(after[c], new)
    BY <1>3, <1>8, <1>9, GrowsOn DEF Stores, Full
  <2> QED
    BY <1>5, <2>1, <2>2, HoldsOn
<1>12. TablesStand(new, new.at, tables, "nspEntry")
  BY <1>5, <1>7, <1>9, <1>11 DEF TablesStand, Stores, n
<1> QED
  BY <1>9, <1>10, <1>12 DEF Stores, new

\* So does the table of the host.
LEMMA HostTableStored ==
  ASSUME NEW buf, Full(buf), NEW entries, Len(entries) \in Nat
  PROVE  LET new == FiniHostTable(buf, entries)
         IN Full(new) /\ Grows(buf, new) /\ TablesStand(new, new.at, <<entries>>, "hostEntry")
<1> DEFINE b == Write(buf, "hostEntry", entries)
           t == [num |-> Len(entries), multicastEntries |-> b.at]
           new == FiniHostTable(buf, entries)
<1>1. new = Write(b, "table", <<t>>)
  BY DEF FiniHostTable
<1>2. Stores(buf, b, "hostEntry", entries)
  BY WriteStores DEF ArrayTypes
<1>3. t.num = Len(entries) /\ t.multicastEntries = b.at
  OBVIOUS
<1> HIDE DEF t, b, new
<1> DEFINE out == <<t>>
<1>4. Len(out) = 1 /\ out[1] = t
  OBVIOUS
<1>5. new = Write(b, "table", out)
  BY <1>1
<1>6. Len(<<entries>>) = 1 /\ <<entries>>[1] = entries
  OBVIOUS
<1> HIDE DEF out
<1>7. Stores(b, new, "table", out)
  <2>1. Full(b) /\ Len(out) \in Nat
    BY <1>2, <1>4 DEF Stores
  <2>2. "table" \in ArrayTypes \union {"name"}
    BY DEF ArrayTypes
  <2> QED
    BY <1>5, <2>1, <2>2, WriteStores
<1>8. Grows(buf, new)
  BY <1>2, <1>7, GrowsOn DEF Stores, Full
<1>9. Holds(new, "hostEntry", b.at, entries)
  BY <1>2, <1>7, HoldsOn DEF Stores
<1> DEFINE tables == <<entries>>
<1>10. Len(tables) = 1 /\ tables[1] = entries
  BY <1>6
<1> HIDE DEF tables
<1>11. TablesStand(new, new.at, tables, "hostEntry")
  BY <1>3, <1>4, <1>7, <1>9, <1>10 DEF TablesStand, Stores
<1> QED
  BY <1>7, <1>8, <1>11 DEF Stores, new, tables

-----------------------------------------------------------------------------
(* Reading the structure.                                                  *)

\* An array that stands in a buffer is read (AICMetadataReader.c follows an offset).
LEMMA ArrayRead ==
  ASSUME NEW buf, NEW type, NEW at, NEW elts, IsSequence(elts), Holds(buf, type, at, elts)
  PROVE  /\ ArrayAt(buf, type, at, Len(elts)) = elts
         /\ \A i \in 1 .. Len(elts) : At(buf, type, at + (i - 1) * SizeOf[type]) = elts[i]
<1>1. ASSUME NEW i \in 1 .. Len(elts) PROVE At(buf, type, at + (i - 1) * SizeOf[type]) = elts[i]
  <2> DEFINE o == at + (i - 1) * SizeOf[type]
  <2>1. o \in DOMAIN buf.cells /\ buf.cells[o] = [type |-> type, val |-> elts[i]]
    BY DEF Holds
  <2> HIDE DEF o
  <2>2. At(buf, type, o) = elts[i]
    BY <2>1 DEF At
  <2> QED
    BY <2>2 DEF o
<1>2. ArrayAt(buf, type, at, Len(elts)) = [i \in 1 .. Len(elts) |-> elts[i]]
  BY <1>1 DEF ArrayAt
<1> QED
  BY <1>1, <1>2 DEF IsSequence

\* The requests a writer holds.
RequestsOK(requests) ==
  /\ IsSequence(requests) /\ Countable(requests)
  /\ \A i \in 1 .. Len(requests) :
       LET r == requests[i]
       IN /\ r = [request |-> r.request, semaphoreOps |-> r.semaphoreOps, doorbellOps |-> r.doorbellOps]
          /\ IsSequence(r.semaphoreOps) /\ IsSequence(r.doorbellOps)

\* Requests that stand in a buffer are read with their operations.
LEMMA RequestsRead ==
  ASSUME NEW buf, NEW at, NEW requests, RequestsOK(requests), RequestsStand(buf, at, requests)
  PROVE  LET read == ArrayAt(buf, "request", at, Len(requests))
         IN [i \in 1 .. Len(read) |->
              [request |-> read[i].request,
               semaphoreOps |-> ArrayAt(buf, "semaphoreOp", read[i].semaphoreOps, read[i].numSemaphoreOps),
               doorbellOps |-> ArrayAt(buf, "doorbellOp", read[i].doorbellOps, read[i].numDoorbellOps)]]
            = requests
<1> DEFINE n == Len(requests)
           read == ArrayAt(buf, "request", at, n)
<1>1. n \in Nat /\ requests = [i \in 1 .. n |-> requests[i]]
  BY DEF RequestsOK, Countable, IsSequence
<1>2. PICK out :
    /\ Len(out) = n /\ Holds(buf, "request", at, out)
    /\ \A i \in 1 .. n :
         LET r == requests[i]
         IN /\ out[i].request = r.request
            /\ out[i].numSemaphoreOps = Len(r.semaphoreOps)
            /\ out[i].numDoorbellOps = Len(r.doorbellOps)
            /\ Holds(buf, "semaphoreOp", out[i].semaphoreOps, r.semaphoreOps)
            /\ Holds(buf, "doorbellOp", out[i].doorbellOps, r.doorbellOps)
  BY DEF RequestsStand
<1>3. read = [i \in 1 .. n |-> read[i]] /\ \A i \in 1 .. n : read[i] = At(buf, "request", at + (i - 1) * SizeOf["request"])
  BY DEF ArrayAt
<1> HIDE DEF read
<1>4. Len(read) = n
  BY <1>1, <1>3, LengthByPositions
<1>5. \A i \in 1 .. n : read[i] = out[i]
  <2> SUFFICES ASSUME NEW i \in 1 .. n PROVE read[i] = out[i]
    OBVIOUS
  <2> DEFINE o == at + (i - 1) * SizeOf["request"]
  <2>1. o \in DOMAIN buf.cells /\ buf.cells[o] = [type |-> "request", val |-> out[i]]
    BY <1>2 DEF Holds
  <2>2. read[i] = At(buf, "request", o)
    BY <1>3
  <2> HIDE DEF o
  <2>3. At(buf, "request", o) = out[i]
    BY <2>1 DEF At
  <2> QED
    BY <2>2, <2>3
<1>6. ASSUME NEW i \in 1 .. n
      PROVE  [request |-> read[i].request,
              semaphoreOps |-> ArrayAt(buf, "semaphoreOp", read[i].semaphoreOps, read[i].numSemaphoreOps),
              doorbellOps |-> ArrayAt(buf, "doorbellOp", read[i].doorbellOps, read[i].numDoorbellOps)] = requests[i]
  <2> DEFINE r == requests[i]
  <2>1. /\ r = [request |-> r.request, semaphoreOps |-> r.semaphoreOps, doorbellOps |-> r.doorbellOps]
        /\ IsSequence(r.semaphoreOps) /\ IsSequence(r.doorbellOps)
    BY DEF RequestsOK
  <2>2. ArrayAt(buf, "semaphoreOp", read[i].semaphoreOps, read[i].numSemaphoreOps) = r.semaphoreOps
    BY <1>2, <1>5, <2>1, ArrayRead
  <2>3. ArrayAt(buf, "doorbellOp", read[i].doorbellOps, read[i].numDoorbellOps) = r.doorbellOps
    BY <1>2, <1>5, <2>1, ArrayRead
  <2>4. read[i].request = r.request
    BY <1>2, <1>5
  <2> HIDE DEF r
  <2>5. [request |-> read[i].request,
         semaphoreOps |-> ArrayAt(buf, "semaphoreOp", read[i].semaphoreOps, read[i].numSemaphoreOps),
         doorbellOps |-> ArrayAt(buf, "doorbellOp", read[i].doorbellOps, read[i].numDoorbellOps)]
        = [request |-> r.request, semaphoreOps |-> r.semaphoreOps, doorbellOps |-> r.doorbellOps]
    BY <2>2, <2>3, <2>4
  <2> QED
    BY <2>1, <2>5 DEF r
<1> HIDE DEF n
<1>7. [i \in 1 .. Len(read) |->
         [request |-> read[i].request,
          semaphoreOps |-> ArrayAt(buf, "semaphoreOp", read[i].semaphoreOps, read[i].numSemaphoreOps),
          doorbellOps |-> ArrayAt(buf, "doorbellOp", read[i].doorbellOps, read[i].numDoorbellOps)]]
      = [i \in 1 .. n |-> requests[i]]
  BY <1>4, <1>6
<1> QED
  BY <1>1, <1>7 DEF n, read

\* So are tables with their entries.
LEMMA TablesRead ==
  ASSUME NEW buf, NEW at, NEW tables, NEW type, IsSequence(tables),
         \A c \in 1 .. Len(tables) : IsSequence(tables[c]),
         TablesStand(buf, at, tables, type)
  PROVE  LET read == ArrayAt(buf, "table", at, Len(tables))
         IN [c \in 1 .. Len(tables) |-> ArrayAt(buf, type, read[c].multicastEntries, read[c].num)] = tables
<1> DEFINE n == Len(tables)
           read == ArrayAt(buf, "table", at, n)
<1>1. n \in Nat /\ tables = [i \in 1 .. n |-> tables[i]]
  BY DEF IsSequence
<1>2. PICK out :
    /\ Len(out) = n /\ Holds(buf, "table", at, out)
    /\ \A c \in 1 .. n : out[c].num = Len(tables[c]) /\ Holds(buf, type, out[c].multicastEntries, tables[c])
  BY DEF TablesStand
<1>3. \A i \in 1 .. n : read[i] = At(buf, "table", at + (i - 1) * SizeOf["table"])
  BY DEF ArrayAt
<1> HIDE DEF read
<1>4. \A i \in 1 .. n : read[i] = out[i]
  <2> SUFFICES ASSUME NEW i \in 1 .. n PROVE read[i] = out[i]
    OBVIOUS
  <2> DEFINE o == at + (i - 1) * SizeOf["table"]
  <2>1. o \in DOMAIN buf.cells /\ buf.cells[o] = [type |-> "table", val |-> out[i]]
    BY <1>2 DEF Holds
  <2>2. read[i] = At(buf, "table", o)
    BY <1>3
  <2> HIDE DEF o
  <2>3. At(buf, "table", o) = out[i]
    BY <2>1 DEF At
  <2> QED
    BY <2>2, <2>3
<1>5. \A i \in 1 .. n : IsSequence(tables[i])
  OBVIOUS
<1> HIDE DEF n
<1>6. \A c \in 1 .. n : ArrayAt(buf, type, read[c].multicastEntries, read[c].num) = tables[c]
  BY <1>2, <1>4, <1>5, ArrayRead
<1>7. [c \in 1 .. n |-> ArrayAt(buf, type, read[c].multicastEntries, read[c].num)] = [c \in 1 .. n |-> tables[c]]
  BY <1>6
<1> QED
  BY <1>1, <1>7 DEF n, read

\* And so is the table of the host.
LEMMA HostTableRead ==
  ASSUME NEW buf, NEW at \in Nat, NEW entries, IsSequence(entries), TablesStand(buf, at, <<entries>>, "hostEntry")
  PROVE  LET host == At(buf, "table", at)
         IN ArrayAt(buf, "hostEntry", host.multicastEntries, host.num) = entries
<1> DEFINE tables == <<entries>>
<1>1. Len(tables) = 1 /\ tables[1] = entries
  OBVIOUS
<1>2. TablesStand(buf, at, tables, "hostEntry")
  OBVIOUS
<1> HIDE DEF tables
<1>3. PICK out :
    /\ Len(out) = 1 /\ Holds(buf, "table", at, out)
    /\ out[1].num = Len(entries) /\ Holds(buf, "hostEntry", out[1].multicastEntries, entries)
  BY <1>1, <1>2 DEF TablesStand
<1>4. at + (1 - 1) * SizeOf["table"] = at
  <2>1. SizeOf["table"] = 16
    BY DEF SizeOf
  <2> QED
    BY <2>1
<1>5. at \in DOMAIN buf.cells /\ buf.cells[at] = [type |-> "table", val |-> out[1]]
  <2>1. 1 \in 1 .. Len(out)
    BY <1>3
  <2> QED
    BY <1>3, <1>4, <2>1 DEF Holds
<1>6. At(buf, "table", at) = out[1]
  BY <1>5 DEF At
<1> QED
  BY <1>3, <1>6, ArrayRead

\* The fields of a writer and of the structure it fixes up.
WriterFields ==
  {"metadata", "networkName", "L2TCMInitState", "semaphoreInitState", "DMARequests", "NSPMulticastTables",
   "HostMulticastTable", "constMappingCores", "ThreadDescriptors", "ConstantMappings", "metadataBuffer", "isFinal"}
HeaderFields ==
  {"version", "sizes", "networkName", "semaphoreInitState", "L2TCMInitState", "dmaRequests", "nspMulticastTables",
   "hostMulticastTable", "threadDescriptors", "constantMappings", "L2TCMInitSize", "numDMARequests",
   "numThreadDescriptors", "numConstantMappings", "numNSPs", "numSemaphores"}

\* The name a network gets in the end.
FinalName(name) == IF name = "" THEN "unnamed" ELSE name

\* A writer that can be finalized.
WriterOK(w) ==
  /\ WriterFields \subseteq DOMAIN w /\ HeaderFields \subseteq DOMAIN w.metadata
  /\ w.metadata.version = Version
  /\ w.metadata.dmaRequests \in Nat /\ w.metadata.threadDescriptors \in Nat
  /\ w.metadata.numNSPs \in 0 .. MaxNSPs /\ w.metadata.numSemaphores = Len(w.semaphoreInitState)
  /\ IsSequence(w.semaphoreInitState) /\ IsSequence(w.L2TCMInitState)
  /\ IsSequence(w.HostMulticastTable) /\ IsSequence(w.ThreadDescriptors) /\ IsSequence(w.ConstantMappings)
  /\ IsSequence(w.NSPMulticastTables) /\ Len(w.NSPMulticastTables) = MaxNSPs
  /\ \A c \in 1 .. MaxNSPs : IsSequence(w.NSPMulticastTables[c])
  /\ RequestsOK(w.DMARequests)
  /\ BufferOK(w.metadataBuffer)

\* The tables of the NSPs there are.
TablesOf(w) == SubSeq(w.NSPMulticastTables, 1, w.metadata.numNSPs)

\* They are sequences.
LEMMA TablesOfWriter ==
  ASSUME NEW w, WriterOK(w)
  PROVE  /\ IsSequence(TablesOf(w)) /\ Len(TablesOf(w)) = w.metadata.numNSPs
         /\ \A c \in 1 .. Len(TablesOf(w)) : IsSequence(TablesOf(w)[c]) /\ TablesOf(w)[c] = w.NSPMulticastTables[c]
<1> DEFINE s == w.NSPMulticastTables
           n == w.metadata.numNSPs
           t == TablesOf(w)
           V == {s[i] : i \in 1 .. Len(s)}
<1>1. s \in Seq(V) /\ Len(s) = MaxNSPs /\ n \in 0 .. Len(s) /\ MaxNSPs \in Nat
  BY SequenceOfItself, SizesAssumption DEF WriterOK
<1>2. \A c \in 1 .. MaxNSPs : IsSequence(s[c])
  BY DEF WriterOK
<1>3. t = SubSeq(s, 1, n)
  BY DEF TablesOf
<1> HIDE DEF s, n, t, V
<1>4. Len(t) = n /\ \A c \in 1 .. n : t[c] = s[c]
  BY <1>1, <1>3
<1>5. t = [i \in 1 .. n |-> t[i]]
  <2>1. SubSeq(s, 1, n) = [i \in 1 .. n |-> s[i]]
    BY <1>1
  <2> QED
    BY <1>3, <2>1
<1>6. IsSequence(t)
  BY <1>1, <1>4, <1>5, PositionsMakeSequence
<1>7. \A c \in 1 .. n : c \in 1 .. MaxNSPs
  BY <1>1
<1> QED
  BY <1>2, <1>4, <1>6, <1>7 DEF s, n, t

\* A structure and what it points to, in a buffer.
Structure(b, h, w) ==
  /\ At(b, "header", 0) = h
  /\ h.version = Version /\ h.sizes = w.metadata.sizes /\ h.numNSPs = w.metadata.numNSPs
  /\ h.numSemaphores = Len(w.semaphoreInitState) /\ h.L2TCMInitSize = Len(w.L2TCMInitState)
  /\ h.numDMARequests = Len(w.DMARequests) /\ h.numThreadDescriptors = Len(w.ThreadDescriptors)
  /\ h.numConstantMappings = Len(w.ConstantMappings)
  /\ h.networkName \in Nat
  /\ Holds(b, "name", h.networkName, <<FinalName(w.networkName)>>)
  /\ Holds(b, "word", h.semaphoreInitState, w.semaphoreInitState)
  /\ Holds(b, "byte", h.L2TCMInitState, w.L2TCMInitState)
  /\ RequestsStand(b, h.dmaRequests, w.DMARequests)
  /\ TablesStand(b, h.nspMulticastTables, TablesOf(w), "nspEntry")
  /\ h.hostMulticastTable \in Nat
  /\ TablesStand(b, h.hostMulticastTable, <<w.HostMulticastTable>>, "hostEntry")
  /\ Holds(b, "thread", h.threadDescriptors, w.ThreadDescriptors)
  /\ Holds(b, "mapping", h.constantMappings, w.ConstantMappings)

\* What was described to a writer.
Description(w) ==
  [sizes |-> w.metadata.sizes, numNSPs |-> w.metadata.numNSPs,
   networkName |-> FinalName(w.networkName),
   semaphoreInitState |-> w.semaphoreInitState, L2TCMInitState |-> w.L2TCMInitState,
   dmaRequests |-> w.DMARequests, nspMulticastTables |-> TablesOf(w),
   hostMulticastTable |-> w.HostMulticastTable, threadDescriptors |-> w.ThreadDescriptors,
   constantMappings |-> w.ConstantMappings]

\* Who follows the offsets of a structure finds what was described (MDR_readMetadata).
LEMMA StructureRead ==
  ASSUME NEW b, NEW h, NEW w, WriterOK(w), Structure(b, h, w)
  PROVE  ReadRaw(b, Version) = Description(w)
<1> DEFINE request(r) == [request |-> r.request,
                     semaphoreOps |-> ArrayAt(b, "semaphoreOp", r.semaphoreOps, r.numSemaphoreOps),
                     doorbellOps |-> ArrayAt(b, "doorbellOp", r.doorbellOps, r.numDoorbellOps)]
           requests == ArrayAt(b, "request", h.dmaRequests, h.numDMARequests)
           tables == ArrayAt(b, "table", h.nspMulticastTables, h.numNSPs)
           host == At(b, "table", h.hostMulticastTable)
           name == At(b, "name", h.networkName)
           sems == ArrayAt(b, "word", h.semaphoreInitState, h.numSemaphores)
           image == ArrayAt(b, "byte", h.L2TCMInitState, h.L2TCMInitSize)
           reqs == [i \in 1 .. Len(requests) |-> request(requests[i])]
           nsps == [c \in 1 .. h.numNSPs |-> ArrayAt(b, "nspEntry", tables[c].multicastEntries, tables[c].num)]
           entries == ArrayAt(b, "hostEntry", host.multicastEntries, host.num)
           threads == ArrayAt(b, "thread", h.threadDescriptors, h.numThreadDescriptors)
           mappings == ArrayAt(b, "mapping", h.constantMappings, h.numConstantMappings)
<1>1. ReadRaw(b, Version) =
        [sizes |-> h.sizes, numNSPs |-> h.numNSPs, networkName |-> name, semaphoreInitState |-> sems,
         L2TCMInitState |-> image, dmaRequests |-> reqs, nspMulticastTables |-> nsps,
         hostMulticastTable |-> entries, threadDescriptors |-> threads, constantMappings |-> mappings]
  BY DEF ReadRaw, Structure
<1>2. name = FinalName(w.networkName)
  <2> DEFINE names == <<FinalName(w.networkName)>>
  <2>1. Len(names) = 1 /\ names[1] = FinalName(w.networkName)
    OBVIOUS
  <2>2. Holds(b, "name", h.networkName, names)
    BY DEF Structure
  <2> HIDE DEF names
  <2>3. h.networkName + (1 - 1) * SizeOf["name"] = h.networkName
    <3>1. SizeOf["name"] \in Nat
      BY SizesAssumption DEF SizeOf
    <3>2. h.networkName \in Nat
      BY DEF Structure
    <3> QED
      BY <3>1, <3>2
  <2>4. h.networkName \in DOMAIN b.cells /\ b.cells[h.networkName] = [type |-> "name", val |-> names[1]]
    <3>1. 1 \in 1 .. Len(names)
      BY <2>1
    <3> QED
      BY <2>2, <2>3, <3>1 DEF Holds
  <2>5. At(b, "name", h.networkName) = names[1]
    BY <2>4 DEF At
  <2> QED
    BY <2>1, <2>5
<1>3. sems = w.semaphoreInitState
  BY ArrayRead DEF Structure, WriterOK
<1>4. image = w.L2TCMInitState
  BY ArrayRead DEF Structure, WriterOK
<1>5. reqs = w.DMARequests
  <2>1. h.numDMARequests = Len(w.DMARequests) /\ RequestsOK(w.DMARequests)
        /\ RequestsStand(b, h.dmaRequests, w.DMARequests)
    BY DEF Structure, WriterOK
  <2> QED
    BY <2>1, RequestsRead
<1>6. nsps = TablesOf(w)
  <2>1. h.numNSPs = Len(TablesOf(w)) /\ TablesStand(b, h.nspMulticastTables, TablesOf(w), "nspEntry")
    BY TablesOfWriter DEF Structure
  <2>2. IsSequence(TablesOf(w)) /\ \A c \in 1 .. Len(TablesOf(w)) : IsSequence(TablesOf(w)[c])
    BY TablesOfWriter
  <2> QED
    BY <2>1, <2>2, TablesRead
<1>7. entries = w.HostMulticastTable
  BY HostTableRead DEF Structure, WriterOK
<1>8. threads = w.ThreadDescriptors
  BY ArrayRead DEF Structure, WriterOK
<1>9. mappings = w.ConstantMappings
  BY ArrayRead DEF Structure, WriterOK
<1>10. h.sizes = w.metadata.sizes /\ h.numNSPs = w.metadata.numNSPs
  BY DEF Structure
<1> HIDE DEF name, sems, image, reqs, nsps, entries, threads, mappings
<1> QED
  BY <1>1, <1>2, <1>3, <1>4, <1>5, <1>6, <1>7, <1>8, <1>9, <1>10 DEF Description

-----------------------------------------------------------------------------
(* Finalizing the structure.                                               *)

\* Fixing up the structure at the start of a buffer leaves the rest.
LEMMA OverwriteHolds ==
  ASSUME NEW buf, Full(buf), NEW h
  PROVE  LET new == Overwrite(buf, "header", h)
         IN Full(new) /\ Grows(buf, new) /\ At(new, "header", 0) = h
<1> DEFINE cell == [type |-> "header", val |-> h]
           start == [o \in {0} |-> cell]
           new == Overwrite(buf, "header", h)
<1>1. DOMAIN buf = {"size", "cells", "at"} /\ buf.size \in Nat /\ buf.size > 0 /\ buf.at \in Nat
      /\ \A o \in DOMAIN buf.cells : o \in Nat /\ o < buf.size
  BY DEF Full, BufferOK
<1>2. new = [buf EXCEPT !.cells = Over(start, buf.cells)]
  BY <1>1 DEF Overwrite
<1>3. cell.type = "header" /\ cell.val = h
  OBVIOUS
<1> HIDE DEF cell
<1>4. DOMAIN start = {0} /\ start[0] = cell
  OBVIOUS
<1> HIDE DEF start, new
<1>5. DOMAIN new = {"size", "cells", "at"} /\ new.size = buf.size /\ new.at = buf.at
      /\ new.cells = Over(start, buf.cells)
  BY <1>1, <1>2
<1>6. DOMAIN new.cells = {0} \union DOMAIN buf.cells
      /\ \A o \in DOMAIN new.cells : new.cells[o] = IF o = 0 THEN cell ELSE buf.cells[o]
  BY <1>4, <1>5 DEF Over
<1>7. Full(new)
  BY <1>1, <1>5, <1>6 DEF Full, BufferOK
<1>8. Grows(buf, new)
  BY <1>1, <1>5, <1>6 DEF Grows
<1>9. At(new, "header", 0) = h
  BY <1>3, <1>6 DEF At
<1> QED
  BY <1>7, <1>8, <1>9 DEF new

\* The structure of a new array at the end is all that is behind the start (AICMetadataWriter::init).
LEMMA HeaderWritten ==
  ASSUME NEW buf, BufferOK(buf), NEW h
  PROVE  Full(Write(buf, "header", <<h>>))
<1> DEFINE elts == <<h>>
<1>1. Len(elts) = 1
  OBVIOUS
<1> HIDE DEF elts
<1>2. "header" \in ArrayTypes \union {"name"} /\ SizeOf["header"] = 160
  BY DEF ArrayTypes, SizeOf
<1> DEFINE new == Write(buf, "header", elts)
<1>3. BufferOK(new) /\ new.size = new.at + Len(elts) * SizeOf["header"]
  <2>1. Len(elts) \in Nat /\ "header" \in ArrayTypes \union {"name"}
    BY <1>1, <1>2
  <2> DEFINE type == "header"
  <2>2. type \in ArrayTypes \union {"name"} /\ new = Write(buf, type, elts)
    BY <2>1
  <2> HIDE DEF type, new
  <2>3. BufferOK(new) /\ new.size = new.at + Len(elts) * SizeOf[type]
    BY <2>1, <2>2, WriteHolds
  <2> QED
    BY <2>3 DEF type
<1> HIDE DEF new
<1>4. new.at \in Nat
  BY <1>3 DEF BufferOK
<1> QED
  BY <1>1, <1>2, <1>3, <1>4 DEF Full, new, elts

\* finalize leaves a structure that points to all that was described, and a writer that can be
\* used again (AICMetadataWriter::finalize).
LEMMA FinalizeStructure ==
  ASSUME NEW w, WriterOK(w)
  PROVE  LET f == FinalizeRaw(w)
         IN /\ Structure(f.metadataBuffer, f.metadata, w) /\ BufferOK(f.metadataBuffer)
            /\ DOMAIN f = DOMAIN w /\ DOMAIN f.metadata = DOMAIN w.metadata
            /\ f.networkName = FinalName(w.networkName) /\ f.isFinal
            /\ f.L2TCMInitState = w.L2TCMInitState /\ f.semaphoreInitState = w.semaphoreInitState
            /\ f.DMARequests = w.DMARequests /\ f.NSPMulticastTables = w.NSPMulticastTables
            /\ f.HostMulticastTable = w.HostMulticastTable /\ f.ThreadDescriptors = w.ThreadDescriptors
            /\ f.ConstantMappings = w.ConstantMappings
            /\ f.metadata.dmaRequests \in Nat /\ f.metadata.threadDescriptors \in Nat
<1> DEFINE m == w.metadata
           named == FinalName(w.networkName)
           header == Write(w.metadataBuffer, "header", <<m>>)
           name == Write(header, "name", <<named>>)
           sems == WriteIfAny(name, "word", w.semaphoreInitState)
           image == WriteIfAny(sems, "byte", w.L2TCMInitState)
           requests == FiniDMARequests(image, w.DMARequests, m.dmaRequests)
           nsps == FiniNSPTables(requests, TablesOf(w))
           host == FiniHostTable(nsps, w.HostMulticastTable)
           threads == WriteEach(host, "thread", w.ThreadDescriptors, m.threadDescriptors)
           mappings == WriteIfAny(threads, "mapping", w.ConstantMappings)
           fixed == [m EXCEPT !.networkName = name.at, !.semaphoreInitState = sems.at,
                  !.L2TCMInitState = image.at, !.L2TCMInitSize = Len(w.L2TCMInitState),
                  !.dmaRequests = requests.at, !.numDMARequests = Len(w.DMARequests),
                  !.nspMulticastTables = nsps.at, !.hostMulticastTable = host.at,
                  !.threadDescriptors = threads.at, !.numThreadDescriptors = Len(w.ThreadDescriptors),
                  !.constantMappings = mappings.at, !.numConstantMappings = Len(w.ConstantMappings)]
           last == Overwrite(mappings, "header", fixed)
           f == FinalizeRaw(w)
<1>1. f = [w EXCEPT !.metadata = fixed, !.networkName = named, !.constMappingCores = {},
                    !.metadataBuffer = last, !.isFinal = TRUE]
  BY DEF FinalizeRaw, FinalName, TablesOf, WriteEach
<1>2. WriterFields \subseteq DOMAIN w /\ HeaderFields \subseteq DOMAIN m
  BY DEF WriterOK
<1>3. /\ m.version = Version /\ m.dmaRequests \in Nat /\ m.threadDescriptors \in Nat
      /\ m.numSemaphores = Len(w.semaphoreInitState)
  BY DEF WriterOK
<1>4. /\ Len(w.semaphoreInitState) \in Nat /\ Len(w.L2TCMInitState) \in Nat
      /\ Len(w.HostMulticastTable) \in Nat /\ Len(w.ThreadDescriptors) \in Nat
      /\ Len(w.ConstantMappings) \in Nat /\ Countable(w.DMARequests)
  BY DEF WriterOK, RequestsOK, IsSequence
<1>5. Len(TablesOf(w)) \in Nat /\ \A c \in 1 .. Len(TablesOf(w)) : Len(TablesOf(w)[c]) \in Nat
  BY TablesOfWriter DEF IsSequence
<1>6. BufferOK(w.metadataBuffer)
  BY DEF WriterOK
<1>7. /\ "name" \in ArrayTypes \union {"name"} /\ "word" \in ArrayTypes \union {"name"}
      /\ "byte" \in ArrayTypes \union {"name"} /\ "mapping" \in ArrayTypes \union {"name"}
      /\ "thread" \in ArrayTypes
  BY DEF ArrayTypes
<1>8. Full(header)
  BY <1>6, HeaderWritten
<1> HIDE DEF f, last, header
<1>9. Stores(header, name, "name", <<named>>)
  <2> DEFINE names == <<named>>
  <2>1. Len(names) \in Nat
    OBVIOUS
  <2> HIDE DEF names
  <2>2. Stores(header, Write(header, "name", names), "name", names)
    BY <1>7, <1>8, <2>1, WriteStores
  <2> QED
    BY <2>2 DEF names
<1> HIDE DEF name
<1>10. Stores(name, sems, "word", w.semaphoreInitState)
  BY <1>4, <1>7, <1>9, WriteStores DEF Stores
<1> HIDE DEF sems
<1>11. Stores(sems, image, "byte", w.L2TCMInitState)
  BY <1>4, <1>7, <1>10, WriteStores DEF Stores
<1> HIDE DEF image
<1>12. Full(requests) /\ Grows(image, requests) /\ RequestsStand(requests, requests.at, w.DMARequests)
  <2>1. Full(image)
    BY <1>11 DEF Stores
  <2> QED
    BY <1>3, <1>4, <2>1, RequestsStored
<1> HIDE DEF requests
<1>13. Full(nsps) /\ Grows(requests, nsps) /\ TablesStand(nsps, nsps.at, TablesOf(w), "nspEntry")
  BY <1>5, <1>12, TablesStored
<1> HIDE DEF nsps
<1>14. Full(host) /\ Grows(nsps, host) /\ TablesStand(host, host.at, <<w.HostMulticastTable>>, "hostEntry")
  BY <1>4, <1>13, HostTableStored
<1> HIDE DEF host
<1>15. Stores(host, threads, "thread", w.ThreadDescriptors)
  BY <1>3, <1>4, <1>7, <1>14, EachStored
<1> HIDE DEF threads
<1>16. Stores(threads, mappings, "mapping", w.ConstantMappings)
  BY <1>4, <1>7, <1>15, WriteStores DEF Stores
<1> HIDE DEF mappings, fixed
<1>17. Full(last) /\ Grows(mappings, last) /\ At(last, "header", 0) = fixed
  <2>1. Full(mappings)
    BY <1>16 DEF Stores
  <2> QED
    BY <2>1, OverwriteHolds DEF last
<1>18. /\ BufferOK(name) /\ BufferOK(sems) /\ BufferOK(image) /\ BufferOK(requests) /\ BufferOK(nsps)
       /\ BufferOK(host) /\ BufferOK(threads) /\ BufferOK(mappings) /\ BufferOK(last)
  BY <1>9, <1>10, <1>11, <1>12, <1>13, <1>14, <1>15, <1>16, <1>17 DEF Stores, Full
<1>19. Grows(threads, last)
  BY <1>16, <1>17, <1>18, GrowsOn DEF Stores
<1>20. Grows(host, last)
  BY <1>15, <1>18, <1>19, GrowsOn DEF Stores
<1>21. Grows(nsps, last)
  BY <1>14, <1>18, <1>20, GrowsOn
<1>22. Grows(requests, last)
  BY <1>13, <1>18, <1>21, GrowsOn
<1>23. Grows(image, last)
  BY <1>12, <1>18, <1>22, GrowsOn
<1>24. Grows(sems, last)
  BY <1>11, <1>18, <1>23, GrowsOn DEF Stores
<1>25. Grows(name, last)
  BY <1>10, <1>18, <1>24, GrowsOn DEF Stores
<1>26. Holds(last, "name", name.at, <<named>>)
  BY <1>9, <1>25, HoldsOn DEF Stores
<1>27. Holds(last, "word", sems.at, w.semaphoreInitState)
  BY <1>10, <1>24, HoldsOn DEF Stores
<1>28. Holds(last, "byte", image.at, w.L2TCMInitState)
  BY <1>11, <1>23, HoldsOn DEF Stores
<1>29. RequestsStand(last, requests.at, w.DMARequests)
  BY <1>12, <1>22, StandsOn
<1>30. TablesStand(last, nsps.at, TablesOf(w), "nspEntry")
  BY <1>13, <1>21, StandsOn
<1>31. TablesStand(last, host.at, <<w.HostMulticastTable>>, "hostEntry")
  BY <1>14, <1>20, StandsOn
<1>32. Holds(last, "thread", threads.at, w.ThreadDescriptors)
  BY <1>15, <1>19, HoldsOn DEF Stores
<1>33. Holds(last, "mapping", mappings.at, w.ConstantMappings)
  BY <1>16, <1>17, HoldsOn DEF Stores
<1>34. /\ name.at \in Nat /\ requests.at \in Nat /\ host.at \in Nat /\ threads.at \in Nat
  BY <1>18 DEF BufferOK
<1>35. /\ DOMAIN fixed = DOMAIN m
       /\ fixed.version = m.version /\ fixed.sizes = m.sizes /\ fixed.numNSPs = m.numNSPs
       /\ fixed.numSemaphores = m.numSemaphores
       /\ fixed.networkName = name.at /\ fixed.semaphoreInitState = sems.at
       /\ fixed.L2TCMInitState = image.at /\ fixed.L2TCMInitSize = Len(w.L2TCMInitState)
       /\ fixed.dmaRequests = requests.at /\ fixed.numDMARequests = Len(w.DMARequests)
       /\ fixed.nspMulticastTables = nsps.at /\ fixed.hostMulticastTable = host.at
       /\ fixed.threadDescriptors = threads.at /\ fixed.numThreadDescriptors = Len(w.ThreadDescriptors)
       /\ fixed.constantMappings = mappings.at /\ fixed.numConstantMappings = Len(w.ConstantMappings)
  <2> HIDE DEF m
  <2> QED
    BY <1>2 DEF fixed, HeaderFields
<1>36. /\ DOMAIN f = DOMAIN w /\ f.metadata = fixed /\ f.networkName = named /\ f.isFinal
       /\ f.metadataBuffer = last
       /\ f.L2TCMInitState = w.L2TCMInitState /\ f.semaphoreInitState = w.semaphoreInitState
       /\ f.DMARequests = w.DMARequests /\ f.NSPMulticastTables = w.NSPMulticastTables
       /\ f.HostMulticastTable = w.HostMulticastTable /\ f.ThreadDescriptors = w.ThreadDescriptors
       /\ f.ConstantMappings = w.ConstantMappings
  BY <1>1, <1>2 DEF WriterFields
<1> HIDE DEF named
<1>37. Structure(last, fixed, w)
  <2>1. Holds(last, "name", fixed.networkName, <<FinalName(w.networkName)>>)
    BY <1>26, <1>35 DEF named
  <2>2. /\ Holds(last, "word", fixed.semaphoreInitState, w.semaphoreInitState)
        /\ Holds(last, "byte", fixed.L2TCMInitState, w.L2TCMInitState)
        /\ Holds(last, "thread", fixed.threadDescriptors, w.ThreadDescriptors)
        /\ Holds(last, "mapping", fixed.constantMappings, w.ConstantMappings)
    BY <1>27, <1>28, <1>32, <1>33, <1>35
  <2>3. /\ RequestsStand(last, fixed.dmaRequests, w.DMARequests)
        /\ TablesStand(last, fixed.nspMulticastTables, TablesOf(w), "nspEntry")
        /\ TablesStand(last, fixed.hostMulticastTable, <<w.HostMulticastTable>>, "hostEntry")
    BY <1>29, <1>30, <1>31, <1>35
  <2>4. /\ fixed.version = Version /\ fixed.sizes = w.metadata.sizes /\ fixed.numNSPs = w.metadata.numNSPs
        /\ fixed.numSemaphores = Len(w.semaphoreInitState)
        /\ fixed.networkName \in Nat /\ fixed.hostMulticastTable \in Nat
    BY <1>3, <1>34, <1>35
  <2> QED
    BY <1>17, <1>35, <2>1, <2>2, <2>3, <2>4 DEF Structure
<1>38. /\ f.metadata.dmaRequests \in Nat /\ f.metadata.threadDescriptors \in Nat
       /\ DOMAIN f.metadata = DOMAIN w.metadata
  BY <1>34, <1>35, <1>36
<1> QED
  BY <1>18, <1>36, <1>37, <1>38 DEF named, f

-----------------------------------------------------------------------------
(* Both writers hold the same description.                                 *)

\* f collects the requests a structure can hold, position by position.
Collects(f, requests, n) ==
  f[0] = <<>> /\ \A i \in 1 .. n : f[i] = IF requests[i].request.devAddrSpace = Dynamic THEN f[i - 1]
                                          ELSE Append(f[i - 1], requests[i])

\* There is such a function, and Expressible is its last value.
LEMMA ExpressibleCollects ==
  ASSUME NEW requests \in Seq(Requests)
  PROVE  \E f : Collects(f, requests, Len(requests)) /\ Expressible(requests) = f[Len(requests)]
<1> DEFINE n == Len(requests)
           next(x, i) == IF requests[i].request.devAddrSpace = Dynamic THEN x ELSE Append(x, requests[i])
           step == [x \in Seq(Requests) \X Nat |-> IF x[2] \in 1 .. n THEN next(x[1], x[2]) ELSE x[1]]
           Solves(f) == f = [i \in 0 .. n |-> IF i = 0 THEN <<>> ELSE next(f[i - 1], i)]
<1>1. n \in Nat /\ \A i \in 1 .. n : requests[i] \in Requests
  BY ElementsTyped
<1>2. Expressible(requests) = (CHOOSE f : Solves(f))[n]
  BY DEF Expressible
<1> HIDE DEF n
<1>3. ASSUME NEW x \in Seq(Requests), NEW i \in 1 .. n PROVE next(x, i) \in Seq(Requests)
  BY <1>1
<1>4. step \in [Seq(Requests) \X Nat -> Seq(Requests)]
  <2>1. ASSUME NEW x \in Seq(Requests) \X Nat
        PROVE  (IF x[2] \in 1 .. n THEN next(x[1], x[2]) ELSE x[1]) \in Seq(Requests)
    <3>1. x[1] \in Seq(Requests)
      OBVIOUS
    <3> HIDE DEF next
    <3> QED
      BY <1>3, <3>1
  <2> HIDE DEF next
  <2> QED
    BY <2>1
<1> HIDE DEF next
<1>5. \A x \in Seq(Requests) : \A i \in 1 .. n : step[<<x, i>>] = next(x, i)
  <2> TAKE x \in Seq(Requests)
  <2> TAKE i \in 1 .. n
  <2>1. <<x, i>> \in Seq(Requests) \X Nat
    BY <1>1
  <2> QED
    BY <2>1
<1> HIDE DEF step
<1>6. <<>> \in Seq(Requests)
  OBVIOUS
<1>7. PICK g \in [0 .. n -> Seq(Requests)] : DefinedFromZero(g, n, <<>>, step)
  BY <1>1, <1>4, <1>6, RecursionFromZero
<1>8. g[0] = <<>> /\ \A i \in 1 .. n : g[i] = next(g[i - 1], i)
  <2>1. \A i \in 1 .. n : g[i - 1] \in Seq(Requests)
    BY <1>1
  <2> QED
    BY <1>5, <1>7, <2>1 DEF DefinedFromZero
<1>9. Solves(g)
  <2>1. \A i \in 0 .. n : g[i] = IF i = 0 THEN <<>> ELSE next(g[i - 1], i)
    <3> TAKE i \in 0 .. n
    <3>1. i # 0 => i \in 1 .. n
      BY <1>1
    <3> QED
      BY <1>8, <3>1
  <2>2. g = [i \in 0 .. n |-> g[i]]
    OBVIOUS
  <2> QED
    BY <2>1, <2>2
<1>10. Solves(CHOOSE f : Solves(f))
  BY <1>9
<1>11. ASSUME NEW f, Solves(f) PROVE Collects(f, requests, n)
  <2>1. \A i \in 0 .. n : f[i] = IF i = 0 THEN <<>> ELSE next(f[i - 1], i)
    BY <1>11
  <2>2. 0 \in 0 .. n /\ \A i \in 1 .. n : i \in 0 .. n /\ i # 0
    BY <1>1
  <2> QED
    BY <2>1, <2>2 DEF Collects, next
<1> HIDE DEF Solves
<1> QED
  BY <1>2, <1>10, <1>11 DEF n

\* Without requests there are none to hold.
LEMMA NothingExpressible == Expressible(<<>>) = <<>>
<1>1. <<>> \in Seq(Requests) /\ Len(<<>>) = 0
  OBVIOUS
<1>2. PICK f : Collects(f, <<>>, 0) /\ Expressible(<<>>) = f[0]
  BY <1>1, ExpressibleCollects
<1> QED
  BY <1>2 DEF Collects

\* One more request is held, unless it is in the dynamic space.
LEMMA ExpressibleGrows ==
  ASSUME NEW s \in Seq(Requests), NEW r \in Requests
  PROVE  Expressible(Append(s, r)) =
           IF r.request.devAddrSpace = Dynamic THEN Expressible(s) ELSE Append(Expressible(s), r)
<1> DEFINE n == Len(s)
           t == Append(s, r)
<1>1. n \in Nat /\ t \in Seq(Requests) /\ Len(t) = n + 1 /\ t[n + 1] = r /\ \A i \in 1 .. n : t[i] = s[i]
  OBVIOUS
<1>2. PICK f : Collects(f, s, n) /\ Expressible(s) = f[n]
  BY ExpressibleCollects
<1> HIDE DEF t
<1>3. PICK g : Collects(g, t, n + 1) /\ Expressible(t) = g[n + 1]
  BY <1>1, ExpressibleCollects
<1> HIDE DEF n
<1> DEFINE S == {i \in 0 .. n : g[i] = f[i]}
<1>4. 0 \in S
  BY <1>1, <1>2, <1>3 DEF Collects
<1>5. ASSUME NEW i \in 1 .. n, i - 1 \in S PROVE i \in S
  <2>1. i \in 1 .. n + 1 /\ i \in 0 .. n /\ t[i] = s[i] /\ g[i - 1] = f[i - 1]
    BY <1>1, <1>5
  <2> QED
    BY <1>2, <1>3, <2>1 DEF Collects
<1> HIDE DEF S
<1>6. 0 .. n \subseteq S
  BY <1>1, <1>4, <1>5, FromZero
<1>7. g[n] = f[n]
  <2>1. n \in 0 .. n
    BY <1>1
  <2> QED
    BY <1>6, <2>1 DEF S
<1>8. g[n + 1] = IF r.request.devAddrSpace = Dynamic THEN g[n] ELSE Append(g[n], r)
  <2>1. n + 1 \in 1 .. n + 1 /\ n + 1 - 1 = n
    BY <1>1
  <2> QED
    BY <1>1, <1>3, <2>1 DEF Collects
<1> QED
  BY <1>2, <1>3, <1>7, <1>8 DEF t

\* Appending makes a longer sequence.
LEMMA Longer ==
  ASSUME NEW s, IsSequence(s), NEW x
  PROVE  /\ IsSequence(Append(s, x)) /\ Len(Append(s, x)) = Len(s) + 1
         /\ Append(s, x)[Len(s) + 1] = x /\ \A i \in 1 .. Len(s) : Append(s, x)[i] = s[i]
<1> DEFINE V == {s[i] : i \in 1 .. Len(s)} \union {x}
           t == Append(s, x)
           n == Len(s)
<1>1. n \in Nat /\ s = [i \in 1 .. n |-> s[i]]
  BY DEF IsSequence
<1>2. \A i \in 1 .. n : s[i] \in V
  OBVIOUS
<1>3. x \in V
  OBVIOUS
<1> HIDE DEF V
<1>4. [i \in 1 .. n |-> s[i]] \in Seq(V)
  BY <1>1, <1>2
<1>5. s \in Seq(V)
  BY <1>1, <1>4
<1> HIDE DEF n
<1>6. t \in Seq(V) /\ Len(t) = n + 1 /\ t[n + 1] = x /\ \A i \in 1 .. n : t[i] = s[i]
  BY <1>3, <1>5 DEF n
<1> HIDE DEF t
<1>7. t = [i \in 1 .. n + 1 |-> t[i]] /\ n + 1 \in Nat
  BY <1>1, <1>6
<1>8. IsSequence(t)
  BY <1>7, PositionsMakeSequence
<1> QED
  BY <1>6, <1>8 DEF t, n

\* Members of Seq are sequences.
LEMMA SequencesAre == ASSUME NEW V, NEW s \in Seq(V) PROVE IsSequence(s)
  BY DEF IsSequence

\* Fewer operations of a request than its eight bits count (AICMetadata.h:143), and no more NSPs than
\* the writer has tables for (AICMetadataWriter.h:48): the code leaves both to its caller.
WithinTheStructure ==
  /\ NSPCounts \subseteq 0 .. MaxNSPs
  /\ \A r \in Requests : Len(r.semaphoreOps) < MaxOps /\ Len(r.doorbellOps) < MaxOps

\* A request a caller makes can be added.
LEMMA RequestsLonger ==
  ASSUME WithinTheStructure, NEW s, RequestsOK(s), NEW r \in Requests
  PROVE  RequestsOK(Append(s, r))
<1> DEFINE n == Len(s)
           t == Append(s, r)
<1>1. IsSequence(s) /\ n \in Nat
  BY DEF RequestsOK, IsSequence
<1>2. IsSequence(t) /\ Len(t) = n + 1 /\ t[n + 1] = r /\ \A i \in 1 .. n : t[i] = s[i]
  BY <1>1, Longer
<1>3. /\ r = [request |-> r.request, semaphoreOps |-> r.semaphoreOps, doorbellOps |-> r.doorbellOps]
      /\ r.semaphoreOps \in Seq(SemaphoreOps) /\ r.doorbellOps \in Seq(DoorbellOps)
  <2>1. r \in [request : {q.request : q \in Requests},
               semaphoreOps : Seq(SemaphoreOps), doorbellOps : Seq(DoorbellOps)]
    BY RequestsAssumption
  <2> QED
    BY <2>1
<1>4. /\ IsSequence(r.semaphoreOps) /\ IsSequence(r.doorbellOps)
      /\ Len(r.semaphoreOps) \in Nat /\ Len(r.doorbellOps) \in Nat
      /\ Len(r.semaphoreOps) < MaxOps /\ Len(r.doorbellOps) < MaxOps
  BY <1>3, SequencesAre DEF WithinTheStructure, IsSequence
<1> HIDE DEF t
<1>5. ASSUME NEW i \in 1 .. n + 1
      PROVE  /\ Len(t[i].semaphoreOps) \in Nat /\ Len(t[i].semaphoreOps) < MaxOps
             /\ Len(t[i].doorbellOps) \in Nat /\ Len(t[i].doorbellOps) < MaxOps
             /\ t[i] = [request |-> t[i].request, semaphoreOps |-> t[i].semaphoreOps,
                        doorbellOps |-> t[i].doorbellOps]
             /\ IsSequence(t[i].semaphoreOps) /\ IsSequence(t[i].doorbellOps)
  <2>1. CASE i = n + 1
    BY <1>2, <1>3, <1>4, <2>1
  <2>2. CASE i # n + 1
    <3>1. i \in 1 .. n /\ t[i] = s[i]
      BY <1>1, <1>2, <2>2
    <3> QED
      BY <3>1 DEF RequestsOK, Countable
  <2> QED
    BY <2>1, <2>2
<1>6. Len(t) = n + 1 /\ n + 1 \in Nat
  BY <1>1, <1>2
<1> HIDE DEF n
<1> QED
  BY <1>2, <1>5, <1>6 DEF RequestsOK, Countable, t

TableFields == {"sizes", "numNSPs", "networkName", "semaphoreInitState", "L2TCMInitState", "nspMulticastTables",
                "hostMulticastTable", "threadDescriptors", "constantMappings"}

\* Both writers hold the same description, but for what the structure cannot express.
SameTables ==
  /\ IsSequence(table.nspMulticastTables) /\ Len(table.nspMulticastTables) <= MaxNSPs
  /\ table.numNSPs <= Len(table.nspMulticastTables)
  /\ \A c \in 1 .. MaxNSPs :
       raw.NSPMulticastTables[c] =
         IF c <= Len(table.nspMulticastTables) THEN table.nspMulticastTables[c] ELSE <<>>
SameRequests == dmaRequests \in Seq(Requests) /\ raw.DMARequests = Expressible(dmaRequests)
SameDescription ==
  /\ TableFields \subseteq DOMAIN table
  /\ raw.metadata.sizes = table.sizes /\ raw.metadata.numNSPs = table.numNSPs
  /\ FinalName(raw.networkName) = FinalName(table.networkName)
  /\ raw.semaphoreInitState = table.semaphoreInitState /\ raw.L2TCMInitState = table.L2TCMInitState
  /\ raw.HostMulticastTable = table.hostMulticastTable
  /\ raw.ThreadDescriptors = table.threadDescriptors /\ raw.ConstantMappings = table.constantMappings

\* What both forms last finalized say is what was described, as long as no call came since.
FormsUpToDate ==
  /\ calls \in Nat /\ rawAt \in Nat /\ flatAt \in Nat /\ rawAt <= calls /\ flatAt <= calls
  /\ raw.isFinal /\ rawAt = calls => ReadRaw(raw.metadataBuffer, Version) = Description(raw)
  /\ metadataBuffer # NoImage /\ flatAt = calls => FlatView(metadataBuffer) = Description(raw)

DescriptionInv == WriterOK(raw) /\ SameTables /\ SameRequests /\ SameDescription /\ FormsUpToDate

-----------------------------------------------------------------------------

\* The invariant reads two parts of the state and the calls.
LEMMA DescriptionLeft ==
  DescriptionInv /\ UNCHANGED <<raw, table, dmaRequests, metadataBuffer, calls, rawAt, flatAt>> => DescriptionInv'
  BY DEF DescriptionInv, SameTables, SameRequests, SameDescription, FormsUpToDate

\* After a call neither form is up to date.
LEMMA CallOutdates ==
  ASSUME DescriptionInv, Call, WriterOK(raw'), SameTables', SameRequests', SameDescription'
  PROVE  DescriptionInv'
<1>1. calls' = calls + 1 /\ rawAt' = rawAt /\ flatAt' = flatAt
  BY DEF Call, finals
<1>2. calls \in Nat /\ rawAt \in Nat /\ flatAt \in Nat /\ rawAt <= calls /\ flatAt <= calls
  BY DEF DescriptionInv, FormsUpToDate
<1>3. calls' \in Nat /\ rawAt' < calls' /\ flatAt' < calls'
  BY <1>1, <1>2
<1>4. FormsUpToDate'
  BY <1>1, <1>2, <1>3 DEF FormsUpToDate
<1> QED
  BY <1>4 DEF DescriptionInv

\* A step that leaves the tables of the NSPs, or the requests, in both writers.
TablesLeft == raw'.NSPMulticastTables = raw.NSPMulticastTables
              /\ table'.nspMulticastTables = table.nspMulticastTables /\ table'.numNSPs = table.numNSPs
RequestsLeft == raw'.DMARequests = raw.DMARequests /\ dmaRequests' = dmaRequests

\* A step that leaves them keeps them the same.
LEMMA TablesAreLeft == SameTables /\ TablesLeft => SameTables'
  BY DEF SameTables, TablesLeft

\* Likewise for the requests.
LEMMA RequestsAreLeft == SameRequests /\ RequestsLeft => SameRequests'
  BY DEF SameRequests, RequestsLeft

\* How many NSPs there are: both writers have room for their tables.
LEMMA SetNumNSPsKeeps ==
  ASSUME WithinTheStructure, DescriptionInv, NEW n \in NSPCounts, SetNumNSPs(n) PROVE DescriptionInv'
<1> DEFINE t == table.nspMulticastTables
           more == IF n > Len(t) THEN n - Len(t) ELSE 0
           new == [c \in 1 .. more |-> <<>>]
<1>1. WriterOK(raw) /\ SameTables /\ SameRequests /\ SameDescription
  BY DEF DescriptionInv
<1>2. WriterFields \subseteq DOMAIN raw /\ HeaderFields \subseteq DOMAIN raw.metadata /\ TableFields \subseteq DOMAIN table
  BY <1>1 DEF WriterOK, SameDescription
<1>3. /\ DOMAIN raw' = DOMAIN raw /\ DOMAIN raw'.metadata = DOMAIN raw.metadata
      /\ raw'.metadata.numNSPs = n
      /\ raw'.metadata.version = raw.metadata.version /\ raw'.metadata.sizes = raw.metadata.sizes
      /\ raw'.metadata.dmaRequests = raw.metadata.dmaRequests
      /\ raw'.metadata.threadDescriptors = raw.metadata.threadDescriptors
      /\ raw'.metadata.numSemaphores = raw.metadata.numSemaphores
      /\ raw'.networkName = raw.networkName /\ raw'.L2TCMInitState = raw.L2TCMInitState
      /\ raw'.semaphoreInitState = raw.semaphoreInitState /\ raw'.DMARequests = raw.DMARequests
      /\ raw'.NSPMulticastTables = raw.NSPMulticastTables
      /\ raw'.HostMulticastTable = raw.HostMulticastTable /\ raw'.ThreadDescriptors = raw.ThreadDescriptors
      /\ raw'.ConstantMappings = raw.ConstantMappings /\ raw'.metadataBuffer = raw.metadataBuffer
  BY <1>2 DEF SetNumNSPs, WriterFields, HeaderFields
<1>4. /\ DOMAIN table' = DOMAIN table /\ table'.numNSPs = n /\ table'.nspMulticastTables = t \o new
      /\ table'.sizes = table.sizes /\ table'.networkName = table.networkName
      /\ table'.semaphoreInitState = table.semaphoreInitState /\ table'.L2TCMInitState = table.L2TCMInitState
      /\ table'.hostMulticastTable = table.hostMulticastTable
      /\ table'.threadDescriptors = table.threadDescriptors /\ table'.constantMappings = table.constantMappings
  BY <1>2 DEF SetNumNSPs, TableFields
<1>5. n \in 0 .. MaxNSPs
  BY DEF WithinTheStructure
<1>6. IsSequence(t) /\ Len(t) \in Nat /\ Len(t) <= MaxNSPs /\ MaxNSPs \in Nat
  BY <1>1, SizesAssumption DEF SameTables, IsSequence
<1>7. /\ IsSequence(t \o new) /\ Len(t \o new) = Len(t) + more
      /\ \A c \in 1 .. Len(t) + more : (t \o new)[c] = IF c <= Len(t) THEN t[c] ELSE <<>>
  <2> DEFINE V == {t[i] : i \in 1 .. Len(t)} \union {<<>>}
             k == Len(t)
             u == t \o new
  <2>1. t \in Seq({t[i] : i \in 1 .. Len(t)})
    BY <1>6, SequenceOfItself
  <2>2. t \in Seq(V)
    BY <2>1
  <2>3. more \in Nat
    BY <1>5, <1>6
  <2>4. <<>> \in V
    OBVIOUS
  <2> HIDE DEF V, more
  <2>5. new \in Seq(V) /\ Len(new) = more /\ \A c \in 1 .. more : new[c] = <<>>
    BY <2>3, <2>4
  <2> HIDE DEF new
  <2>6. /\ u \in Seq(V) /\ Len(u) = k + more
        /\ \A c \in 1 .. k + more : u[c] = IF c <= k THEN t[c] ELSE new[c - k]
    BY <2>2, <2>5
  <2>7. \A c \in 1 .. k + more : c > k => c - k \in 1 .. more
    BY <1>6, <2>3
  <2> HIDE DEF u, k
  <2>8. IsSequence(u)
    BY <2>6, SequencesAre
  <2>9. \A c \in 1 .. k + more : u[c] = IF c <= k THEN t[c] ELSE <<>>
    <3> TAKE c \in 1 .. k + more
    <3>1. c \in Nat /\ k \in Nat
      BY <1>6 DEF k
    <3> QED
      BY <2>5, <2>6, <2>7, <3>1
  <2> QED
    BY <2>6, <2>8, <2>9 DEF u, k
<1> HIDE DEF t, new
<1>8. Len(t) + more <= MaxNSPs /\ n <= Len(t) + more /\ more \in Nat
  BY <1>5, <1>6
<1> HIDE DEF more
<1>9. SameTables'
  <2>1. \A c \in 1 .. MaxNSPs : raw.NSPMulticastTables[c] = IF c <= Len(t) THEN t[c] ELSE <<>>
    BY <1>1 DEF SameTables, t
  <2>2. ASSUME NEW c \in 1 .. MaxNSPs
        PROVE  raw.NSPMulticastTables[c] = IF c <= Len(t) + more THEN (t \o new)[c] ELSE <<>>
    <3>1. CASE c <= Len(t) + more
      <4>1. c \in 1 .. Len(t) + more
        BY <1>6, <1>8, <3>1
      <4> QED
        BY <1>7, <2>1, <3>1, <4>1
    <3>2. CASE ~(c <= Len(t) + more)
      <4>1. ~(c <= Len(t))
        BY <1>6, <1>8, <3>2
      <4> QED
        BY <2>1, <3>2, <4>1
    <3> QED
      BY <3>1, <3>2
  <2> QED
    BY <1>3, <1>4, <1>7, <1>8, <2>2 DEF SameTables
<1>10. WriterOK(raw')
  BY <1>1, <1>3, <1>5 DEF WriterOK
<1>11. SameRequests'
  BY <1>1, <1>3, RequestsAreLeft DEF RequestsLeft, SetNumNSPs, Both
<1>12. SameDescription'
  BY <1>1, <1>3, <1>4 DEF SameDescription
<1>13. Call
  BY DEF SetNumNSPs, Both
<1> QED
  BY <1>9, <1>10, <1>11, <1>12, <1>13, CallOutdates

\* A call changes some fields of the writers.
WriterKeeps(fields) ==
  DOMAIN raw' = DOMAIN raw /\ \A f \in WriterFields \ fields : raw'[f] = raw[f]
TableKeeps(fields) ==
  DOMAIN table' = DOMAIN table /\ \A f \in TableFields \ fields : table'[f] = table[f]

\* The setters of single numbers.
LEMMA SetSizesKeeps ==
  ASSUME DescriptionInv, NEW s, SetSizes(s) PROVE DescriptionInv'
<1>1. WriterOK(raw) /\ SameTables /\ SameRequests /\ SameDescription
  BY DEF DescriptionInv
<1>2. WriterFields \subseteq DOMAIN raw /\ HeaderFields \subseteq DOMAIN raw.metadata /\ TableFields \subseteq DOMAIN table
  BY <1>1 DEF WriterOK, SameDescription
<1>3. WriterKeeps({"metadata"}) /\ raw'.metadata = [raw.metadata EXCEPT !.sizes = s]
  BY <1>2 DEF SetSizes, WriterFields, WriterKeeps
<1>4. TableKeeps({"sizes"}) /\ table'.sizes = s
  BY <1>2 DEF SetSizes, TableFields, TableKeeps
<1>5. WriterOK(raw')
  BY <1>1, <1>3 DEF WriterOK, WriterKeeps, WriterFields, HeaderFields
<1>6. SameTables'
  BY <1>1, <1>2, <1>3, <1>4, TablesAreLeft DEF TablesLeft, WriterKeeps, TableKeeps, WriterFields, TableFields
<1>7. SameRequests'
  BY <1>1, <1>3, RequestsAreLeft DEF RequestsLeft, SetSizes, Both, WriterKeeps, WriterFields
<1>8. SameDescription'
  BY <1>1, <1>2, <1>3, <1>4 DEF SameDescription, WriterKeeps, TableKeeps, WriterFields, TableFields, HeaderFields
<1>9. Call
  BY DEF SetSizes, Both
<1> QED
  BY <1>5, <1>6, <1>7, <1>8, <1>9, CallOutdates

\* The name.
LEMMA SetNetworkNameKeeps ==
  ASSUME DescriptionInv, NEW n, SetNetworkName(n) PROVE DescriptionInv'
<1>1. WriterOK(raw) /\ SameTables /\ SameRequests /\ SameDescription
  BY DEF DescriptionInv
<1>2. WriterFields \subseteq DOMAIN raw /\ HeaderFields \subseteq DOMAIN raw.metadata /\ TableFields \subseteq DOMAIN table
  BY <1>1 DEF WriterOK, SameDescription
<1>3. WriterKeeps({"networkName"}) /\ raw'.networkName = n
  BY <1>2 DEF SetNetworkName, WriterFields, WriterKeeps
<1>4. TableKeeps({"networkName"}) /\ table'.networkName = n
  BY <1>2 DEF SetNetworkName, TableFields, TableKeeps
<1>6. WriterOK(raw')
  BY <1>1, <1>3 DEF WriterOK, WriterKeeps, WriterFields, HeaderFields
<1>7. SameTables'
  BY <1>1, <1>2, <1>3, <1>4, TablesAreLeft DEF TablesLeft, WriterKeeps, TableKeeps, WriterFields, TableFields
<1>8. SameRequests'
  BY <1>1, <1>3, RequestsAreLeft DEF RequestsLeft, SetNetworkName, Both, WriterKeeps, WriterFields
<1>9. SameDescription'
  BY <1>1, <1>2, <1>3, <1>4 DEF SameDescription, WriterKeeps, TableKeeps, WriterFields, TableFields, HeaderFields
<1>10. Call
  BY DEF SetNetworkName, Both
<1> QED
  BY <1>6, <1>7, <1>8, <1>9, <1>10, CallOutdates

\* What a sequence is resized to is a sequence.
LEMMA ResizedIs ==
  ASSUME NEW s, NEW n \in Nat PROVE IsSequence(Resized(s, n)) /\ Len(Resized(s, n)) = n
<1> DEFINE t == Resized(s, n)
<1>1. t = [i \in 1 .. n |-> t[i]]
  BY DEF Resized
<1> HIDE DEF t
<1> QED
  BY <1>1, PositionsMakeSequence, LengthByPositions DEF t

\* So is one with an element replaced.
LEMMA ReplacedIs ==
  ASSUME NEW s, IsSequence(s), NEW i, NEW v
  PROVE  IsSequence([s EXCEPT ![i] = v]) /\ Len([s EXCEPT ![i] = v]) = Len(s)
<1> DEFINE t == [s EXCEPT ![i] = v]
           n == Len(s)
<1>1. n \in Nat /\ s = [j \in 1 .. n |-> s[j]]
  BY DEF IsSequence
<1> HIDE DEF n
<1>2. t = [j \in 1 .. n |-> t[j]]
  BY <1>1
<1> HIDE DEF t
<1> QED
  BY <1>1, <1>2, PositionsMakeSequence, LengthByPositions DEF t, n

\* The semaphores, and what they start with.
LEMMA SetNumSemaphoresKeeps ==
  ASSUME DescriptionInv, NEW n \in SemaphoreCounts, SetNumSemaphores(n) PROVE DescriptionInv'
<1>1. WriterOK(raw) /\ SameTables /\ SameRequests /\ SameDescription
  BY DEF DescriptionInv
<1>2. WriterFields \subseteq DOMAIN raw /\ HeaderFields \subseteq DOMAIN raw.metadata /\ TableFields \subseteq DOMAIN table
  BY <1>1 DEF WriterOK, SameDescription
<1>3. WriterKeeps({"metadata", "semaphoreInitState"}) /\ raw'.metadata = [raw.metadata EXCEPT !.numSemaphores = n]
      /\ raw'.semaphoreInitState = Resized(raw.semaphoreInitState, n)
  BY <1>2 DEF SetNumSemaphores, WriterFields, WriterKeeps
<1>4. TableKeeps({"semaphoreInitState"}) /\ table'.semaphoreInitState = Resized(table.semaphoreInitState, n)
  BY <1>2 DEF SetNumSemaphores, TableFields, TableKeeps
<1>5. IsSequence(Resized(raw.semaphoreInitState, n)) /\ Len(Resized(raw.semaphoreInitState, n)) = n
  BY CountsAssumption, ResizedIs
<1>6. WriterOK(raw')
  BY <1>1, <1>3, <1>5 DEF WriterOK, WriterKeeps, WriterFields, HeaderFields
<1>7. SameTables'
  BY <1>1, <1>2, <1>3, <1>4, TablesAreLeft DEF TablesLeft, WriterKeeps, TableKeeps, WriterFields, TableFields
<1>8. SameRequests'
  BY <1>1, <1>3, RequestsAreLeft DEF RequestsLeft, SetNumSemaphores, Both, WriterKeeps, WriterFields
<1>9. SameDescription'
  BY <1>1, <1>2, <1>3, <1>4, <1>5 DEF SameDescription, WriterKeeps, TableKeeps, WriterFields, TableFields, HeaderFields
<1>10. Call
  BY DEF SetNumSemaphores, Both
<1> QED
  BY <1>6, <1>7, <1>8, <1>9, <1>10, CallOutdates

\* One semaphore.
LEMMA InitSemaphoreKeeps ==
  ASSUME DescriptionInv, NEW i, NEW v, InitSemaphore(i, v) PROVE DescriptionInv'
<1>1. WriterOK(raw) /\ SameTables /\ SameRequests /\ SameDescription
  BY DEF DescriptionInv
<1>2. WriterFields \subseteq DOMAIN raw /\ HeaderFields \subseteq DOMAIN raw.metadata /\ TableFields \subseteq DOMAIN table
  BY <1>1 DEF WriterOK, SameDescription
<1>3. WriterKeeps({"semaphoreInitState"}) /\ raw'.semaphoreInitState = [raw.semaphoreInitState EXCEPT ![i] = v]
  BY <1>2 DEF InitSemaphore, WriterFields, WriterKeeps
<1>4. TableKeeps({"semaphoreInitState"}) /\ table'.semaphoreInitState = [table.semaphoreInitState EXCEPT ![i] = v]
  BY <1>2 DEF InitSemaphore, TableFields, TableKeeps
<1>5. /\ IsSequence([raw.semaphoreInitState EXCEPT ![i] = v])
      /\ Len([raw.semaphoreInitState EXCEPT ![i] = v]) = Len(raw.semaphoreInitState)
  BY <1>1, ReplacedIs DEF WriterOK
<1>6. WriterOK(raw')
  BY <1>1, <1>3, <1>5 DEF WriterOK, WriterKeeps, WriterFields, HeaderFields
<1>7. SameTables'
  BY <1>1, <1>2, <1>3, <1>4, TablesAreLeft DEF TablesLeft, WriterKeeps, TableKeeps, WriterFields, TableFields
<1>8. SameRequests'
  BY <1>1, <1>3, RequestsAreLeft DEF RequestsLeft, InitSemaphore, Both, WriterKeeps, WriterFields
<1>9. SameDescription'
  BY <1>1, <1>2, <1>3, <1>4, <1>5 DEF SameDescription, WriterKeeps, TableKeeps, WriterFields, TableFields, HeaderFields
<1>10. Call
  BY DEF InitSemaphore, Both
<1> QED
  BY <1>6, <1>7, <1>8, <1>9, <1>10, CallOutdates

\* The size of the L2TCM image.
LEMMA InitL2TCMResizeKeeps ==
  ASSUME DescriptionInv, NEW n \in ImageSizes, InitL2TCMResize(n) PROVE DescriptionInv'
<1>1. WriterOK(raw) /\ SameTables /\ SameRequests /\ SameDescription
  BY DEF DescriptionInv
<1>2. WriterFields \subseteq DOMAIN raw /\ HeaderFields \subseteq DOMAIN raw.metadata /\ TableFields \subseteq DOMAIN table
  BY <1>1 DEF WriterOK, SameDescription
<1>3. WriterKeeps({"L2TCMInitState"}) /\ raw'.L2TCMInitState = Resized(raw.L2TCMInitState, n)
  BY <1>2 DEF InitL2TCMResize, WriterFields, WriterKeeps
<1>4. TableKeeps({"L2TCMInitState"}) /\ table'.L2TCMInitState = Resized(table.L2TCMInitState, n)
  BY <1>2 DEF InitL2TCMResize, TableFields, TableKeeps
<1>5. IsSequence(Resized(raw.L2TCMInitState, n))
  BY ImageSizesAssumption, ResizedIs
<1>6. WriterOK(raw')
  BY <1>1, <1>3, <1>5 DEF WriterOK, WriterKeeps, WriterFields, HeaderFields
<1>7. SameTables'
  BY <1>1, <1>2, <1>3, <1>4, TablesAreLeft DEF TablesLeft, WriterKeeps, TableKeeps, WriterFields, TableFields
<1>8. SameRequests'
  BY <1>1, <1>3, RequestsAreLeft DEF RequestsLeft, InitL2TCMResize, Both, WriterKeeps, WriterFields
<1>9. SameDescription'
  BY <1>1, <1>2, <1>3, <1>4, <1>5 DEF SameDescription, WriterKeeps, TableKeeps, WriterFields, TableFields, HeaderFields
<1>10. Call
  BY DEF InitL2TCMResize, Both
<1> QED
  BY <1>6, <1>7, <1>8, <1>9, <1>10, CallOutdates

\* Bytes put into an image.
PutAt(image, i, bytes) ==
  [j \in 1 .. Len(image) |-> IF j \in i .. i + Len(bytes) - 1 THEN bytes[j - i + 1] ELSE image[j]]

\* A byte or a word of the image.
LEMMA InitL2TCMKeeps ==
  ASSUME DescriptionInv, NEW i, NEW bytes, InitL2TCM(i, bytes) PROVE DescriptionInv'
<1>1. WriterOK(raw) /\ SameTables /\ SameRequests /\ SameDescription
  BY DEF DescriptionInv
<1>2. WriterFields \subseteq DOMAIN raw /\ HeaderFields \subseteq DOMAIN raw.metadata /\ TableFields \subseteq DOMAIN table
  BY <1>1 DEF WriterOK, SameDescription
<1>3. WriterKeeps({"L2TCMInitState"}) /\ raw'.L2TCMInitState = PutAt(raw.L2TCMInitState, i, bytes)
  BY <1>2 DEF InitL2TCM, PutAt, WriterFields, WriterKeeps
<1>4. TableKeeps({"L2TCMInitState"}) /\ table'.L2TCMInitState = PutAt(table.L2TCMInitState, i, bytes)
  BY <1>2 DEF InitL2TCM, PutAt, TableFields, TableKeeps
<1>5. IsSequence(PutAt(raw.L2TCMInitState, i, bytes))
  <2> DEFINE t == PutAt(raw.L2TCMInitState, i, bytes)
             n == Len(raw.L2TCMInitState)
  <2>1. n \in Nat
    BY <1>1 DEF WriterOK, IsSequence
  <2>2. t = [j \in 1 .. n |-> t[j]]
    BY DEF PutAt
  <2> HIDE DEF t, n
  <2> QED
    BY <2>1, <2>2, PositionsMakeSequence DEF t
<1>6. WriterOK(raw')
  BY <1>1, <1>3, <1>5 DEF WriterOK, WriterKeeps, WriterFields, HeaderFields
<1>7. SameTables'
  BY <1>1, <1>2, <1>3, <1>4, TablesAreLeft DEF TablesLeft, WriterKeeps, TableKeeps, WriterFields, TableFields
<1>8. SameRequests'
  BY <1>1, <1>3, RequestsAreLeft DEF RequestsLeft, InitL2TCM, Both, WriterKeeps, WriterFields
<1>9. SameDescription'
  BY <1>1, <1>2, <1>3, <1>4, <1>5 DEF SameDescription, WriterKeeps, TableKeeps, WriterFields, TableFields, HeaderFields
<1>10. Call
  BY DEF InitL2TCM, Both
<1> QED
  BY <1>6, <1>7, <1>8, <1>9, <1>10, CallOutdates

\* An entry of the table of the host.
LEMMA AddHostMulticastEntryKeeps ==
  ASSUME DescriptionInv, NEW e, AddHostMulticastEntry(e) PROVE DescriptionInv'
<1>1. WriterOK(raw) /\ SameTables /\ SameRequests /\ SameDescription
  BY DEF DescriptionInv
<1>2. WriterFields \subseteq DOMAIN raw /\ HeaderFields \subseteq DOMAIN raw.metadata /\ TableFields \subseteq DOMAIN table
  BY <1>1 DEF WriterOK, SameDescription
<1>3. WriterKeeps({"HostMulticastTable"}) /\ raw'.HostMulticastTable = Append(raw.HostMulticastTable, e)
  BY <1>2 DEF AddHostMulticastEntry, WriterFields, WriterKeeps
<1>4. TableKeeps({"hostMulticastTable"}) /\ table'.hostMulticastTable = Append(table.hostMulticastTable, e)
  BY <1>2 DEF AddHostMulticastEntry, TableFields, TableKeeps
<1>5. IsSequence(Append(raw.HostMulticastTable, e))
  BY <1>1, Longer DEF WriterOK
<1>6. WriterOK(raw')
  BY <1>1, <1>3, <1>5 DEF WriterOK, WriterKeeps, WriterFields, HeaderFields
<1>7. SameTables'
  BY <1>1, <1>2, <1>3, <1>4, TablesAreLeft DEF TablesLeft, WriterKeeps, TableKeeps, WriterFields, TableFields
<1>8. SameRequests'
  BY <1>1, <1>3, RequestsAreLeft DEF RequestsLeft, AddHostMulticastEntry, Both, WriterKeeps, WriterFields
<1>9. SameDescription'
  BY <1>1, <1>2, <1>3, <1>4, <1>5 DEF SameDescription, WriterKeeps, TableKeeps, WriterFields, TableFields, HeaderFields
<1>10. Call
  BY DEF AddHostMulticastEntry, Both
<1> QED
  BY <1>6, <1>7, <1>8, <1>9, <1>10, CallOutdates

\* A thread.
LEMMA AddThreadDescriptorKeeps ==
  ASSUME DescriptionInv, NEW e, AddThreadDescriptor(e) PROVE DescriptionInv'
<1>1. WriterOK(raw) /\ SameTables /\ SameRequests /\ SameDescription
  BY DEF DescriptionInv
<1>2. WriterFields \subseteq DOMAIN raw /\ HeaderFields \subseteq DOMAIN raw.metadata /\ TableFields \subseteq DOMAIN table
  BY <1>1 DEF WriterOK, SameDescription
<1>3. WriterKeeps({"ThreadDescriptors"}) /\ raw'.ThreadDescriptors = Append(raw.ThreadDescriptors, e)
  BY <1>2 DEF AddThreadDescriptor, WriterFields, WriterKeeps
<1>4. TableKeeps({"threadDescriptors"}) /\ table'.threadDescriptors = Append(table.threadDescriptors, e)
  BY <1>2 DEF AddThreadDescriptor, TableFields, TableKeeps
<1>5. IsSequence(Append(raw.ThreadDescriptors, e))
  BY <1>1, Longer DEF WriterOK
<1>6. WriterOK(raw')
  BY <1>1, <1>3, <1>5 DEF WriterOK, WriterKeeps, WriterFields, HeaderFields
<1>7. SameTables'
  BY <1>1, <1>2, <1>3, <1>4, TablesAreLeft DEF TablesLeft, WriterKeeps, TableKeeps, WriterFields, TableFields
<1>8. SameRequests'
  BY <1>1, <1>3, RequestsAreLeft DEF RequestsLeft, AddThreadDescriptor, Both, WriterKeeps, WriterFields
<1>9. SameDescription'
  BY <1>1, <1>2, <1>3, <1>4, <1>5 DEF SameDescription, WriterKeeps, TableKeeps, WriterFields, TableFields, HeaderFields
<1>10. Call
  BY DEF AddThreadDescriptor, Both
<1> QED
  BY <1>6, <1>7, <1>8, <1>9, <1>10, CallOutdates

\* The constants of some NSPs.
LEMMA AddConstantMappingKeeps ==
  ASSUME DescriptionInv, NEW m, AddConstantMapping(m) PROVE DescriptionInv'
<1>1. WriterOK(raw) /\ SameTables /\ SameRequests /\ SameDescription
  BY DEF DescriptionInv
<1>2. WriterFields \subseteq DOMAIN raw /\ HeaderFields \subseteq DOMAIN raw.metadata /\ TableFields \subseteq DOMAIN table
  BY <1>1 DEF WriterOK, SameDescription
<1>3. WriterKeeps({"ConstantMappings", "constMappingCores"}) /\ raw'.ConstantMappings = Append(raw.ConstantMappings, m)
  BY <1>2 DEF AddConstantMapping, WriterFields, WriterKeeps
<1>4. TableKeeps({"constantMappings"}) /\ table'.constantMappings = Append(table.constantMappings, m)
  BY <1>2 DEF AddConstantMapping, TableFields, TableKeeps
<1>5. IsSequence(Append(raw.ConstantMappings, m))
  BY <1>1, Longer DEF WriterOK
<1>6. WriterOK(raw')
  BY <1>1, <1>3, <1>5 DEF WriterOK, WriterKeeps, WriterFields, HeaderFields
<1>7. SameTables'
  BY <1>1, <1>2, <1>3, <1>4, TablesAreLeft DEF TablesLeft, WriterKeeps, TableKeeps, WriterFields, TableFields
<1>8. SameRequests'
  BY <1>1, <1>3, RequestsAreLeft DEF RequestsLeft, AddConstantMapping, Both, WriterKeeps, WriterFields
<1>9. SameDescription'
  BY <1>1, <1>2, <1>3, <1>4, <1>5 DEF SameDescription, WriterKeeps, TableKeeps, WriterFields, TableFields, HeaderFields
<1>10. Call
  BY DEF AddConstantMapping, Both
<1> QED
  BY <1>6, <1>7, <1>8, <1>9, <1>10, CallOutdates

\* An entry of the table of one NSP.
LEMMA AddNSPMulticastEntryKeeps ==
  ASSUME DescriptionInv, NEW c \in 1 .. table.numNSPs, NEW e, AddNSPMulticastEntry(c, e) PROVE DescriptionInv'
<1> DEFINE s == raw.NSPMulticastTables
           t == table.nspMulticastTables
<1>1. WriterOK(raw) /\ SameTables /\ SameRequests /\ SameDescription
  BY DEF DescriptionInv
<1>2. WriterFields \subseteq DOMAIN raw /\ HeaderFields \subseteq DOMAIN raw.metadata /\ TableFields \subseteq DOMAIN table
  BY <1>1 DEF WriterOK, SameDescription
<1>3. WriterKeeps({"NSPMulticastTables"}) /\ raw'.NSPMulticastTables = [s EXCEPT ![c] = Append(@, e)]
  BY <1>2 DEF AddNSPMulticastEntry, WriterFields, WriterKeeps
<1>4. TableKeeps({"nspMulticastTables"}) /\ table'.nspMulticastTables = [t EXCEPT ![c] = Append(@, e)]
  BY <1>2 DEF AddNSPMulticastEntry, TableFields, TableKeeps
<1>5. /\ IsSequence(s) /\ Len(s) = MaxNSPs /\ MaxNSPs \in Nat /\ \A d \in 1 .. MaxNSPs : IsSequence(s[d])
      /\ IsSequence(t) /\ Len(t) \in Nat /\ Len(t) <= MaxNSPs
      /\ table.numNSPs \in Nat /\ table.numNSPs <= Len(t)
      /\ \A d \in 1 .. MaxNSPs : s[d] = IF d <= Len(t) THEN t[d] ELSE <<>>
  BY <1>1, SizesAssumption DEF WriterOK, SameTables, SameDescription, IsSequence
<1> DEFINE longer == Append(s[c], e)
           ss == [s EXCEPT ![c] = longer]
           tt == [t EXCEPT ![c] = longer]
<1>6. c \in 1 .. Len(t) /\ c \in 1 .. MaxNSPs
  <2> HIDE DEF s, t
  <2> QED
    BY <1>5
<1>7. t[c] = s[c]
  <2> HIDE DEF s, t
  <2> QED
    BY <1>5, <1>6
<1>8. [s EXCEPT ![c] = Append(@, e)] = ss /\ [t EXCEPT ![c] = Append(@, e)] = tt
  <2> HIDE DEF s, t
  <2> QED
    BY <1>7
<1> HIDE DEF s, t
<1>9. IsSequence(longer)
  BY <1>5, <1>6, Longer
<1> HIDE DEF longer
<1>10. IsSequence(ss) /\ Len(ss) = MaxNSPs /\ IsSequence(tt) /\ Len(tt) = Len(t)
  BY <1>5, ReplacedIs
<1>11. /\ \A d \in 1 .. MaxNSPs : ss[d] = IF d = c THEN longer ELSE s[d]
       /\ \A d \in 1 .. Len(t) : tt[d] = IF d = c THEN longer ELSE t[d]
  BY <1>5, <1>6 DEF IsSequence
<1> HIDE DEF ss, tt
<1>12. raw'.NSPMulticastTables = ss /\ table'.nspMulticastTables = tt
  BY <1>3, <1>4, <1>8
<1>13. \A d \in 1 .. MaxNSPs : ss[d] = IF d <= Len(tt) THEN tt[d] ELSE <<>>
  <2> TAKE d \in 1 .. MaxNSPs
  <2>1. CASE d <= Len(t)
    <3>1. d \in 1 .. Len(t)
      BY <1>5, <2>1
    <3> QED
      BY <1>5, <1>10, <1>11, <2>1, <3>1
  <2>2. CASE ~(d <= Len(t))
    <3>1. d # c
      BY <1>5, <1>6, <2>2
    <3> QED
      BY <1>5, <1>10, <1>11, <2>2, <3>1
  <2> QED
    BY <2>1, <2>2
<1>14. SameTables'
  <2>1. table'.numNSPs = table.numNSPs
    BY <1>4 DEF TableKeeps, TableFields
  <2> QED
    BY <1>5, <1>10, <1>12, <1>13, <2>1 DEF SameTables
<1>15. \A d \in 1 .. MaxNSPs : IsSequence(ss[d])
  BY <1>5, <1>9, <1>11
<1>16. WriterOK(raw')
  BY <1>1, <1>3, <1>10, <1>12, <1>15 DEF WriterOK, WriterKeeps, WriterFields, HeaderFields
<1>17. SameRequests'
  BY <1>1, <1>3, RequestsAreLeft DEF RequestsLeft, AddNSPMulticastEntry, Both, WriterKeeps, WriterFields
<1>18. SameDescription'
  BY <1>1, <1>2, <1>3, <1>4 DEF SameDescription, WriterKeeps, TableKeeps, WriterFields, TableFields, HeaderFields
<1>19. Call
  BY DEF AddNSPMulticastEntry, Both
<1> QED
  BY <1>14, <1>16, <1>17, <1>18, <1>19, CallOutdates

\* A request.
LEMMA AddDMARequestKeeps ==
  ASSUME WithinTheStructure, DescriptionInv, NEW r \in Requests, AddDMARequest(r) PROVE DescriptionInv'
<1>1. WriterOK(raw) /\ SameTables /\ SameRequests /\ SameDescription
  BY DEF DescriptionInv
<1>2. WriterFields \subseteq DOMAIN raw
  BY <1>1 DEF WriterOK
<1>3. Call /\ table' = table /\ dmaRequests' = Append(dmaRequests, r)
  BY DEF AddDMARequest
<1>4. WriterKeeps({"DMARequests"})
      /\ raw'.DMARequests = IF r.request.devAddrSpace = Dynamic THEN raw.DMARequests
                            ELSE Append(raw.DMARequests, r)
  BY <1>2 DEF AddDMARequest, WriterFields, WriterKeeps
<1>5. RequestsOK(Append(raw.DMARequests, r))
  BY <1>1, RequestsLonger DEF WriterOK
<1>6. WriterOK(raw')
  BY <1>1, <1>4, <1>5 DEF WriterOK, WriterKeeps, WriterFields, HeaderFields
<1>7. SameTables'
  BY <1>1, <1>3, <1>4, TablesAreLeft DEF TablesLeft, WriterKeeps, WriterFields
<1>8. SameRequests'
  <2>1. dmaRequests \in Seq(Requests) /\ raw.DMARequests = Expressible(dmaRequests)
    BY <1>1 DEF SameRequests
  <2>2. Append(dmaRequests, r) \in Seq(Requests)
    BY <2>1
  <2>3. Expressible(Append(dmaRequests, r)) =
          IF r.request.devAddrSpace = Dynamic THEN Expressible(dmaRequests)
          ELSE Append(Expressible(dmaRequests), r)
    BY <2>1, ExpressibleGrows
  <2> QED
    BY <1>3, <1>4, <2>1, <2>2, <2>3 DEF SameRequests
<1>9. SameDescription'
  BY <1>1, <1>3, <1>4 DEF SameDescription, WriterKeeps, WriterFields
<1> QED
  BY <1>3, <1>6, <1>7, <1>8, <1>9, CallOutdates

\* The calls only the flat form has leave what both hold.
LEMMA DescribeFeaturesKeepsDescription == DescriptionInv /\ DescribeFeatures => DescriptionInv'
<1> SUFFICES ASSUME DescriptionInv, DescribeFeatures PROVE DescriptionInv'
  OBVIOUS
<1>1. WriterOK(raw) /\ SameTables /\ SameRequests /\ SameDescription
  BY DEF DescriptionInv
<1>2. Call /\ raw' = raw /\ dmaRequests' = dmaRequests
  BY DEF DescribeFeatures, SetCacheableConstants, SetNetworkHeapBehavior, AddRequiredField, AddPort,
     SetExecContext, FlatOnly
<1>3. TableKeeps({})
  <2>1. CASE \E p \in Ports : AddPort(p)
    <3>1. TableFields \subseteq DOMAIN table
      BY <1>1 DEF SameDescription
    <3> QED
      BY <2>1, <3>1 DEF AddPort, TableKeeps, TableFields
  <2>2. CASE ~\E p \in Ports : AddPort(p)
    BY <2>2 DEF DescribeFeatures, SetCacheableConstants, SetNetworkHeapBehavior, AddRequiredField,
       SetExecContext, TableKeeps
  <2> QED
    BY <2>1, <2>2
<1>4. SameTables'
  BY <1>1, <1>2, <1>3, TablesAreLeft DEF TablesLeft, TableKeeps, TableFields
<1>5. SameRequests'
  BY <1>1, <1>2, RequestsAreLeft DEF RequestsLeft
<1>6. SameDescription'
  BY <1>1, <1>2, <1>3 DEF SameDescription, TableKeeps, TableFields
<1> QED
  BY <1>1, <1>2, <1>4, <1>5, <1>6, CallOutdates

\* All calls that describe the network.
LEMMA DescribeNetworkKeepsDescription ==
  WithinTheStructure /\ DescriptionInv /\ DescribeNetwork => DescriptionInv'
  BY SetNumNSPsKeeps, SetSizesKeeps, SetNetworkNameKeeps, SetNumSemaphoresKeeps, InitSemaphoreKeeps,
     InitL2TCMResizeKeeps, InitL2TCMKeeps, AddDMARequestKeeps, AddNSPMulticastEntryKeeps,
     AddHostMulticastEntryKeeps, AddThreadDescriptorKeeps, AddConstantMappingKeeps DEF DescribeNetwork

\* Names are final.
LEMMA FinalNames == \A n : FinalName(FinalName(n)) = FinalName(n)
  BY DEF FinalName

\* A structure finalized since the last call says what was described.
LEMMA FinalizeRawKeeps == DescriptionInv /\ FinalizeRawMetadata => DescriptionInv'
<1> SUFFICES ASSUME DescriptionInv, FinalizeRawMetadata PROVE DescriptionInv'
  OBVIOUS
<1> DEFINE f == FinalizeRaw(raw)
<1>1. WriterOK(raw) /\ SameTables /\ SameRequests /\ SameDescription /\ FormsUpToDate
  BY DEF DescriptionInv
<1>2. /\ raw' = f /\ rawAt' = calls /\ calls' = calls /\ flatAt' = flatAt
      /\ table' = table /\ dmaRequests' = dmaRequests /\ metadataBuffer' = metadataBuffer
  BY DEF FinalizeRawMetadata, flat
<1>3. /\ Structure(f.metadataBuffer, f.metadata, raw) /\ BufferOK(f.metadataBuffer)
      /\ DOMAIN f = DOMAIN raw /\ DOMAIN f.metadata = DOMAIN raw.metadata
      /\ f.networkName = FinalName(raw.networkName) /\ f.isFinal
      /\ f.L2TCMInitState = raw.L2TCMInitState /\ f.semaphoreInitState = raw.semaphoreInitState
      /\ f.DMARequests = raw.DMARequests /\ f.NSPMulticastTables = raw.NSPMulticastTables
      /\ f.HostMulticastTable = raw.HostMulticastTable /\ f.ThreadDescriptors = raw.ThreadDescriptors
      /\ f.ConstantMappings = raw.ConstantMappings
      /\ f.metadata.dmaRequests \in Nat /\ f.metadata.threadDescriptors \in Nat
  BY <1>1, FinalizeStructure
<1> HIDE DEF f
<1>4. /\ f.metadata.version = Version /\ f.metadata.sizes = raw.metadata.sizes
      /\ f.metadata.numNSPs = raw.metadata.numNSPs
      /\ f.metadata.numSemaphores = Len(raw.semaphoreInitState)
  BY <1>3 DEF Structure
<1>5. WriterOK(f)
  BY <1>1, <1>3, <1>4 DEF WriterOK
<1>6. Description(f) = Description(raw)
  BY <1>3, <1>4, FinalNames DEF Description, TablesOf
<1>7. ReadRaw(f.metadataBuffer, Version) = Description(raw)
  BY <1>1, <1>3, StructureRead
<1>8. SameTables' /\ SameRequests' /\ SameDescription'
  BY <1>1, <1>2, <1>3, <1>4, FinalNames DEF SameTables, SameRequests, SameDescription
<1>9. FormsUpToDate'
  BY <1>1, <1>2, <1>6, <1>7 DEF FormsUpToDate, NoImage
<1> QED
  BY <1>2, <1>5, <1>8, <1>9 DEF DescriptionInv

\* What the flat form says of the tables.
LEMMA TablesAgree ==
  ASSUME WriterOK(raw), SameTables, SameDescription
  PROVE  SubSeq(table.nspMulticastTables, 1, table.numNSPs) = TablesOf(raw)
<1> DEFINE t == table.nspMulticastTables
           n == table.numNSPs
           u == TablesOf(raw)
<1>1. n \in 0 .. MaxNSPs /\ n <= Len(t) /\ IsSequence(t) /\ Len(t) \in Nat /\ MaxNSPs \in Nat /\ Len(t) <= MaxNSPs
  BY SizesAssumption DEF WriterOK, SameTables, SameDescription, IsSequence
<1>2. /\ IsSequence(u) /\ Len(u) = n /\ \A c \in 1 .. n : u[c] = raw.NSPMulticastTables[c]
  BY TablesOfWriter DEF SameDescription
<1>3. \A c \in 1 .. MaxNSPs : c <= Len(t) => raw.NSPMulticastTables[c] = t[c]
  BY DEF SameTables
<1>4. t \in Seq({t[i] : i \in 1 .. Len(t)})
  BY <1>1, SequenceOfItself
<1> HIDE DEF t, n, u
<1>5. SubSeq(t, 1, n) = [c \in 1 .. n |-> t[c]]
  BY <1>1, <1>4
<1>6. u = [c \in 1 .. n |-> u[c]]
  BY <1>2 DEF IsSequence
<1>7. \A c \in 1 .. n : u[c] = t[c]
  <2> TAKE c \in 1 .. n
  <2>1. c \in 1 .. MaxNSPs /\ c <= Len(t)
    BY <1>1
  <2> QED
    BY <1>2, <1>3, <2>1
<1>8. SubSeq(t, 1, n) = u
  BY <1>5, <1>6, <1>7
<1> QED
  BY <1>8 DEF t, n, u

\* A flat form finalized since the last call says what was described.
LEMMA FinalizeFlatKeepsDescription == DescriptionInv /\ FinalizeFlat => DescriptionInv'
<1> SUFFICES ASSUME DescriptionInv, FinalizeFlat PROVE DescriptionInv'
  OBVIOUS
<1>1. WriterOK(raw) /\ SameTables /\ SameRequests /\ SameDescription /\ FormsUpToDate
  BY DEF DescriptionInv
<1>2. /\ raw' = raw /\ rawAt' = rawAt /\ calls' = calls /\ flatAt' = calls
      /\ table' = Named(table) /\ dmaRequests' = dmaRequests
      /\ metadataBuffer'.table = Named(table) /\ metadataBuffer'.dmaRequests = dmaRequests
  BY DEF FinalizeFlat
<1>3. TableKeeps({"networkName"}) /\ table'.networkName = FinalName(table.networkName)
  <2>1. TableFields \subseteq DOMAIN table
    BY <1>1 DEF SameDescription
  <2> QED
    BY <1>2, <2>1 DEF Named, FinalName, TableKeeps, TableFields
<1>4. SameTables'
  BY <1>1, <1>2, <1>3, TablesAreLeft DEF TablesLeft, TableKeeps, TableFields
<1>5. SameRequests'
  BY <1>1, <1>2, RequestsAreLeft DEF RequestsLeft
<1>6. SameDescription'
  BY <1>1, <1>2, <1>3, FinalNames DEF SameDescription, TableKeeps, TableFields
<1>7. FlatView(metadataBuffer') = Description(raw)
  <2> DEFINE t == metadataBuffer'.table
  <2>1. /\ t.sizes = table.sizes /\ t.numNSPs = table.numNSPs /\ t.networkName = FinalName(table.networkName)
        /\ t.semaphoreInitState = table.semaphoreInitState /\ t.L2TCMInitState = table.L2TCMInitState
        /\ t.nspMulticastTables = table.nspMulticastTables /\ t.hostMulticastTable = table.hostMulticastTable
        /\ t.threadDescriptors = table.threadDescriptors /\ t.constantMappings = table.constantMappings
    BY <1>2, <1>3 DEF TableKeeps, TableFields
  <2> HIDE DEF t
  <2>2. FlatView(metadataBuffer') =
          [sizes |-> t.sizes, numNSPs |-> t.numNSPs, networkName |-> t.networkName,
           semaphoreInitState |-> t.semaphoreInitState, L2TCMInitState |-> t.L2TCMInitState,
           dmaRequests |-> Expressible(dmaRequests),
           nspMulticastTables |-> SubSeq(t.nspMulticastTables, 1, t.numNSPs),
           hostMulticastTable |-> t.hostMulticastTable, threadDescriptors |-> t.threadDescriptors,
           constantMappings |-> t.constantMappings]
    BY <1>2 DEF FlatView, t
  <2>3. SubSeq(t.nspMulticastTables, 1, t.numNSPs) = TablesOf(raw)
    BY <1>1, <2>1, TablesAgree
  <2>4. Expressible(dmaRequests) = raw.DMARequests
    BY <1>1 DEF SameRequests
  <2> QED
    BY <1>1, <2>1, <2>2, <2>3, <2>4 DEF Description, SameDescription
<1>8. FormsUpToDate'
  BY <1>1, <1>2, <1>7 DEF FormsUpToDate
<1> QED
  BY <1>1, <1>2, <1>4, <1>5, <1>6, <1>8 DEF DescriptionInv

\* New writers hold the same.
LEMMA DescriptionInit == MetadataInit => DescriptionInv
<1> SUFFICES ASSUME MetadataInit PROVE DescriptionInv
  OBVIOUS
<1>1. /\ raw = NewWriter /\ table = NewTable /\ dmaRequests = <<>> /\ metadataBuffer = NoImage
      /\ calls = 0 /\ rawAt = 0 /\ flatAt = 0
  BY DEF MetadataInit
<1> DEFINE none == <<>>
<1>2. Len(none) = 0 /\ IsSequence(none) /\ none \in Seq(Requests)
  <2>1. Len(none) = 0 /\ none \in Seq({}) /\ none \in Seq(Requests)
    OBVIOUS
  <2> QED
    BY <2>1, SequencesAre
<1>3. /\ DOMAIN raw = WriterFields /\ raw.metadata = Header /\ raw.networkName = "" /\ ~raw.isFinal
      /\ raw.L2TCMInitState = none /\ raw.semaphoreInitState = none /\ raw.DMARequests = none
      /\ raw.NSPMulticastTables = [c \in 1 .. MaxNSPs |-> none]
      /\ raw.HostMulticastTable = none /\ raw.ThreadDescriptors = none /\ raw.ConstantMappings = none
      /\ raw.metadataBuffer = EmptyBuffer
  BY <1>1 DEF NewWriter, WriterFields
<1>4. /\ DOMAIN Header = HeaderFields /\ Header.version = Version /\ Header.sizes = NewSizes
      /\ Header.dmaRequests = 0 /\ Header.threadDescriptors = 0 /\ Header.numNSPs = 0 /\ Header.numSemaphores = 0
  BY DEF Header, HeaderFields
<1>5. /\ TableFields \subseteq DOMAIN table /\ table.sizes = NewSizes /\ table.numNSPs = 0 /\ table.networkName = ""
      /\ table.semaphoreInitState = none /\ table.L2TCMInitState = none /\ table.nspMulticastTables = none
      /\ table.hostMulticastTable = none /\ table.threadDescriptors = none /\ table.constantMappings = none
  BY <1>1 DEF NewTable, TableFields
<1> HIDE DEF none
<1>6. BufferOK(EmptyBuffer)
  BY DEF BufferOK, EmptyBuffer
<1>7. MaxNSPs \in Nat
  BY SizesAssumption
<1> DEFINE s == [c \in 1 .. MaxNSPs |-> none]
<1>8. s = [c \in 1 .. MaxNSPs |-> s[c]] /\ \A c \in 1 .. MaxNSPs : s[c] = none
  OBVIOUS
<1>9. raw.NSPMulticastTables = s
  BY <1>3
<1> HIDE DEF s
<1>10. IsSequence(s) /\ Len(s) = MaxNSPs
  BY <1>7, <1>8, PositionsMakeSequence, LengthByPositions
<1>11. RequestsOK(none)
  <2>1. Len(none) \in Nat /\ 1 .. Len(none) = {}
    BY <1>2
  <2> QED
    BY <1>2, <2>1 DEF RequestsOK, Countable
<1>12. WriterOK(raw)
  <2>1. /\ WriterFields \subseteq DOMAIN raw /\ HeaderFields \subseteq DOMAIN raw.metadata
        /\ raw.metadata.version = Version
    BY <1>3, <1>4
  <2>2. /\ raw.metadata.dmaRequests \in Nat /\ raw.metadata.threadDescriptors \in Nat
        /\ raw.metadata.numNSPs \in 0 .. MaxNSPs /\ raw.metadata.numSemaphores = Len(raw.semaphoreInitState)
    <3>1. /\ raw.metadata.dmaRequests = 0 /\ raw.metadata.threadDescriptors = 0 /\ raw.metadata.numNSPs = 0
          /\ raw.metadata.numSemaphores = 0 /\ raw.semaphoreInitState = none
      BY <1>3, <1>4
    <3>2. 0 \in Nat /\ 0 \in 0 .. MaxNSPs
      BY <1>7
    <3> QED
      BY <1>2, <3>1, <3>2
  <2>3. /\ IsSequence(raw.semaphoreInitState) /\ IsSequence(raw.L2TCMInitState)
        /\ IsSequence(raw.HostMulticastTable) /\ IsSequence(raw.ThreadDescriptors)
        /\ IsSequence(raw.ConstantMappings)
    BY <1>2, <1>3
  <2>4. /\ IsSequence(raw.NSPMulticastTables) /\ Len(raw.NSPMulticastTables) = MaxNSPs
        /\ \A c \in 1 .. MaxNSPs : IsSequence(raw.NSPMulticastTables[c])
    BY <1>2, <1>8, <1>9, <1>10
  <2> QED
    BY <1>3, <1>6, <1>11, <2>1, <2>2, <2>3, <2>4 DEF WriterOK
<1>13. SameTables
  <2>1. \A c \in 1 .. MaxNSPs : ~(c <= 0)
    OBVIOUS
  <2> QED
    <3>1. table.nspMulticastTables = none /\ Len(none) = 0 /\ IsSequence(none) /\ table.numNSPs = 0
      BY <1>2, <1>5
    <3>2. 0 <= MaxNSPs /\ 0 <= 0
      BY <1>7
    <3>3. \A c \in 1 .. MaxNSPs : raw.NSPMulticastTables[c] = <<>>
      BY <1>8, <1>9 DEF none
    <3> QED
      BY <2>1, <3>1, <3>2, <3>3 DEF SameTables
<1>14. SameRequests
  BY <1>1, <1>2, <1>3, NothingExpressible DEF SameRequests, none
<1>15. SameDescription
  BY <1>3, <1>4, <1>5 DEF SameDescription
<1>16. FormsUpToDate
  <2>1. calls \in Nat /\ rawAt \in Nat /\ flatAt \in Nat /\ rawAt <= calls /\ flatAt <= calls
    BY <1>1
  <2>2. ~raw.isFinal
    BY <1>3
  <2>3. ~(metadataBuffer # NoImage)
    BY <1>1
  <2> QED
    BY <2>1, <2>2, <2>3, Zenon DEF FormsUpToDate
<1> QED
  BY <1>12, <1>13, <1>14, <1>15, <1>16 DEF DescriptionInv

\* Who follows the offsets of the structure finds what the flat form says, however often both were
\* finalized (AICMetadataWriter.cpp:128, AICMetadataReader.c:18).
THEOREM ReadersAlwaysAgree == ASSUME WithinTheStructure PROVE MetadataSpec => []ReadersAgree
<1>1. DescriptionInv /\ [MetadataNext]_metadataVars => DescriptionInv'
  <2> SUFFICES ASSUME DescriptionInv, [MetadataNext]_metadataVars PROVE DescriptionInv'
    OBVIOUS
  <2>1. CASE DescribeNetwork
    BY <2>1, DescribeNetworkKeepsDescription
  <2>2. CASE DescribeFeatures
    BY <2>2, DescribeFeaturesKeepsDescription
  <2>3. CASE FinalizeRawMetadata
    BY <2>3, FinalizeRawKeeps
  <2>4. CASE FinalizeFlat
    BY <2>4, FinalizeFlatKeepsDescription
  <2>5. CASE WriteMetadata
    BY <2>5, DescriptionLeft DEF WriteMetadata, flat, finals
  <2>6. CASE LoadFile
    BY <2>6, DescriptionLeft DEF LoadFile, flat, finals
  <2>7. CASE \E p \in Platforms : ReadMetadataFlat(p)
    BY <2>7, DescriptionLeft DEF ReadMetadataFlat, flat, finals
  <2>8. CASE UNCHANGED metadataVars
    BY <2>8, DescriptionLeft DEF metadataVars, flat, finals
  <2> QED
    BY <2>1, <2>2, <2>3, <2>4, <2>5, <2>6, <2>7, <2>8 DEF MetadataNext
<1>2. DescriptionInv => ReadersAgree
  BY DEF DescriptionInv, FormsUpToDate, ReadersAgree
<1> QED
  BY DescriptionInit, <1>1, <1>2, PTL DEF MetadataSpec
=============================================================================
