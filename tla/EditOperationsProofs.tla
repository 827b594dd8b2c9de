------------------------ MODULE EditOperationsProofs ------------------------
(***************************************************************************)
(* Lemmas about the operators of EditOperations and the sequences they are *)
(* made of: what each operation leaves of a document and of what its locks *)
(* protect, what it records to take itself back, and what a run of         *)
(* operations therefore keeps.  The theorems that rest on them are in      *)
(* EditProofs and ReviewProofs.                                            *)
(***************************************************************************)
EXTENDS EditOperations, TLAPS, SequenceTheorems, NaturalsInduction, WellFoundedInduction,
        FiniteSetTheorems

-----------------------------------------------------------------------------
(***************************************************************************)
(* Induction over sets of numbers and of sequences.                        *)
(***************************************************************************)
\* A set of natural numbers has a least one.
LEMMA LeastNumber ==
  ASSUME NEW T \in SUBSET Nat, T # {}
  PROVE  \E n \in T : \A m \in T : n <= m
  <1> DEFINE R == {ss \in Nat \X Nat : ss[1] < ss[2]}
  <1>1. IsWellFoundedOn(OpToRel(<, Nat), Nat)
    BY NatLessThanWellFounded
  <1>2. OpToRel(<, Nat) = R
    BY DEF OpToRel
  <1>3. IsWellFoundedOn(R, Nat)
    BY <1>1, <1>2
  <1>4. \A m, n \in Nat : <<m, n>> \in R <=> m < n
    OBVIOUS
  <1> HIDE DEF R
  <1>5. PICK n \in T : \A m \in T : ~ (<<m, n>> \in R)
    BY <1>3, WFMin
  <1>6. ASSUME NEW m \in T PROVE n <= m
    <2>1. m \in Nat /\ n \in Nat
      OBVIOUS
    <2>2. ~ (m < n)
      BY <1>4, <1>5, <2>1
    <2>3. QED
      BY <2>1, <2>2
  <1>7. QED
    BY <1>6

\* What holds of the empty sequence, and of a sequence with one more element if
\* it holds of the sequence, holds of all: no sequence is bad.
LEMMA SequenceInduction ==
  ASSUME NEW E, NEW Bad \in SUBSET Seq(E), <<>> \notin Bad,
         \A s \in Seq(E), e \in E : s \notin Bad => Append(s, e) \notin Bad
  PROVE  Bad = {}
  <1> SUFFICES ASSUME Bad # {} PROVE FALSE
    OBVIOUS
  <1> DEFINE T == {Len(s) : s \in Bad}
  <1>1. T \in SUBSET Nat /\ T # {}
    <2>1. \A s \in Bad : s \in Seq(E) /\ Len(s) \in Nat
      OBVIOUS
    <2>2. QED
      BY <2>1
  <1>2. PICK n \in T : \A m \in T : n <= m
    BY <1>1, LeastNumber
  <1>3. PICK s \in Bad : Len(s) = n
    OBVIOUS
  <1>4. s \in Seq(E) /\ s # <<>> /\ n \in Nat \ {0}
    BY <1>3
  <1> DEFINE front == SubSeq(s, 1, n - 1)
  <1>5. front \in Seq(E) /\ Len(front) = n - 1 /\ s[n] \in E /\ s = Append(front, s[n])
    BY <1>3, <1>4
  <1>6. front \notin Bad
    <2>1. SUFFICES ASSUME front \in Bad PROVE FALSE
      OBVIOUS
    <2>2. n - 1 \in T
      BY <1>5, <2>1
    <2>3. QED
      BY <1>2, <1>4, <2>2
  <1>7. QED
    BY <1>3, <1>5, <1>6

-----------------------------------------------------------------------------
(***************************************************************************)
(* Sequences: insertion, removal, and the elements there are after it.     *)
(***************************************************************************)
\* Splice puts one element between those that were there.
SplicedAs(s, k, e, u) ==
  /\ Len(u) = Len(s) + 1
  /\ \A i \in 1 .. Len(s) + 1 : u[i] = IF i <= k THEN s[i] ELSE IF i = k + 1 THEN e ELSE s[i - 1]

\* Putting an element into a sequence leaves a sequence of the same kind.
LEMMA SpliceIsSeq ==
  ASSUME NEW T, NEW s \in Seq(T), NEW e \in T, NEW k \in 0 .. Len(s)
  PROVE  Splice(s, k, e) \in Seq(T) /\ SplicedAs(s, k, e, Splice(s, k, e))
  <1> DEFINE a == SubSeq(s, 1, k)
             b == SubSeq(s, k + 1, Len(s))
  <1>1. a \in Seq(T) /\ Len(a) = k /\ \A i \in 1 .. k : a[i] = s[i]
    OBVIOUS
  <1>2. b \in Seq(T) /\ Len(b) = Len(s) - k /\ \A i \in 1 .. Len(s) - k : b[i] = s[k + i]
    OBVIOUS
  <1>3. Splice(s, k, e) = (a \o <<e>>) \o b
    <2>1. (k + 1) - 1 = k
      OBVIOUS
    <2>2. QED
      BY <2>1 DEF Splice, InsertAt
  <1> DEFINE c == a \o <<e>>
  <1> HIDE DEF a, b
  <1>4. /\ c \in Seq(T) /\ Len(c) = k + 1
        /\ \A i \in 1 .. k + 1 : c[i] = IF i <= k THEN a[i] ELSE e
    BY <1>1
  <1> HIDE DEF c
  <1>0. Len(s) \in Nat /\ k \in Nat /\ k <= Len(s)
    OBVIOUS
  <1>5. c \o b \in Seq(T) /\ Len(c \o b) = Len(s) + 1
    <2>1. c \o b \in Seq(T) /\ Len(c \o b) = Len(c) + Len(b)
      BY <1>2, <1>4, ConcatProperties
    <2>2. Len(c) + Len(b) = Len(s) + 1
      BY <1>0, <1>2, <1>4
    <2>3. QED
      BY <2>1, <2>2
  <1>6. ASSUME NEW i \in 1 .. Len(s) + 1
        PROVE  (c \o b)[i] = IF i <= k + 1 THEN c[i] ELSE b[i - (k + 1)]
    <2>1. i \in 1 .. Len(c) + Len(b)
      BY <1>2, <1>4
    <2>2. (c \o b)[i] = IF i <= Len(c) THEN c[i] ELSE b[i - Len(c)]
      BY <1>2, <1>4, <2>1, ConcatProperties
    <2>3. QED
      BY <1>4, <2>2
  <1>7. ASSUME NEW i \in 1 .. Len(s) + 1
        PROVE  (c \o b)[i] = IF i <= k THEN s[i] ELSE IF i = k + 1 THEN e ELSE s[i - 1]
    <2>1. CASE i <= k + 1
      BY <1>1, <1>4, <1>6, <2>1
    <2>2. CASE i > k + 1
      <3>1. i - (k + 1) \in 1 .. Len(s) - k /\ k + (i - (k + 1)) = i - 1
        BY <2>2
      <3>2. b[i - (k + 1)] = s[i - 1]
        BY <1>2, <3>1
      <3>3. (c \o b)[i] = b[i - (k + 1)]
        <4>1. ~ (i <= k + 1)
          BY <2>2
        <4>2. QED
          BY <1>6, <4>1
      <3>4. ~ (i <= k) /\ i # k + 1
        BY ONLY <1>0, <2>2, i \in 1 .. Len(s) + 1
      <3>5. QED
        BY <3>2, <3>3, <3>4
    <2>3. i <= k + 1 \/ i > k + 1
      BY ONLY <1>0, i \in 1 .. Len(s) + 1
    <2>4. QED
      BY <2>1, <2>2, <2>3
  <1>8. QED
    BY <1>3, <1>5, <1>7 DEF c, SplicedAs

\* RemoveAt takes one element from between the others.
LEMMA RemoveIsSeq ==
  ASSUME NEW T, NEW s \in Seq(T), NEW k \in 1 .. Len(s)
  PROVE  /\ RemoveAt(s, k) \in Seq(T)
         /\ Len(RemoveAt(s, k)) = Len(s) - 1
         /\ \A i \in 1 .. Len(s) - 1 : RemoveAt(s, k)[i] = IF i < k THEN s[i] ELSE s[i + 1]
  <1> DEFINE a == SubSeq(s, 1, k - 1)
             b == SubSeq(s, k + 1, Len(s))
  <1>1. a \in Seq(T) /\ Len(a) = k - 1 /\ \A i \in 1 .. k - 1 : a[i] = s[i]
    OBVIOUS
  <1>2. b \in Seq(T) /\ Len(b) = Len(s) - k /\ \A i \in 1 .. Len(s) - k : b[i] = s[k + i]
    OBVIOUS
  <1>3. RemoveAt(s, k) = a \o b
    BY DEF RemoveAt
  <1> HIDE DEF a, b
  <1>4. a \o b \in Seq(T) /\ Len(a \o b) = Len(s) - 1
    <2>1. a \o b \in Seq(T) /\ Len(a \o b) = Len(a) + Len(b)
      BY <1>1, <1>2, ConcatProperties
    <2>2. Len(a) + Len(b) = Len(s) - 1
      <3>1. Len(s) \in Nat /\ k \in Int
        OBVIOUS
      <3>2. QED
        BY ONLY <1>1, <1>2, <3>1
    <2>3. QED
      BY <2>1, <2>2
  <1>5. ASSUME NEW i \in 1 .. Len(s) - 1
        PROVE  (a \o b)[i] = IF i < k THEN s[i] ELSE s[i + 1]
    <2>1. (a \o b)[i] = IF i <= k - 1 THEN a[i] ELSE b[i - (k - 1)]
      BY <1>1, <1>2
    <2>2. QED
      BY <1>1, <1>2, <2>1
  <1>6. QED
    BY <1>3, <1>4, <1>5

\* What was spliced in is taken out again, and what was removed is put back.
LEMMA SpliceUndone ==
  ASSUME NEW T, NEW s \in Seq(T), NEW e \in T, NEW k \in 0 .. Len(s)
  PROVE  RemoveAt(Splice(s, k, e), k + 1) = s
  <1> DEFINE u == Splice(s, k, e)
             v == RemoveAt(u, k + 1)
  <1>0. Len(s) \in Nat /\ k + 1 \in 1 .. Len(s) + 1
    OBVIOUS
  <1>1. /\ u \in Seq(T) /\ Len(u) = Len(s) + 1
        /\ \A i \in 1 .. Len(s) + 1 : u[i] = IF i <= k THEN s[i] ELSE IF i = k + 1 THEN e ELSE s[i - 1]
    <2>1. s \in Seq(T) /\ e \in T /\ k \in 0 .. Len(s)
      OBVIOUS
    <2>2. Splice(s, k, e) \in Seq(T) /\ SplicedAs(s, k, e, Splice(s, k, e))
      BY ONLY <2>1, SpliceIsSeq
    <2>3. QED
      BY ONLY <2>2 DEF SplicedAs
  <1> HIDE DEF u
  <1>2. /\ v \in Seq(T) /\ Len(v) = Len(s)
        /\ \A i \in 1 .. Len(s) : v[i] = IF i < k + 1 THEN u[i] ELSE u[i + 1]
    <2>1. k + 1 \in 1 .. Len(u)
      BY <1>0, <1>1
    <2>2. Len(v) = Len(u) - 1 /\ v \in Seq(T) /\ \A i \in 1 .. Len(u) - 1 : v[i] = IF i < k + 1 THEN u[i] ELSE u[i + 1]
      BY <1>1, <2>1, RemoveIsSeq
    <2>3. QED
      BY <1>0, <1>1, <2>2
  <1> HIDE DEF v
  <1>3. \A i \in 1 .. Len(s) : v[i] = s[i]
    BY <1>1, <1>2
  <1>4. v = s
    BY <1>2, <1>3, SeqEqual
  <1>5. QED
    BY <1>4 DEF u, v

\* Putting a removed element back at its place gives the sequence as it was.
LEMMA RemoveUndone ==
  ASSUME NEW T, NEW s \in Seq(T), NEW k \in 1 .. Len(s)
  PROVE  Splice(RemoveAt(s, k), k - 1, s[k]) = s
  <1> DEFINE u == RemoveAt(s, k)
             m == k - 1
             e == s[k]
             v == Splice(u, m, e)
  <1>1. /\ u \in Seq(T) /\ Len(u) = Len(s) - 1 /\ s[k] \in T /\ Len(s) \in Nat
        /\ \A i \in 1 .. Len(s) - 1 : u[i] = IF i < k THEN s[i] ELSE s[i + 1]
    BY RemoveIsSeq
  <1> HIDE DEF u
  <1>2. m \in 0 .. Len(u) /\ m + 1 = k
    BY <1>1
  <1> HIDE DEF m
  <1>6. /\ v \in Seq(T) /\ Len(v) = Len(u) + 1
        /\ \A i \in 1 .. Len(u) + 1 : v[i] = IF i <= m THEN u[i] ELSE IF i = m + 1 THEN e ELSE u[i - 1]
    <2>1. u \in Seq(T) /\ e \in T /\ m \in 0 .. Len(u)
      BY <1>1, <1>2 DEF e
    <2> HIDE DEF e
    <2>2. v \in Seq(T) /\ SplicedAs(u, m, e, v)
      BY ONLY <2>1, SpliceIsSeq DEF v
    <2>3. QED
      BY <2>2 DEF SplicedAs
  <1> HIDE DEF v
  <1>3. ASSUME NEW i \in 1 .. Len(s) PROVE v[i] = s[i]
    <2>1. v[i] = IF i <= m THEN u[i] ELSE IF i = m + 1 THEN e ELSE u[i - 1]
      BY <1>1, <1>6
    <2>2. CASE i <= m
      <3>1. u[i] = s[i]
        BY <1>1, <1>2, <2>2
      <3>2. QED
        BY <2>1, <2>2, <3>1
    <2>3. CASE i = k
      BY <1>2, <2>1, <2>3 DEF e
    <2>4. CASE i > k
      <3>1. u[i - 1] = s[(i - 1) + 1]
        BY <1>1, <1>2, <2>4
      <3>2. QED
        BY <1>2, <2>1, <2>4, <3>1
    <2>5. QED
      BY <1>2, <2>2, <2>3, <2>4
  <1>4. v = s
    <2>1. Len(v) = Len(s)
      BY <1>1, <1>6
    <2>2. QED
      BY <1>6, <1>3, <2>1, SeqEqual
  <1>5. QED
    BY <1>4 DEF u, v, m

\* The elements after a splice, a removal and a replacement.
LEMMA SpliceElements ==
  ASSUME NEW T, NEW s \in Seq(T), NEW e \in T, NEW k \in 0 .. Len(s)
  PROVE  ToSet(Splice(s, k, e)) = ToSet(s) \cup {e}
  <1> DEFINE u == Splice(s, k, e)
  <1>1. /\ u \in Seq(T) /\ Len(u) = Len(s) + 1
        /\ \A i \in 1 .. Len(s) + 1 : u[i] = IF i <= k THEN s[i] ELSE IF i = k + 1 THEN e ELSE s[i - 1]
    <2>1. s \in Seq(T) /\ e \in T /\ k \in 0 .. Len(s)
      OBVIOUS
    <2>2. Splice(s, k, e) \in Seq(T) /\ SplicedAs(s, k, e, Splice(s, k, e))
      BY ONLY <2>1, SpliceIsSeq
    <2>3. QED
      BY ONLY <2>2 DEF SplicedAs
  <1> HIDE DEF u
  <1>2. DOMAIN u = 1 .. Len(s) + 1 /\ DOMAIN s = 1 .. Len(s) /\ Len(s) \in Nat
    BY <1>1
  <1>3. ASSUME NEW x \in ToSet(u) PROVE x \in ToSet(s) \cup {e}
    <2>1. PICK i \in 1 .. Len(s) + 1 : x = u[i]
      BY <1>2, <1>3 DEF ToSet
    <2>2. x = IF i <= k THEN s[i] ELSE IF i = k + 1 THEN e ELSE s[i - 1]
      BY <1>1, <2>1
    <2>3. (i <= k => i \in DOMAIN s) /\ (i > k + 1 => i - 1 \in DOMAIN s)
      BY <1>2
    <2>4. x = e \/ \E j \in DOMAIN s : x = s[j]
      BY <2>2, <2>3
    <2>5. QED
      BY <2>4 DEF ToSet
  <1>4. ASSUME NEW x \in ToSet(s) PROVE x \in ToSet(u)
    <2>1. PICK i \in 1 .. Len(s) : x = s[i]
      BY <1>2, <1>4 DEF ToSet
    <2>2. i \in DOMAIN u /\ i + 1 \in DOMAIN u
      BY <1>2, <2>1
    <2>4. CASE i <= k
      BY <1>1, <2>1, <2>2, <2>4 DEF ToSet
    <2>5. CASE i > k
      <3>1. u[i + 1] = s[(i + 1) - 1]
        BY <1>1, <2>1, <2>2, <2>5
      <3>2. QED
        BY <2>1, <2>2, <3>1 DEF ToSet
    <2>6. QED
      BY <2>4, <2>5
  <1>5. e \in ToSet(u)
    BY <1>1, <1>2 DEF ToSet
  <1>6. QED
    BY <1>3, <1>4, <1>5 DEF u

\* Removing one position loses at most the element that stood there.
LEMMA RemoveElements ==
  ASSUME NEW T, NEW s \in Seq(T), NEW k \in 1 .. Len(s)
  PROVE  /\ ToSet(RemoveAt(s, k)) \subseteq ToSet(s)
         /\ ToSet(s) = ToSet(RemoveAt(s, k)) \cup {s[k]}
  <1> DEFINE u == RemoveAt(s, k)
  <1>1. Len(s) \in Nat /\ Len(u) = Len(s) - 1 /\ u \in Seq(T) /\ s[k] \in T
    BY RemoveIsSeq
  <1>2. k - 1 \in 0 .. Len(u)
    BY <1>1
  <1>3. ToSet(Splice(u, k - 1, s[k])) = ToSet(u) \cup {s[k]}
    BY <1>1, <1>2, SpliceElements
  <1>4. QED
    BY <1>3, RemoveUndone

\* Replacing one position brings the new element and loses at most the old one.
LEMMA ReplaceElements ==
  ASSUME NEW T, NEW s \in Seq(T), NEW k \in 1 .. Len(s), NEW e \in T
  PROVE  /\ [s EXCEPT ![k] = e] \in Seq(T)
         /\ ToSet([s EXCEPT ![k] = e]) \subseteq ToSet(s) \cup {e}
         /\ ToSet(s) \subseteq ToSet([s EXCEPT ![k] = e]) \cup {s[k]}
         /\ e \in ToSet([s EXCEPT ![k] = e])
  <1> DEFINE u == [s EXCEPT ![k] = e]
  <1>1. u \in Seq(T) /\ DOMAIN u = DOMAIN s /\ DOMAIN s = 1 .. Len(s)
    OBVIOUS
  <1>2. \A i \in DOMAIN s : u[i] = IF i = k THEN e ELSE s[i]
    BY <1>1
  <1> HIDE DEF u
  <1>3. QED
    BY <1>1, <1>2 DEF ToSet, u

\* A sequence is one of its elements, and one of elements of a set is one.
LEMMA SequenceOfElements ==
  ASSUME NEW T, NEW s \in Seq(T)
  PROVE  IsSequence(s) /\ DOMAIN s = 1 .. Len(s) /\ Len(s) \in Nat /\ ToSet(s) \subseteq T
  BY DEF IsSequence, ToSet

\* The first of a set of positions.
LEMMA FirstPosition ==
  ASSUME NEW p \in SUBSET Nat, 0 \notin p
  PROVE  /\ First(p) = 0 <=> p = {}
         /\ p # {} => First(p) \in p /\ \A i \in p : First(p) <= i
  <1>1. CASE p = {}
    BY <1>1 DEF First
  <1>2. CASE p # {}
    <2>1. \E n \in p : \A m \in p : n <= m
      BY <1>2, LeastNumber
    <2>2. Min(p) \in p /\ \A m \in p : Min(p) <= m
      BY <2>1 DEF Min
    <2>3. QED
      BY <1>2, <2>2 DEF First
  <1>3. QED
    BY <1>1, <1>2

-----------------------------------------------------------------------------
(***************************************************************************)
(* The loops: over the operations of a transaction, and over the pieces    *)
(* that are laid one after the other.                                      *)
(***************************************************************************)
\* The loop of applyTransaction over a sequence of operations is a function, and the only one.
ApplyRun(d, actor, s, f) == f = [i \in 0 .. Len(s) |-> IF i = 0 THEN Done(d, <<>>) ELSE ApplyNext(f[i - 1], actor, s[i])]

\* The recursive function behind ApplyAll exists and is the only one.
LEMMA ApplyRuns ==
  ASSUME NEW E, NEW d, NEW actor, NEW s \in Seq(E)
  PROVE  /\ \E f : ApplyRun(d, actor, s, f)
         /\ \A f, g : ApplyRun(d, actor, s, f) /\ ApplyRun(d, actor, s, g) => f = g
  <1> DEFINE Bad == {u \in Seq(E) : ~ \E f : ApplyRun(d, actor, u, f)}
  <1>1. <<>> \notin Bad
    <2>1. ApplyRun(d, actor, <<>>, [i \in 0 .. 0 |-> Done(d, <<>>)])
      BY DEF ApplyRun
    <2>2. QED
      BY <2>1
  <1>2. ASSUME NEW u \in Seq(E), NEW e \in E, u \notin Bad
        PROVE  Append(u, e) \notin Bad
    <2> DEFINE n == Len(u)
               v == Append(u, e)
    <2>1. PICK f : ApplyRun(d, actor, u, f)
      BY <1>2
    <2> DEFINE g == [i \in 0 .. n + 1 |-> IF i = n + 1 THEN ApplyNext(f[n], actor, e) ELSE f[i]]
    <2>2. n \in Nat /\ Len(v) = n + 1 /\ v[n + 1] = e /\ \A i \in 1 .. n : v[i] = u[i]
      OBVIOUS
    <2> HIDE DEF n, v
    <2>3. f = [i \in 0 .. n |-> IF i = 0 THEN Done(d, <<>>) ELSE ApplyNext(f[i - 1], actor, u[i])]
      BY <2>1 DEF ApplyRun, n
    <2>4. ASSUME NEW i \in 0 .. n + 1 PROVE g[i] = IF i = 0 THEN Done(d, <<>>) ELSE ApplyNext(g[i - 1], actor, v[i])
      <3>1. CASE i = 0
        BY <2>2, <2>3, <3>1
      <3>2. CASE i = n + 1
        BY <2>2, <3>2
      <3>3. CASE i \in 1 .. n
        <4>1. f[i] = ApplyNext(f[i - 1], actor, u[i])
          <5>1. i \in 0 .. n /\ i # 0
            BY <2>2, <3>3
          <5>2. QED
            BY <2>3, <5>1
        <4>2. g[i] = f[i] /\ g[i - 1] = f[i - 1] /\ v[i] = u[i]
          BY <2>2, <3>3
        <4>3. QED
          BY <2>2, <3>3, <4>1, <4>2
      <3>4. QED
        BY <2>2, <3>1, <3>2, <3>3
    <2>5. ApplyRun(d, actor, v, g)
      <3>1. g = [i \in 0 .. n + 1 |-> IF i = 0 THEN Done(d, <<>>) ELSE ApplyNext(g[i - 1], actor, v[i])]
        <4>1. g = [i \in 0 .. n + 1 |-> g[i]]
          OBVIOUS
        <4> HIDE DEF g
        <4>2. QED
          BY <2>4, <4>1
      <3> HIDE DEF g
      <3>2. QED
        BY <2>2, <3>1 DEF ApplyRun
    <2>6. QED
      BY <2>5 DEF v
  <1>3. Bad = {}
    <2> HIDE DEF Bad
    <2>1. Bad \in SUBSET Seq(E)
      BY DEF Bad
    <2>2. QED
      BY <1>1, <1>2, <2>1, SequenceInduction
  <1>4. ASSUME NEW f, NEW g, ApplyRun(d, actor, s, f), ApplyRun(d, actor, s, g)
        PROVE  f = g
    <2> DEFINE n == Len(s)
               T == {i \in 0 .. n : f[i] # g[i]}
    <2>0. n \in Nat
      OBVIOUS
    <2>1. /\ n \in Nat
          /\ f = [i \in 0 .. n |-> IF i = 0 THEN Done(d, <<>>) ELSE ApplyNext(f[i - 1], actor, s[i])]
          /\ g = [i \in 0 .. n |-> IF i = 0 THEN Done(d, <<>>) ELSE ApplyNext(g[i - 1], actor, s[i])]
      <3> HIDE DEF n
      <3>1. QED
        BY <1>4, <2>0 DEF ApplyRun, n
    <2> HIDE DEF n
    <2>2. ASSUME T # {} PROVE FALSE
      <3>1. T \in SUBSET Nat
        BY <2>1
      <3>2. PICK i \in T : \A j \in T : i <= j
        BY <2>2, <3>1, LeastNumber
      <3>3. i \in 1 .. n
        BY <2>1, <3>2
      <3>4. f[i - 1] = g[i - 1]
        BY <2>1, <3>2, <3>3
      <3>5. QED
        BY <2>1, <3>2, <3>3, <3>4
    <2>3. QED
      BY <2>1, <2>2
  <1>5. QED
    BY <1>3, <1>4

\* One more turn.
LEMMA ApplyAppend ==
  ASSUME NEW E, NEW d, NEW actor, NEW s \in Seq(E), NEW e \in E
  PROVE  ApplyAll(d, actor, <<>>) = Done(d, <<>>) /\ ApplyAll(d, actor, Append(s, e)) = ApplyNext(ApplyAll(d, actor, s), actor, e)
  <1> DEFINE n == Len(s)
             v == Append(s, e)
  <1>1. /\ n \in Nat /\ Len(v) = n + 1 /\ v[n + 1] = e /\ v \in Seq(E) /\ <<>> \in Seq(E)
        /\ \A i \in 1 .. n : v[i] = s[i]
    OBVIOUS
  <1>2. ASSUME NEW u \in Seq(E)
        PROVE  \E f : ApplyRun(d, actor, u, f) /\ ApplyAll(d, actor, u) = f[Len(u)]
    <2> DEFINE F(f) == [i \in 0 .. Len(u) |-> IF i = 0 THEN Done(d, <<>>) ELSE ApplyNext(f[i - 1], actor, u[i])]
               upTo == CHOOSE f : f = F(f)
    <2>1. ApplyAll(d, actor, u) = upTo[Len(u)]
      BY DEF ApplyAll
    <2>2. \E f : f = F(f)
      <3>1. PICK f : ApplyRun(d, actor, u, f)
        BY ApplyRuns
      <3>2. f = F(f)
        BY <3>1 DEF ApplyRun
      <3>3. QED
        BY <3>2
    <2>3. upTo = F(upTo)
      <3> HIDE DEF F
      <3>1. QED
        BY <2>2
    <2> HIDE DEF upTo
    <2>4. QED
      BY <2>1, <2>3 DEF ApplyRun
  <1>3. PICK f : ApplyRun(d, actor, s, f) /\ ApplyAll(d, actor, s) = f[n]
    BY <1>2
  <1>4. PICK g : ApplyRun(d, actor, v, g) /\ ApplyAll(d, actor, v) = g[n + 1]
    BY <1>1, <1>2
  <1>5. ApplyAll(d, actor, <<>>) = Done(d, <<>>)
    <2>1. PICK h : ApplyRun(d, actor, <<>>, h) /\ ApplyAll(d, actor, <<>>) = h[Len(<<>>)]
      BY <1>1, <1>2
    <2>2. QED
      BY <2>1 DEF ApplyRun
  <1> HIDE DEF n, v
  <1>6. g = [i \in 0 .. n + 1 |-> IF i = 0 THEN Done(d, <<>>) ELSE ApplyNext(g[i - 1], actor, v[i])]
    BY <1>1, <1>4 DEF ApplyRun
  <1> DEFINE h == [i \in 0 .. n |-> g[i]]
  <1>7. ApplyRun(d, actor, s, h)
    <2>1. ASSUME NEW i \in 0 .. n PROVE h[i] = IF i = 0 THEN Done(d, <<>>) ELSE ApplyNext(h[i - 1], actor, s[i])
      <3>1. CASE i = 0
        BY <1>1, <1>6, <3>1
      <3>2. CASE i \in 1 .. n
        <4>1. g[i] = ApplyNext(g[i - 1], actor, v[i])
          BY <1>1, <1>6, <3>2
        <4>2. h[i] = g[i] /\ h[i - 1] = g[i - 1] /\ v[i] = s[i]
          BY <1>1, <3>2
        <4>3. QED
          BY <1>1, <3>2, <4>1, <4>2
      <3>3. QED
        BY <1>1, <3>1, <3>2
    <2>2. h = [i \in 0 .. n |-> h[i]]
      OBVIOUS
    <2> HIDE DEF h
    <2>3. h = [i \in 0 .. n |-> IF i = 0 THEN Done(d, <<>>) ELSE ApplyNext(h[i - 1], actor, s[i])]
      BY <2>1, <2>2
    <2>4. QED
      BY <2>3 DEF ApplyRun, n
  <1>8. h[n] = g[n]
    BY <1>1
  <1> HIDE DEF h
  <1>9. h = f
    BY <1>3, <1>7, ApplyRuns
  <1>10. g[n + 1] = ApplyNext(g[n], actor, e)
    BY <1>1, <1>6
  <1>11. QED
    BY <1>3, <1>4, <1>5, <1>8, <1>9, <1>10 DEF v


\* The concatenation of a sequence of sequences is a function, and the only one.
FlatRun(s, f) == f = [i \in 1 .. Len(s) |-> IF i = 1 THEN s[i] ELSE f[i - 1] \o s[i]]

\* The recursive function behind FlattenSeq exists and is the only one.
LEMMA FlatRuns ==
  ASSUME NEW E, NEW s \in Seq(E)
  PROVE  /\ \E f : FlatRun(s, f)
         /\ \A f, g : FlatRun(s, f) /\ FlatRun(s, g) => f = g
  <1> DEFINE Bad == {u \in Seq(E) : ~ \E f : FlatRun(u, f)}
  <1>1. <<>> \notin Bad
    <2>1. FlatRun(<<>>, [i \in 1 .. 0 |-> 0])
      BY DEF FlatRun
    <2>2. QED
      BY <2>1
  <1>2. ASSUME NEW u \in Seq(E), NEW e \in E, u \notin Bad
        PROVE  Append(u, e) \notin Bad
    <2> DEFINE n == Len(u)
               v == Append(u, e)
    <2>1. PICK f : FlatRun(u, f)
      BY <1>2
    <2> DEFINE g == [i \in 1 .. n + 1 |-> IF i = n + 1 THEN IF n = 0 THEN e ELSE f[n] \o e ELSE f[i]]
    <2>2. n \in Nat /\ Len(v) = n + 1 /\ v[n + 1] = e /\ \A i \in 1 .. n : v[i] = u[i]
      OBVIOUS
    <2> HIDE DEF n, v
    <2>3. f = [i \in 1 .. n |-> IF i = 1 THEN u[i] ELSE f[i - 1] \o u[i]]
      BY <2>1 DEF FlatRun, n
    <2>4. ASSUME NEW i \in 1 .. n + 1 PROVE g[i] = IF i = 1 THEN v[i] ELSE g[i - 1] \o v[i]
      <3>1. CASE i = n + 1
        BY <2>2, <3>1
      <3>2. CASE i \in 1 .. n
        <4>1. f[i] = IF i = 1 THEN u[i] ELSE f[i - 1] \o u[i]
          BY <2>3, <3>2
        <4>2. g[i] = f[i] /\ (i # 1 => g[i - 1] = f[i - 1]) /\ v[i] = u[i]
          BY <2>2, <3>2
        <4>3. QED
          BY <4>1, <4>2
      <3>3. QED
        BY <2>2, <3>1, <3>2
    <2>5. FlatRun(v, g)
      <3>1. g = [i \in 1 .. n + 1 |-> IF i = 1 THEN v[i] ELSE g[i - 1] \o v[i]]
        <4>1. g = [i \in 1 .. n + 1 |-> g[i]]
          OBVIOUS
        <4> HIDE DEF g
        <4>2. QED
          BY <2>4, <4>1
      <3> HIDE DEF g
      <3>2. QED
        BY <2>2, <3>1 DEF FlatRun
    <2>6. QED
      BY <2>5 DEF v
  <1>3. Bad = {}
    <2> HIDE DEF Bad
    <2>1. Bad \in SUBSET Seq(E)
      BY DEF Bad
    <2>2. QED
      BY <1>1, <1>2, <2>1, SequenceInduction
  <1>4. ASSUME NEW f, NEW g, FlatRun(s, f), FlatRun(s, g)
        PROVE  f = g
    <2> DEFINE n == Len(s)
               T == {i \in 1 .. n : f[i] # g[i]}
    <2>0. n \in Nat
      OBVIOUS
    <2>1. /\ n \in Nat
          /\ f = [i \in 1 .. n |-> IF i = 1 THEN s[i] ELSE f[i - 1] \o s[i]]
          /\ g = [i \in 1 .. n |-> IF i = 1 THEN s[i] ELSE g[i - 1] \o s[i]]
      <3> HIDE DEF n
      <3>1. QED
        BY <1>4, <2>0 DEF FlatRun, n
    <2> HIDE DEF n
    <2>2. ASSUME T # {} PROVE FALSE
      <3>1. T \in SUBSET Nat
        BY <2>1
      <3>2. PICK i \in T : \A j \in T : i <= j
        BY <2>2, <3>1, LeastNumber
      <3>3. i \in 2 .. n
        BY <2>1, <3>2
      <3>4. f[i - 1] = g[i - 1]
        BY <2>1, <3>2, <3>3
      <3>5. i \in 1 .. n /\ i # 1 /\ f[i] # g[i]
        BY <2>1, <3>2, <3>3
      <3>6. f[i] = f[i - 1] \o s[i]
        BY ONLY <2>1, <3>5
      <3>7. g[i] = g[i - 1] \o s[i]
        BY ONLY <2>1, <3>5
      <3>8. QED
        BY <3>4, <3>5, <3>6, <3>7
    <2>3. \A i \in 1 .. n : f[i] = g[i]
      BY <2>2
    <2> HIDE DEF T
    <2>4. f = [i \in 1 .. n |-> f[i]] /\ g = [i \in 1 .. n |-> g[i]]
      BY ONLY <2>1
    <2>5. QED
      BY ONLY <2>3, <2>4
  <1>5. QED
    BY <1>3, <1>4

\* One more sequence is laid behind the others.
LEMMA FlattenAppend ==
  ASSUME NEW T, NEW s \in Seq(Seq(T)), NEW e \in Seq(T)
  PROVE  /\ FlattenSeq(<<>>) = <<>>
         /\ FlattenSeq(Append(s, e)) = IF s = <<>> THEN e ELSE FlattenSeq(s) \o e
  <1> DEFINE E == Seq(T)
             n == Len(s)
             v == Append(s, e)
  <1>1. /\ n \in Nat /\ Len(v) = n + 1 /\ v[n + 1] = e /\ v \in Seq(E) /\ s \in Seq(E)
        /\ \A i \in 1 .. n : v[i] = s[i]
    OBVIOUS
  <1> HIDE DEF E
  <1>2. ASSUME NEW u \in Seq(E), Len(u) # 0
        PROVE  \E f : FlatRun(u, f) /\ FlattenSeq(u) = f[Len(u)]
    <2> DEFINE F(f) == [i \in 1 .. Len(u) |-> IF i = 1 THEN u[i] ELSE f[i - 1] \o u[i]]
               upTo == CHOOSE f : f = F(f)
    <2>1. FlattenSeq(u) = upTo[Len(u)]
      BY <1>2 DEF FlattenSeq
    <2>2. \E f : f = F(f)
      <3>1. PICK f : FlatRun(u, f)
        BY FlatRuns
      <3>2. f = F(f)
        BY <3>1 DEF FlatRun
      <3>3. QED
        BY <3>2
    <2>3. upTo = F(upTo)
      <3> HIDE DEF F
      <3>1. QED
        BY <2>2
    <2> HIDE DEF upTo
    <2>4. QED
      BY <2>1, <2>3 DEF FlatRun
  <1>3. PICK g : FlatRun(v, g) /\ FlattenSeq(v) = g[n + 1]
    <2>1. Len(v) # 0 /\ v \in Seq(E) /\ Len(v) = n + 1
      BY <1>1
    <2> HIDE DEF v, n
    <2>2. QED
      BY <1>2, <2>1
  <1>4. FlattenSeq(<<>>) = <<>>
    BY DEF FlattenSeq
  <1>5. s = <<>> <=> n = 0
    OBVIOUS
  <1> HIDE DEF n, v
  <1>6. g = [i \in 1 .. n + 1 |-> IF i = 1 THEN v[i] ELSE g[i - 1] \o v[i]]
    BY <1>1, <1>3 DEF FlatRun
  <1>7. CASE n = 0
    <2>1. g[n + 1] = e
      BY <1>1, <1>6, <1>7
    <2>2. QED
      BY <1>3, <1>4, <1>5, <1>7, <2>1 DEF v
  <1>8. CASE n # 0
    <2>1. PICK f : FlatRun(s, f) /\ FlattenSeq(s) = f[n]
      BY <1>1, <1>2, <1>8 DEF n
    <2> DEFINE h == [i \in 1 .. n |-> g[i]]
    <2>2. FlatRun(s, h)
      <3>1. ASSUME NEW i \in 1 .. n PROVE h[i] = IF i = 1 THEN s[i] ELSE h[i - 1] \o s[i]
        <4>0. i \in 1 .. n + 1
          BY <1>1
        <4>1. g[i] = IF i = 1 THEN v[i] ELSE g[i - 1] \o v[i]
          BY ONLY <1>6, <4>0
        <4>2. h[i] = g[i] /\ (i # 1 => h[i - 1] = g[i - 1]) /\ v[i] = s[i]
          BY <1>1
        <4>3. QED
          BY <4>1, <4>2
      <3>2. h = [i \in 1 .. n |-> h[i]]
        OBVIOUS
      <3> HIDE DEF h
      <3>3. h = [i \in 1 .. n |-> IF i = 1 THEN s[i] ELSE h[i - 1] \o s[i]]
        BY <3>1, <3>2
      <3>4. QED
        BY <3>3 DEF FlatRun, n
    <2>3. h[n] = g[n]
      BY <1>1, <1>8
    <2> HIDE DEF h
    <2>4. h = f
      BY <1>1, <2>1, <2>2, FlatRuns
    <2>5. g[n + 1] = g[n] \o e
      <3>1. n + 1 \in 1 .. n + 1 /\ n + 1 # 1 /\ (n + 1) - 1 = n
        BY <1>1, <1>8
      <3>2. g[n + 1] = g[(n + 1) - 1] \o v[n + 1]
        BY ONLY <1>6, <3>1
      <3>3. QED
        BY <1>1, <3>1, <3>2
    <2>6. QED
      BY <1>3, <1>4, <1>5, <1>8, <2>1, <2>3, <2>4, <2>5 DEF v
  <1>9. QED
    BY <1>7, <1>8

\* The elements of the concatenation are those of its parts.
LEMMA FlattenElements ==
  ASSUME NEW T, NEW s \in Seq(Seq(T))
  PROVE  /\ FlattenSeq(s) \in Seq(T)
         /\ ToSet(FlattenSeq(s)) = UNION {ToSet(s[i]) : i \in 1 .. Len(s)}
  <1> DEFINE Holds(u) == /\ FlattenSeq(u) \in Seq(T)
                         /\ ToSet(FlattenSeq(u)) = UNION {ToSet(u[i]) : i \in 1 .. Len(u)}
             Bad == {u \in Seq(Seq(T)) : ~ Holds(u)}
  <1>1. Holds(<<>>)
    <2>1. FlattenSeq(<<>>) = <<>>
      BY FlattenAppend
    <2>2. <<>> \in Seq(T) /\ ToSet(<<>>) = {} /\ {ToSet((<<>>)[i]) : i \in 1 .. Len(<<>>)} = {}
      BY DEF ToSet
    <2>3. QED
      BY <2>1, <2>2
  <1>2. ASSUME NEW u \in Seq(Seq(T)), NEW e \in Seq(T), Holds(u)
        PROVE  Holds(Append(u, e))
    <2> DEFINE v == Append(u, e)
               w == FlattenSeq(u)
    <2>1. FlattenSeq(v) = w \o e
      <3>1. CASE u = <<>>
        <4>1. w = <<>> /\ FlattenSeq(v) = e
          BY <3>1, FlattenAppend
        <4>2. QED
          BY <4>1
      <3>2. CASE u # <<>>
        BY <3>2, FlattenAppend
      <3>3. QED
        BY <3>1, <3>2
    <2>2. w \in Seq(T) /\ ToSet(w) = UNION {ToSet(u[i]) : i \in 1 .. Len(u)}
      BY <1>2
    <2>3. /\ Len(u) \in Nat /\ Len(v) = Len(u) + 1 /\ v[Len(u) + 1] = e
          /\ \A i \in 1 .. Len(u) : v[i] = u[i]
      OBVIOUS
    <2> HIDE DEF v, w
    <2>4. w \o e \in Seq(T) /\ ToSet(w \o e) = ToSet(w) \cup ToSet(e)
      <3>1. /\ w \o e \in Seq(T) /\ Len(w \o e) = Len(w) + Len(e)
            /\ \A i \in 1 .. Len(w) + Len(e) : (w \o e)[i] = IF i <= Len(w) THEN w[i] ELSE e[i - Len(w)]
        BY <2>2, ConcatProperties
      <3> DEFINE x == w \o e
      <3>2. /\ DOMAIN x = 1 .. Len(w) + Len(e) /\ DOMAIN w = 1 .. Len(w) /\ DOMAIN e = 1 .. Len(e)
            /\ Len(w) \in Nat /\ Len(e) \in Nat
        BY <2>2, <3>1
      <3> HIDE DEF x
      <3>3. ASSUME NEW y \in ToSet(x) PROVE y \in ToSet(w) \cup ToSet(e)
        <4>1. PICK i \in 1 .. Len(w) + Len(e) : y = x[i]
          BY <3>2 DEF ToSet
        <4>2. y = IF i <= Len(w) THEN w[i] ELSE e[i - Len(w)]
          BY <3>1, <4>1 DEF x
        <4>3. (i <= Len(w) => i \in DOMAIN w) /\ (~ (i <= Len(w)) => i - Len(w) \in DOMAIN e)
          BY <3>2
        <4>4. QED
          BY <4>2, <4>3 DEF ToSet
      <3>4. ASSUME NEW y \in ToSet(w) PROVE y \in ToSet(x)
        <4>1. PICK i \in 1 .. Len(w) : y = w[i]
          BY <3>2 DEF ToSet
        <4>2. i \in DOMAIN x /\ x[i] = y
          BY <3>1, <3>2, <4>1 DEF x
        <4>3. QED
          BY <4>2 DEF ToSet
      <3>5. ASSUME NEW y \in ToSet(e) PROVE y \in ToSet(x)
        <4>1. PICK i \in 1 .. Len(e) : y = e[i]
          BY <3>2 DEF ToSet
        <4>2. Len(w) + i \in DOMAIN x /\ ~ (Len(w) + i <= Len(w)) /\ (Len(w) + i) - Len(w) = i
          BY <3>2
        <4>3. x[Len(w) + i] = e[(Len(w) + i) - Len(w)]
          BY <3>1, <3>2, <4>2 DEF x
        <4>4. x[Len(w) + i] = y
          BY <4>1, <4>2, <4>3
        <4>5. QED
          BY <4>2, <4>4 DEF ToSet
      <3>6. QED
        BY <3>1, <3>3, <3>4, <3>5 DEF x
    <2>5. (UNION {ToSet(v[i]) : i \in 1 .. Len(v)}) = (UNION {ToSet(u[i]) : i \in 1 .. Len(u)}) \cup ToSet(e)
      <3>1. 1 .. Len(v) = 1 .. Len(u) \cup {Len(u) + 1}
        BY <2>3
      <3> DEFINE A == {ToSet(u[i]) : i \in 1 .. Len(u)}
                 B == {ToSet(v[i]) : i \in 1 .. Len(v)}
      <3>2. B = A \cup {ToSet(e)}
        <4>1. ASSUME NEW x \in B PROVE x \in A \cup {ToSet(e)}
          BY <2>3, <3>1
        <4>2. ASSUME NEW x \in A PROVE x \in B
          BY <2>3, <3>1
        <4>3. ToSet(e) \in B
          BY <2>3, <3>1
        <4>4. QED
          BY <4>1, <4>2, <4>3
      <3> HIDE DEF A, B
      <3>3. (UNION B) = (UNION A) \cup ToSet(e)
        <4> DEFINE c == ToSet(e)
        <4>1. B = A \cup {c}
          BY <3>2
        <4> HIDE DEF c
        <4>2. ASSUME NEW x, NEW b \in B, x \in b PROVE x \in (UNION A) \cup c
          BY ONLY <4>1, <4>2
        <4>3. ASSUME NEW x, x \in c \/ \E a \in A : x \in a PROVE \E b \in B : x \in b
          BY ONLY <4>1, <4>3
        <4>4. (UNION B) = (UNION A) \cup c
          BY ONLY <4>2, <4>3
        <4>5. QED
          BY <4>4 DEF c
      <3>4. QED
        BY <3>3 DEF A, B
    <2>6. FlattenSeq(v) \in Seq(T) /\ ToSet(FlattenSeq(v)) = UNION {ToSet(v[i]) : i \in 1 .. Len(v)}
      <3>1. FlattenSeq(v) \in Seq(T)
        BY <2>1, <2>4
      <3>2. ToSet(FlattenSeq(v)) = ToSet(w) \cup ToSet(e)
        BY <2>1, <2>4
      <3> DEFINE A == UNION {ToSet(u[i]) : i \in 1 .. Len(u)}
                 B == UNION {ToSet(v[i]) : i \in 1 .. Len(v)}
      <3>3. ToSet(w) = A
        BY ONLY <2>2
      <3>6. B = A \cup ToSet(e)
        BY ONLY <2>5
      <3> HIDE DEF A, B
      <3>4. ToSet(FlattenSeq(v)) = B
        BY <3>2, <3>3, <3>6
      <3>5. QED
        BY <3>1, <3>4 DEF B
    <2>7. QED
      BY <2>6 DEF v
  <1>3. Bad = {}
    <2>1. Bad \in SUBSET Seq(Seq(T)) /\ <<>> \notin Bad
      BY <1>1
    <2>2. \A u \in Seq(Seq(T)), e \in Seq(T) : u \notin Bad => Append(u, e) \notin Bad
      BY <1>2
    <2> HIDE DEF Bad
    <2>3. QED
      BY <2>1, <2>2, SequenceInduction
  <1>4. QED
    BY <1>3

-----------------------------------------------------------------------------
(***************************************************************************)
(* Sequences of whatever they hold.                                        *)
(***************************************************************************)
\* A sequence is one over every set that has its elements.
LEMMA SequencesGrow ==
  ASSUME NEW s, IsSequence(s), NEW T, ToSet(s) \subseteq T
  PROVE  s \in Seq(T)
  <1>1. s \in Seq(ToSet(s)) /\ DOMAIN s = 1 .. Len(s) /\ Len(s) \in Nat
    BY DEF IsSequence
  <1>2. s = [i \in 1 .. Len(s) |-> s[i]] /\ \A i \in 1 .. Len(s) : s[i] \in T
    BY <1>1 DEF ToSet
  <1>3. QED
    BY <1>1, <1>2

\* The positions of a sequence are 1 .. Len, and its elements stand at them.
LEMMA SequenceFacts ==
  ASSUME NEW s, IsSequence(s)
  PROVE  /\ s \in Seq(ToSet(s)) /\ Len(s) \in Nat /\ DOMAIN s = 1 .. Len(s)
         /\ \A i \in 1 .. Len(s) : s[i] \in ToSet(s)
         /\ \A x \in ToSet(s) : \E i \in 1 .. Len(s) : x = s[i]
  BY DEF IsSequence, ToSet

\* The empty sequence is a sequence without elements.
LEMMA EmptySequence == IsSequence(<<>>) /\ ToSet(<<>>) = {} /\ Len(<<>>) = 0
  BY DEF IsSequence, ToSet

\* Insertion.
LEMMA Spliced ==
  ASSUME NEW s, IsSequence(s), NEW e, NEW k \in 0 .. Len(s)
  PROVE  /\ IsSequence(Splice(s, k, e)) /\ Len(Splice(s, k, e)) = Len(s) + 1
         /\ ToSet(Splice(s, k, e)) = ToSet(s) \cup {e}
         /\ k + 1 \in DOMAIN Splice(s, k, e) /\ Splice(s, k, e)[k + 1] = e
         /\ \A i \in 1 .. Len(s) + 1 :
              Splice(s, k, e)[i] = IF i <= k THEN s[i] ELSE IF i = k + 1 THEN e ELSE s[i - 1]
         /\ RemoveAt(Splice(s, k, e), k + 1) = s
  <1> DEFINE T == ToSet(s) \cup {e}
             u == Splice(s, k, e)
  <1>1. s \in Seq(T) /\ e \in T /\ Len(s) \in Nat
    BY SequencesGrow, SequenceFacts
  <1> HIDE DEF T
  <1>2. /\ u \in Seq(T) /\ Len(u) = Len(s) + 1
        /\ \A i \in 1 .. Len(s) + 1 : u[i] = IF i <= k THEN s[i] ELSE IF i = k + 1 THEN e ELSE s[i - 1]
    <2>1. s \in Seq(T) /\ e \in T /\ k \in 0 .. Len(s)
      BY <1>1
    <2>2. Splice(s, k, e) \in Seq(T) /\ SplicedAs(s, k, e, Splice(s, k, e))
      BY ONLY <2>1, SpliceIsSeq
    <2>3. QED
      BY ONLY <2>2 DEF SplicedAs
  <1>3. ToSet(u) = ToSet(s) \cup {e} /\ RemoveAt(u, k + 1) = s
    BY <1>1, SpliceElements, SpliceUndone
  <1> HIDE DEF u
  <1>4. IsSequence(u) /\ k + 1 \in DOMAIN u /\ u[k + 1] = e
    BY <1>1, <1>2, SequenceOfElements
  <1>5. QED
    BY <1>2, <1>3, <1>4 DEF u

\* Removal.
LEMMA Taken ==
  ASSUME NEW s, IsSequence(s), NEW k \in DOMAIN s
  PROVE  /\ IsSequence(RemoveAt(s, k)) /\ Len(RemoveAt(s, k)) = Len(s) - 1
         /\ ToSet(RemoveAt(s, k)) \subseteq ToSet(s)
         /\ ToSet(s) = ToSet(RemoveAt(s, k)) \cup {s[k]}
         /\ \A i \in 1 .. Len(s) - 1 : RemoveAt(s, k)[i] = IF i < k THEN s[i] ELSE s[i + 1]
         /\ k - 1 \in 0 .. Len(RemoveAt(s, k)) /\ Splice(RemoveAt(s, k), k - 1, s[k]) = s
  <1> DEFINE T == ToSet(s)
             u == RemoveAt(s, k)
  <1>1. s \in Seq(T) /\ Len(s) \in Nat /\ k \in 1 .. Len(s)
    BY SequenceFacts
  <1> HIDE DEF T
  <1>2. /\ u \in Seq(T) /\ Len(u) = Len(s) - 1
        /\ \A i \in 1 .. Len(s) - 1 : u[i] = IF i < k THEN s[i] ELSE s[i + 1]
    BY <1>1, RemoveIsSeq
  <1>3. ToSet(u) \subseteq ToSet(s) /\ ToSet(s) = ToSet(u) \cup {s[k]} /\ Splice(u, k - 1, s[k]) = s
    BY <1>1, RemoveElements, RemoveUndone
  <1> HIDE DEF u
  <1>4. IsSequence(u) /\ k - 1 \in 0 .. Len(u)
    BY <1>1, <1>2, SequenceOfElements
  <1>5. QED
    BY <1>2, <1>3, <1>4 DEF u

\* Replacement.
PutAt(s, k, e) == [s EXCEPT ![k] = e]

\* What replacing one element of a sequence does, and that it can be put back.
LEMMA Replaced ==
  ASSUME NEW s, IsSequence(s), NEW k \in DOMAIN s, NEW e, NEW u, u = PutAt(s, k, e)
  PROVE  /\ IsSequence(u) /\ Len(u) = Len(s) /\ DOMAIN u = DOMAIN s
         /\ ToSet(u) \subseteq ToSet(s) \cup {e} /\ ToSet(s) \subseteq ToSet(u) \cup {s[k]}
         /\ e \in ToSet(u)
         /\ \A i \in DOMAIN s : u[i] = IF i = k THEN e ELSE s[i]
         /\ PutAt(u, k, s[k]) = s
  <1>0. u = [s EXCEPT ![k] = e]
    BY DEF PutAt
  <1> DEFINE T == ToSet(s) \cup {e}
  <1>1. s \in Seq(T) /\ e \in T /\ Len(s) \in Nat /\ k \in 1 .. Len(s) /\ DOMAIN s = 1 .. Len(s)
    BY SequencesGrow, SequenceFacts
  <1> HIDE DEF T
  <1>2. /\ u \in Seq(T)
        /\ ToSet(u) \subseteq ToSet(s) \cup {e} /\ ToSet(s) \subseteq ToSet(u) \cup {s[k]} /\ e \in ToSet(u)
    <2> DEFINE w == [s EXCEPT ![k] = e]
    <2>1. /\ w \in Seq(T)
          /\ ToSet(w) \subseteq ToSet(s) \cup {e} /\ ToSet(s) \subseteq ToSet(w) \cup {s[k]} /\ e \in ToSet(w)
      BY <1>1, ReplaceElements
    <2>2. u = w
      BY <1>0
    <2> HIDE DEF w
    <2>3. QED
      BY ONLY <2>1, <2>2
  <1>3. DOMAIN u = DOMAIN s /\ (\A i \in DOMAIN s : u[i] = IF i = k THEN e ELSE s[i]) /\ PutAt(u, k, s[k]) = s
    <2>1. s = [i \in 1 .. Len(s) |-> s[i]]
      BY <1>1
    <2>2. DOMAIN u = DOMAIN s /\ \A i \in DOMAIN s : u[i] = IF i = k THEN e ELSE s[i]
      BY <1>0, <2>1
    <2> DEFINE w == [u EXCEPT ![k] = s[k]]
    <2>3. w = [i \in 1 .. Len(s) |-> IF i = k THEN s[k] ELSE u[i]]
      BY <1>1, <2>2
    <2>4. w = [i \in 1 .. Len(s) |-> s[i]]
      BY <1>1, <2>2, <2>3
    <2>5. QED
      BY <2>1, <2>2, <2>4 DEF PutAt
  <1>4. IsSequence(u) /\ Len(u) = Len(s)
    BY ONLY <1>1, <1>2, <1>3, SequenceOfElements
  <1>5. QED
    BY <1>2, <1>3, <1>4

-----------------------------------------------------------------------------
(***************************************************************************)
(* Documents.                                                              *)
(***************************************************************************)
\* The document with other clips on one track, and with other tracks.
WithClips(d, t, s) == [d EXCEPT !.tracks[t].clips = s]
WithTracks(d, T) == [d EXCEPT !.tracks = T]
WithLocks(d, L) == [d EXCEPT !.locks = L]
WithList(d, list, s) == [d EXCEPT ![list] = s]

\* What the type of a document says of its tracks, locks and libraries.
LEMMA DocumentFacts ==
  ASSUME NEW d, IsDocument(d)
  PROVE  /\ d = [tracks |-> d.tracks, locks |-> d.locks, assets |-> d.assets, artifacts |-> d.artifacts]
         /\ IsSequence(d.tracks) /\ IsSequence(d.locks) /\ IsSequence(d.assets) /\ IsSequence(d.artifacts)
         /\ DOMAIN d.tracks = 1 .. Len(d.tracks) /\ Len(d.tracks) \in Nat
         /\ \A t \in DOMAIN d.tracks : IsTrack(d.tracks[t]) /\ d.tracks[t] \in ToSet(d.tracks)
         /\ \A t \in DOMAIN d.tracks : IsSequence(d.tracks[t].clips)
         /\ \A i \in DOMAIN d.locks : IsLock(d.locks[i]) /\ d.locks[i] \in ToSet(d.locks)
  <1>1. \A t \in DOMAIN d.tracks : IsTrack(d.tracks[t]) /\ d.tracks[t] \in ToSet(d.tracks)
    BY DEF IsDocument, ToSet
  <1>2. \A i \in DOMAIN d.locks : IsLock(d.locks[i]) /\ d.locks[i] \in ToSet(d.locks)
    BY DEF IsDocument, ToSet
  <1>3. IsSequence(d.tracks)
    BY DEF IsDocument
  <1>4. DOMAIN d.tracks = 1 .. Len(d.tracks) /\ Len(d.tracks) \in Nat
    BY <1>3, SequenceFacts
  <1>5. QED
    BY <1>1, <1>2, <1>4 DEF IsDocument, IsTrack

\* A clip at a position of a track is a clip of the document.
LEMMA ClipFacts ==
  ASSUME NEW d, IsDocument(d), NEW t \in DOMAIN d.tracks, NEW i \in DOMAIN d.tracks[t].clips
  PROVE  /\ IsClip(d.tracks[t].clips[i]) /\ d.tracks[t].clips[i] \in ToSet(d.tracks[t].clips)
         /\ d.tracks[t].clips[i] \in ClipsOf(d) /\ d.tracks[t].clips[i].id \in ClipIds(d)
  <1>1. IsTrack(d.tracks[t]) /\ d.tracks[t] \in ToSet(d.tracks)
    BY DocumentFacts
  <1>2. d.tracks[t].clips[i] \in ToSet(d.tracks[t].clips)
    BY DEF ToSet
  <1>3. QED
    BY <1>1, <1>2 DEF IsTrack, ClipsOf, ClipIds

\* Every clip of a document stands at a position of a track.
LEMMA ClipsByPosition ==
  ASSUME NEW d, IsDocument(d), NEW c \in ClipsOf(d)
  PROVE  \E t \in DOMAIN d.tracks : \E i \in DOMAIN d.tracks[t].clips : c = d.tracks[t].clips[i]
  BY DEF ClipsOf, ToSet

\* Other tracks.
LEMMA Retracked ==
  ASSUME NEW d, IsDocument(d), NEW T, IsSequence(T), \A t \in DOMAIN T : IsTrack(T[t]),
         NEW e, e = [d EXCEPT !.tracks = T]
  PROVE  /\ IsDocument(e) /\ e.tracks = T /\ e.locks = d.locks
         /\ e.assets = d.assets /\ e.artifacts = d.artifacts
         /\ [e EXCEPT !.tracks = d.tracks] = d
  <1>1. d = [tracks |-> d.tracks, locks |-> d.locks, assets |-> d.assets, artifacts |-> d.artifacts]
    BY DocumentFacts
  <1>2. e = [tracks |-> T, locks |-> d.locks, assets |-> d.assets, artifacts |-> d.artifacts]
    BY <1>1
  <1>3. e.tracks = T /\ e.locks = d.locks /\ e.assets = d.assets /\ e.artifacts = d.artifacts
    BY <1>2
  <1>4. [e EXCEPT !.tracks = d.tracks] = d
    BY <1>1, <1>2
  <1>5. \A track \in ToSet(T) : IsTrack(track)
    BY DEF ToSet
  <1>6. e = [tracks |-> e.tracks, locks |-> e.locks, assets |-> e.assets, artifacts |-> e.artifacts]
    BY <1>2, <1>3
  <1>7. IsSequence(d.locks) /\ IsSequence(d.assets) /\ IsSequence(d.artifacts)
        /\ \A lock \in ToSet(d.locks) : IsLock(lock)
    BY DEF IsDocument
  <1>8. IsDocument(e)
    BY ONLY <1>3, <1>5, <1>6, <1>7, IsSequence(T) DEF IsDocument
  <1>9. QED
    BY <1>3, <1>4, <1>8

\* Other clips on a track.
LEMMA Reclipped ==
  ASSUME NEW d, IsDocument(d), NEW t \in DOMAIN d.tracks, NEW s, IsSequence(s), \A i \in DOMAIN s : IsClip(s[i])
  PROVE  /\ IsDocument(WithClips(d, t, s))
         /\ WithClips(d, t, s) = [d EXCEPT !.tracks = [d.tracks EXCEPT ![t] = [d.tracks[t] EXCEPT !.clips = s]]]
         /\ WithClips(d, t, s).locks = d.locks /\ WithClips(d, t, s).assets = d.assets
         /\ WithClips(d, t, s).artifacts = d.artifacts
         /\ DOMAIN WithClips(d, t, s).tracks = DOMAIN d.tracks
         /\ \A u \in DOMAIN d.tracks :
              /\ WithClips(d, t, s).tracks[u].id = d.tracks[u].id
              /\ WithClips(d, t, s).tracks[u].locked = d.tracks[u].locked
              /\ WithClips(d, t, s).tracks[u].clips = IF u = t THEN s ELSE d.tracks[u].clips
              /\ u # t => WithClips(d, t, s).tracks[u] = d.tracks[u]
         /\ \A v : WithClips(WithClips(d, t, s), t, v) = WithClips(d, t, v)
         /\ WithClips(d, t, d.tracks[t].clips) = d
  <1> DEFINE e == WithClips(d, t, s)
             track == [d.tracks[t] EXCEPT !.clips = s]
             T == PutAt(d.tracks, t, track)
  <1>1. /\ d = [tracks |-> d.tracks, locks |-> d.locks, assets |-> d.assets, artifacts |-> d.artifacts]
        /\ IsTrack(d.tracks[t]) /\ IsSequence(d.tracks) /\ \A u \in DOMAIN d.tracks : IsTrack(d.tracks[u])
    BY DocumentFacts
  <1>2. d.tracks[t] = [id |-> d.tracks[t].id, locked |-> d.tracks[t].locked, clips |-> d.tracks[t].clips]
        /\ d.tracks[t].locked \in BOOLEAN
    BY <1>1 DEF IsTrack
  <1>3. track = [id |-> d.tracks[t].id, locked |-> d.tracks[t].locked, clips |-> s]
    BY <1>2
  <1>4. track.id = d.tracks[t].id /\ track.locked = d.tracks[t].locked /\ track.clips = s
    BY <1>3
  <1>5. IsTrack(track)
    <2>1. track = [id |-> track.id, locked |-> track.locked, clips |-> track.clips]
      BY <1>3, <1>4
    <2>2. \A c \in ToSet(s) : IsClip(c)
      BY DEF ToSet
    <2> HIDE DEF track
    <2>3. QED
      BY <1>2, <1>4, <2>1, <2>2 DEF IsTrack
  <1>6. e = [d EXCEPT !.tracks = T]
    BY <1>1 DEF WithClips, PutAt
  <1>7. IsSequence(T) /\ DOMAIN T = DOMAIN d.tracks /\ \A u \in DOMAIN d.tracks : T[u] = IF u = t THEN track ELSE d.tracks[u]
    <2> HIDE DEF track
    <2>1. QED
      BY <1>1, Replaced
  <1>8. \A v : WithClips(e, t, v) = WithClips(d, t, v)
    <2>1. TAKE v
    <2>2. WithClips(d, t, v) = [d EXCEPT !.tracks = [d.tracks EXCEPT ![t] = [d.tracks[t] EXCEPT !.clips = v]]]
      BY <1>1 DEF WithClips
    <2>3. e.tracks = T
      BY <1>1, <1>6
    <2>4. WithClips(e, t, v) = [e EXCEPT !.tracks = [T EXCEPT ![t] = [T[t] EXCEPT !.clips = v]]]
      <3> HIDE DEF e, T
      <3>1. QED
        BY <2>3 DEF WithClips
    <2>5. [T[t] EXCEPT !.clips = v] = [d.tracks[t] EXCEPT !.clips = v]
      BY <1>2, <1>3, <1>7
    <2> DEFINE new == [d.tracks[t] EXCEPT !.clips = v]
    <2>6. [T EXCEPT ![t] = new] = [d.tracks EXCEPT ![t] = new]
      BY DEF PutAt
    <2> HIDE DEF new
    <2>7. \A U : [e EXCEPT !.tracks = U] = [d EXCEPT !.tracks = U]
      BY <1>1, <1>6
    <2>8. QED
      BY <2>2, <2>4, <2>5, <2>6, <2>7 DEF new
  <1>9. WithClips(d, t, d.tracks[t].clips) = d
    <2>1. [d.tracks[t] EXCEPT !.clips = d.tracks[t].clips] = d.tracks[t]
      BY <1>2
    <2>2. [d.tracks EXCEPT ![t] = d.tracks[t]] = d.tracks
      BY <1>1, SequenceFacts
    <2>3. [d EXCEPT !.tracks = d.tracks] = d
      BY <1>1
    <2>4. QED
      BY <1>1, <2>1, <2>2, <2>3 DEF WithClips
  <1> HIDE DEF track
  <1>10. \A u \in DOMAIN T : IsTrack(T[u])
    BY <1>1, <1>5, <1>7
  <1> HIDE DEF T, e
  <1>11. IsDocument(e) /\ e.tracks = T /\ e.locks = d.locks /\ e.assets = d.assets /\ e.artifacts = d.artifacts
    BY <1>6, <1>7, <1>10, Retracked
  <1>12. /\ DOMAIN e.tracks = DOMAIN d.tracks
         /\ \A u \in DOMAIN d.tracks :
              /\ e.tracks[u].id = d.tracks[u].id /\ e.tracks[u].locked = d.tracks[u].locked
              /\ e.tracks[u].clips = IF u = t THEN s ELSE d.tracks[u].clips
              /\ u # t => e.tracks[u] = d.tracks[u]
    BY <1>4, <1>7, <1>11
  <1>13. QED
    BY <1>6, <1>8, <1>9, <1>11, <1>12 DEF e, T, track, PutAt

-----------------------------------------------------------------------------
(***************************************************************************)
(* Lookups.                                                                *)
(***************************************************************************)
\* The track that is found has the id.
LEMMA TrackFound ==
  ASSUME NEW d, IsDocument(d), NEW id \in TrackIds(d)
  PROVE  /\ FindTrack(d, id) \in DOMAIN d.tracks /\ d.tracks[FindTrack(d, id)].id = id
         /\ Track(d, id) = d.tracks[FindTrack(d, id)]
  <1> DEFINE p == {t \in DOMAIN d.tracks : d.tracks[t].id = id}
  <1>1. p # {}
    BY DEF TrackIds, ToSet
  <1>2. p \in SUBSET Nat /\ 0 \notin p
    BY DocumentFacts
  <1> HIDE DEF p
  <1>3. First(p) \in p
    BY <1>1, <1>2, FirstPosition
  <1>4. FindTrack(d, id) \in p
    BY <1>3 DEF FindTrack, p
  <1>5. QED
    BY <1>4 DEF p, Track

\* Looking a lock's id up finds a lock of that id.
LEMMA LockFound ==
  ASSUME NEW d, IsDocument(d), NEW id \in LockIds(d)
  PROVE  FindLock(d, id) \in DOMAIN d.locks /\ d.locks[FindLock(d, id)].id = id
  <1> DEFINE p == {i \in DOMAIN d.locks : d.locks[i].id = id}
  <1>1. p # {}
    BY DEF LockIds, ToSet
  <1>2. p \in SUBSET Nat /\ 0 \notin p
    <2>1. IsSequence(d.locks)
      BY DocumentFacts
    <2>2. DOMAIN d.locks = 1 .. Len(d.locks) /\ Len(d.locks) \in Nat
      BY <2>1, SequenceFacts
    <2>3. QED
      BY <2>2
  <1> HIDE DEF p
  <1>3. First(p) \in p
    BY <1>1, <1>2, FirstPosition
  <1>4. FindLock(d, id) \in p
    BY <1>3 DEF FindLock, p
  <1>5. QED
    BY <1>4 DEF p

\* The clip that is found has the id.
LEMMA ClipFound ==
  ASSUME NEW d, IsDocument(d), NEW id \in ClipIds(d), NEW at, at = FindClip(d, id)
  PROVE  /\ at.track \in DOMAIN d.tracks /\ at.index \in DOMAIN d.tracks[at.track].clips
         /\ ClipAt(d, at) = d.tracks[at.track].clips[at.index] /\ Clip(d, id) = ClipAt(d, at)
         /\ ClipAt(d, at).id = id /\ IsClip(ClipAt(d, at))
         /\ ClipAt(d, at) \in ToSet(d.tracks[at.track].clips)
         /\ at = [track |-> at.track, index |-> at.index]
  <1> DEFINE q(track) == {i \in DOMAIN track.clips : track.clips[i].id = id}
             p == {t \in DOMAIN d.tracks : First(q(d.tracks[t])) # 0}
             t0 == First(p)
             i0 == First(q(d.tracks[t0]))
  <1>1. \A t \in DOMAIN d.tracks : q(d.tracks[t]) \in SUBSET Nat /\ 0 \notin q(d.tracks[t])
    <2>1. TAKE t \in DOMAIN d.tracks
    <2>2. IsSequence(d.tracks[t].clips)
      BY DocumentFacts
    <2>3. DOMAIN d.tracks[t].clips = 1 .. Len(d.tracks[t].clips) /\ Len(d.tracks[t].clips) \in Nat
      BY <2>2, SequenceFacts
    <2>4. QED
      BY <2>3
  <1>2. \A t \in DOMAIN d.tracks : First(q(d.tracks[t])) = 0 \/ First(q(d.tracks[t])) \in q(d.tracks[t])
    <2> HIDE DEF q
    <2>1. QED
      BY <1>1, FirstPosition
  <1>3. PICK c \in ClipsOf(d) : c.id = id
    BY DEF ClipIds
  <1>4. PICK t \in DOMAIN d.tracks : \E i \in DOMAIN d.tracks[t].clips : c = d.tracks[t].clips[i]
    BY ClipsByPosition
  <1>5. q(d.tracks[t]) # {}
    BY <1>3, <1>4
  <1>6. First(q(d.tracks[t])) # 0
    <2> HIDE DEF q
    <2>1. QED
      BY <1>1, <1>5, FirstPosition
  <1>7. p # {} /\ p \in SUBSET Nat /\ 0 \notin p
    <2>1. DOMAIN d.tracks = 1 .. Len(d.tracks) /\ Len(d.tracks) \in Nat
      BY DocumentFacts
    <2> HIDE DEF q
    <2>2. QED
      BY <1>6, <2>1
  <1>8. t0 \in p /\ t0 # 0
    <2> HIDE DEF p
    <2>1. QED
      BY <1>7, FirstPosition
  <1>9. t0 \in DOMAIN d.tracks /\ i0 # 0
    BY <1>8
  <1>10. i0 \in q(d.tracks[t0])
    <2> HIDE DEF q, t0
    <2>1. QED
      BY <1>2, <1>9
  <1>11. at = [track |-> t0, index |-> i0]
    BY <1>8 DEF FindClip
  <1> HIDE DEF t0
  <1>12. i0 \in DOMAIN d.tracks[t0].clips /\ d.tracks[t0].clips[i0].id = id
    BY <1>10
  <1> HIDE DEF i0
  <1>13. IsClip(d.tracks[t0].clips[i0]) /\ d.tracks[t0].clips[i0] \in ToSet(d.tracks[t0].clips)
    BY <1>9, <1>12, ClipFacts
  <1>14. at.track = t0 /\ at.index = i0
    BY <1>11
  <1>15. QED
    BY <1>9, <1>11, <1>12, <1>13, <1>14 DEF ClipAt, Clip

\* In a document whose ids are unique, there is no other.
LEMMA TrackFoundAt ==
  ASSUME NEW d, IsDocument(d), IdsUnique(d), NEW t \in DOMAIN d.tracks, NEW id, d.tracks[t].id = id
  PROVE  FindTrack(d, id) = t /\ Track(d, id) = d.tracks[t]
  <1>1. id \in TrackIds(d)
    BY DEF TrackIds, ToSet
  <1>2. QED
    BY <1>1, TrackFound DEF IdsUnique, Track

\* With distinct ids the lookup finds the lock where it stands.
LEMMA LockFoundAt ==
  ASSUME NEW d, IsDocument(d), IdsUnique(d), NEW i \in DOMAIN d.locks, NEW id, d.locks[i].id = id
  PROVE  FindLock(d, id) = i
  <1>1. id \in LockIds(d)
    BY DEF LockIds, ToSet
  <1>2. QED
    BY <1>1, LockFound DEF IdsUnique

\* With distinct ids the lookup finds the clip where it stands.
LEMMA ClipFoundAt ==
  ASSUME NEW d, IsDocument(d), IdsUnique(d), NEW t \in DOMAIN d.tracks,
         NEW i \in DOMAIN d.tracks[t].clips, NEW id, d.tracks[t].clips[i].id = id
  PROVE  FindClip(d, id) = [track |-> t, index |-> i]
  <1> DEFINE at == FindClip(d, id)
  <1>1. id \in ClipIds(d)
    BY ClipFacts
  <1>2. /\ at.track \in DOMAIN d.tracks /\ at.index \in DOMAIN d.tracks[at.track].clips
        /\ d.tracks[at.track].clips[at.index].id = id
        /\ at = [track |-> at.track, index |-> at.index]
    BY <1>1, ClipFound
  <1> HIDE DEF at
  <1>3. at.track = t /\ at.index = i
    BY <1>2 DEF IdsUnique
  <1>4. QED
    BY <1>2, <1>3 DEF at

-----------------------------------------------------------------------------
(***************************************************************************)
(* What an operation may do to a document.                                 *)
(***************************************************************************)
\* A clip stands on a track of the id.
On(d, id, clip) == \E track \in ToSet(d.tracks) : track.id = id /\ clip \in ToSet(track.clips)

\* Only the tracks and clips that are counted as affected change.
Changes(d, e, affected) ==
  /\ \A track \in ToSet(d.tracks) : track \in ToSet(e.tracks) \/ track.id \in affected.tracks
  /\ \A track \in ToSet(e.tracks) : track \in ToSet(d.tracks) \/ track.id \in affected.tracks
  /\ \A id, clip : On(d, id, clip) =>
       \/ On(e, id, clip)
       \/ id \in affected.tracks /\ clip.id \in affected.clips /\ clip.range \in affected.ranges

\* A clip that appears under an id in use is counted: no operation but an update
\* gives a clip the id of another.
Unborrowed(d, e, affected) ==
  \A clip \in ClipsOf(e) : clip \in ClipsOf(d) \/ clip.id \in affected.clips \/ clip.id \notin ClipIds(d)
Effects(d, e, affected) == Changes(d, e, affected) /\ Unborrowed(d, e, affected)

\* The updates source locks let through, and those that rename a clip.
SourceScope == [kind |-> "source_range"]
PropertyScope == [kind |-> "property"]
TakesSource(op) == Escapes(op, SourceScope)
Renames(op) == Escapes(op, PropertyScope)

\* What plays of an asset inside a range goes on playing if the operation is not
\* taken to touch it and is not an update that source locks let through.
SourceStays(d, op, e) ==
  ~ TakesSource(op) => \A assetId : \A r \in TimeRange : ~ TouchesSource(d, op, assetId, r) =>
    \A clip \in ClipsOf(d) : \A i \in Instants(clip.src) \cap Instants(r) :
      clip.enabled /\ clip.asset = assetId =>
        \E other \in ClipsOf(e) : other.enabled /\ other.asset = assetId /\ i \in Instants(other.src)

TypedInverse(ops) == IsSequence(ops) /\ \A op \in ToSet(ops) : IsOperation(op)

\* An operation escapes the locks of a kind, whatever else their scopes say.
LEMMA EscapesByKind ==
  ASSUME NEW op, NEW scope
  PROVE  /\ scope.kind = "source_range" => (Escapes(op, scope) <=> TakesSource(op))
         /\ scope.kind = "property" => (Escapes(op, scope) <=> Renames(op))
         /\ TakesSource(op) \/ Renames(op) => op.type = "clip.update"
  BY DEF Escapes, TakesSource, Renames, SourceScope, PropertyScope

\* The tracks are those there were, one for one, with other clips.
LEMMA PointwiseChanges ==
  ASSUME NEW d, IsDocument(d), NEW e, IsDocument(e), NEW A,
         DOMAIN e.tracks = DOMAIN d.tracks,
         \A t \in DOMAIN d.tracks :
           /\ e.tracks[t].id = d.tracks[t].id
           /\ e.tracks[t] = d.tracks[t] \/ d.tracks[t].id \in A.tracks
           /\ \A c \in ToSet(d.tracks[t].clips) :
                \/ c \in ToSet(e.tracks[t].clips)
                \/ d.tracks[t].id \in A.tracks /\ c.id \in A.clips /\ c.range \in A.ranges
  PROVE  Changes(d, e, A)
  <1>1. ASSUME NEW track \in ToSet(d.tracks) PROVE track \in ToSet(e.tracks) \/ track.id \in A.tracks
    BY DEF ToSet
  <1>2. ASSUME NEW track \in ToSet(e.tracks) PROVE track \in ToSet(d.tracks) \/ track.id \in A.tracks
    BY DEF ToSet
  <1>3. ASSUME NEW id, NEW clip, On(d, id, clip), ~ On(e, id, clip)
        PROVE  id \in A.tracks /\ clip.id \in A.clips /\ clip.range \in A.ranges
    <2>1. PICK t \in DOMAIN d.tracks : d.tracks[t].id = id /\ clip \in ToSet(d.tracks[t].clips)
      BY <1>3 DEF On, ToSet
    <2>2. e.tracks[t] \in ToSet(e.tracks)
      BY DEF ToSet
    <2>3. clip \notin ToSet(e.tracks[t].clips)
      BY <1>3, <2>1, <2>2 DEF On
    <2>4. QED
      BY <2>1, <2>3
  <1>4. QED
    BY <1>1, <1>2, <1>3 DEF Changes

\* So too with clips that are known, counted or of new ids.
LEMMA PointwiseEffects ==
  ASSUME NEW d, IsDocument(d), NEW e, IsDocument(e), NEW A,
         DOMAIN e.tracks = DOMAIN d.tracks,
         \A t \in DOMAIN d.tracks :
           /\ e.tracks[t].id = d.tracks[t].id
           /\ e.tracks[t] = d.tracks[t] \/ d.tracks[t].id \in A.tracks
           /\ \A c \in ToSet(d.tracks[t].clips) :
                \/ c \in ToSet(e.tracks[t].clips)
                \/ d.tracks[t].id \in A.tracks /\ c.id \in A.clips /\ c.range \in A.ranges
           /\ \A c \in ToSet(e.tracks[t].clips) :
                c \in ClipsOf(d) \/ c.id \in A.clips \/ c.id \notin ClipIds(d)
  PROVE  Effects(d, e, A)
  <1>1. Changes(d, e, A)
    BY PointwiseChanges
  <1>2. ASSUME NEW clip \in ClipsOf(e) PROVE clip \in ClipsOf(d) \/ clip.id \in A.clips \/ clip.id \notin ClipIds(d)
    <2>1. PICK t \in DOMAIN e.tracks : clip \in ToSet(e.tracks[t].clips)
      BY DEF ClipsOf, ToSet
    <2>2. QED
      BY <2>1
  <1>3. QED
    BY <1>1, <1>2 DEF Effects, Unborrowed

\* Every clip stands on a track.
LEMMA ClipsStand ==
  ASSUME NEW d, NEW clip
  PROVE  /\ clip \in ClipsOf(d) <=> \E id : On(d, id, clip)
         /\ clip \in ClipsOf(d) <=> \E t \in DOMAIN d.tracks : clip \in ToSet(d.tracks[t].clips)
         /\ \A t \in DOMAIN d.tracks : clip \in ToSet(d.tracks[t].clips) => clip \in ClipsOf(d)
  BY DEF On, ClipsOf, ToSet

\* Clips that are only added or kept take no source away.
LEMMA SourceKept ==
  ASSUME NEW d, NEW e, NEW op, ClipsOf(d) \subseteq ClipsOf(e)
  PROVE  SourceStays(d, op, e)
  BY DEF SourceStays

-----------------------------------------------------------------------------
(***************************************************************************)
(* One operation after the other: the document it makes is one, only what  *)
(* it affects changes, and what takes it back are operations.              *)
(***************************************************************************)

\* The operations inverses are made of.
PutObjectOp(list, object, index) == [type |-> "library.put", list |-> list, object |-> object, index |-> index]
RemoveObjectOp(list, object) == [type |-> "library.remove", list |-> list, object |-> object]
AddLockOp(lock, index) == [type |-> "lock.add", lock |-> lock, index |-> index]
RemoveLockOp(id) == [type |-> "lock.remove", lockId |-> id]
AddTrackOp(track, index) == [type |-> "track.add", track |-> track, index |-> index]
RemoveTrackOp(id) == [type |-> "track.remove", trackId |-> id]
InsertClipOp(id, clip, index) == [type |-> "clip.insert", trackId |-> id, clip |-> clip, index |-> index]
RemoveClipOp(id) == [type |-> "clip.remove", clipId |-> id]
ReplaceClipOp(id, clip) == [type |-> "clip.replace", clipId |-> id, clip |-> clip]
MoveClipOp(id, trackId, index, start) ==
  [type |-> "clip.move", clipId |-> id, toTrackId |-> trackId, toIndex |-> index, start |-> start]
TrimClipOp(id, range, src) == [type |-> "clip.trim", clipId |-> id, range |-> range, src |-> src]

\* One well-typed operation is a well-typed inverse.
LEMMA OneTyped ==
  ASSUME NEW op, IsOperation(op)
  PROVE  TypedInverse(<<op>>)
  BY DEF TypedInverse, IsSequence, ToSet

\* A clip of one track is a clip of the document.
LEMMA ClipIsOnTrack ==
  ASSUME NEW d, IsDocument(d), NEW t \in DOMAIN d.tracks, NEW c \in ToSet(d.tracks[t].clips)
  PROVE  c \in ClipsOf(d) /\ IsClip(c) /\ c.id \in ClipIds(d)
  BY ClipFacts DEF ToSet

\* library.put, library.remove
LEMMA PutObjectKeeps ==
  ASSUME NEW d, IsDocument(d), NEW op, IsOperation(op), op.type = "library.put",
         NEW r, r = PutObject(d, op), r.ok
  PROVE  /\ IsDocument(r.doc) /\ r.doc.tracks = d.tracks /\ r.doc.locks = d.locks
         /\ TypedInverse(r.inverse)
         /\ op.object \notin ObjectIds(d) /\ CanInsert(op.index, d[op.list]) /\ op.list \in {"assets", "artifacts"}
         /\ r.doc = WithList(d, op.list, Splice(d[op.list], op.index, op.object))
         /\ r.inverse = <<RemoveObjectOp(op.list, op.object)>>
  <1>1. op.list \in {"assets", "artifacts"}
    BY DEF IsOperation
  <1>2. op.object \notin ObjectIds(d) /\ CanInsert(op.index, d[op.list])
    BY DEF PutObject, Refused, PutObjectOp, RemoveObjectOp, AddLockOp, RemoveLockOp
  <1> DEFINE s == Splice(d[op.list], op.index, op.object)
             inv == RemoveObjectOp(op.list, op.object)
  <1>3. r.doc = [d EXCEPT ![op.list] = s] /\ r.inverse = <<inv>>
    BY <1>2 DEF PutObject, Done, PutObjectOp, RemoveObjectOp, AddLockOp, RemoveLockOp
  <1>4. /\ d = [tracks |-> d.tracks, locks |-> d.locks, assets |-> d.assets, artifacts |-> d.artifacts]
        /\ IsSequence(d[op.list])
    BY <1>1, DocumentFacts
  <1>5. IsSequence(s)
    BY <1>2, <1>4, Spliced DEF CanInsert
  <1>6. IsOperation(inv)
    BY <1>1 DEF IsOperation, OperationTypes, PutObjectOp, RemoveObjectOp, AddLockOp, RemoveLockOp
  <1>7. TypedInverse(<<inv>>)
    BY <1>6, OneTyped
  <1> HIDE DEF s, inv
  <1>8. IsDocument(r.doc) /\ r.doc.tracks = d.tracks /\ r.doc.locks = d.locks
    BY <1>1, <1>3, <1>4, <1>5 DEF IsDocument
  <1>9. QED
    BY <1>1, <1>2, <1>3, <1>7, <1>8 DEF s, inv, WithList

\* library.remove takes one object out and records where it stood.
LEMMA RemoveObjectKeeps ==
  ASSUME NEW d, IsDocument(d), NEW op, IsOperation(op), op.type = "library.remove",
         NEW r, r = RemoveObject(d, op), r.ok
  PROVE  /\ IsDocument(r.doc) /\ r.doc.tracks = d.tracks /\ r.doc.locks = d.locks
         /\ TypedInverse(r.inverse)
         /\ op.list \in {"assets", "artifacts"}
         /\ \E i \in DOMAIN d[op.list] :
              /\ d[op.list][i] = op.object
              /\ r.doc = WithList(d, op.list, RemoveAt(d[op.list], i))
              /\ r.inverse = <<PutObjectOp(op.list, op.object, i - 1)>>
  <1>1. op.list \in {"assets", "artifacts"}
    BY DEF IsOperation
  <1> DEFINE p == {j \in DOMAIN d[op.list] : d[op.list][j] = op.object}
             i == First(p)
  <1>2. /\ d = [tracks |-> d.tracks, locks |-> d.locks, assets |-> d.assets, artifacts |-> d.artifacts]
        /\ IsSequence(d[op.list])
    BY <1>1, DocumentFacts
  <1>3. p \in SUBSET Nat /\ 0 \notin p
    BY <1>2, SequenceFacts
  <1>4. i = 0 \/ i \in p
    <2> HIDE DEF p
    <2>1. QED
      BY <1>3, FirstPosition
  <1>5. r = IF i = 0 THEN Refused
            ELSE Done([d EXCEPT ![op.list] = RemoveAt(d[op.list], i)],
                      <<PutObjectOp(op.list, op.object, i - 1)>>)
    BY DEF RemoveObject, PutObjectOp, RemoveObjectOp, AddLockOp, RemoveLockOp
  <1> HIDE DEF i
  <1>6. i # 0
    BY <1>5 DEF Refused
  <1>7. i \in DOMAIN d[op.list] /\ d[op.list][i] = op.object
    BY <1>4, <1>6
  <1> DEFINE s == RemoveAt(d[op.list], i)
             inv == PutObjectOp(op.list, op.object, i - 1)
  <1>8. r.doc = [d EXCEPT ![op.list] = s] /\ r.inverse = <<inv>>
    BY <1>5, <1>6 DEF Done
  <1>9. IsSequence(s)
    BY <1>2, <1>7, Taken
  <1>10. IsOperation(inv)
    BY <1>1 DEF IsOperation, OperationTypes, PutObjectOp, RemoveObjectOp, AddLockOp, RemoveLockOp
  <1>11. TypedInverse(<<inv>>)
    BY <1>10, OneTyped
  <1> HIDE DEF s, inv
  <1>12. IsDocument(r.doc) /\ r.doc.tracks = d.tracks /\ r.doc.locks = d.locks
    BY <1>1, <1>2, <1>8, <1>9 DEF IsDocument
  <1>13. QED
    BY <1>1, <1>7, <1>8, <1>11, <1>12 DEF s, inv, WithList

\* lock.add, lock.remove
LEMMA AddLockKeeps ==
  ASSUME NEW d, IsDocument(d), NEW op, IsOperation(op), op.type = "lock.add",
         NEW r, r = AddLock(d, op), r.ok
  PROVE  /\ IsDocument(r.doc) /\ r.doc.tracks = d.tracks
         /\ TypedInverse(r.inverse)
         /\ op.lock.id \notin SequenceIds(d) /\ CanInsert(op.index, d.locks)
         /\ r.doc.locks = Splice(d.locks, op.index, op.lock)
         /\ r.doc = WithLocks(d, Splice(d.locks, op.index, op.lock))
         /\ r.inverse = <<RemoveLockOp(op.lock.id)>>
  <1>1. IsLock(op.lock)
    BY DEF IsOperation
  <1>2. op.lock.id \notin SequenceIds(d) /\ CanInsert(op.index, d.locks)
    BY DEF AddLock, Refused, PutObjectOp, RemoveObjectOp, AddLockOp, RemoveLockOp
  <1> DEFINE s == Splice(d.locks, op.index, op.lock)
             inv == RemoveLockOp(op.lock.id)
  <1>3. r.doc = [d EXCEPT !.locks = s] /\ r.inverse = <<inv>>
    BY <1>2 DEF AddLock, Done, PutObjectOp, RemoveObjectOp, AddLockOp, RemoveLockOp
  <1>4. /\ d = [tracks |-> d.tracks, locks |-> d.locks, assets |-> d.assets, artifacts |-> d.artifacts]
        /\ IsSequence(d.locks) /\ \A lock \in ToSet(d.locks) : IsLock(lock)
    BY DocumentFacts DEF IsDocument
  <1>5. IsSequence(s) /\ ToSet(s) = ToSet(d.locks) \cup {op.lock}
    BY <1>2, <1>4, Spliced DEF CanInsert
  <1>6. IsOperation(inv)
    BY DEF IsOperation, OperationTypes, PutObjectOp, RemoveObjectOp, AddLockOp, RemoveLockOp
  <1>7. TypedInverse(<<inv>>)
    BY <1>6, OneTyped
  <1> HIDE DEF s, inv
  <1>8. \A lock \in ToSet(s) : IsLock(lock)
    BY <1>1, <1>4, <1>5
  <1>9. r.doc = [tracks |-> d.tracks, locks |-> s, assets |-> d.assets, artifacts |-> d.artifacts]
    BY <1>3, <1>4
  <1>10. IsDocument(r.doc) /\ r.doc.tracks = d.tracks /\ r.doc.locks = s
    BY <1>5, <1>8, <1>9 DEF IsDocument
  <1>11. QED
    BY <1>1, <1>2, <1>3, <1>7, <1>10 DEF s, inv, WithLocks

\* lock.remove takes one lock out and records where it stood.
LEMMA RemoveLockKeeps ==
  ASSUME NEW d, IsDocument(d), NEW op, IsOperation(op), op.type = "lock.remove", Resolves(d, op),
         NEW r, r = RemoveLock(d, op)
  PROVE  /\ IsDocument(r.doc) /\ r.doc.tracks = d.tracks
         /\ TypedInverse(r.inverse)
         /\ \E i \in DOMAIN d.locks :
              /\ i = FindLock(d, op.lockId) /\ r.doc.locks = RemoveAt(d.locks, i)
              /\ r.doc = WithLocks(d, RemoveAt(d.locks, i))
              /\ r.inverse = <<AddLockOp(d.locks[i], i - 1)>>
  <1>1. op.lockId \in LockIds(d)
    BY DEF Resolves, OnClip
  <1> DEFINE i == FindLock(d, op.lockId)
  <1>2. i \in DOMAIN d.locks
    BY <1>1, LockFound
  <1> DEFINE s == RemoveAt(d.locks, i)
             inv == AddLockOp(d.locks[i], i - 1)
  <1>3. r.doc = [d EXCEPT !.locks = s] /\ r.inverse = <<inv>>
    BY DEF RemoveLock, Done, PutObjectOp, RemoveObjectOp, AddLockOp, RemoveLockOp
  <1> HIDE DEF i
  <1>4. /\ d = [tracks |-> d.tracks, locks |-> d.locks, assets |-> d.assets, artifacts |-> d.artifacts]
        /\ IsSequence(d.locks) /\ IsLock(d.locks[i]) /\ \A lock \in ToSet(d.locks) : IsLock(lock)
    BY <1>2, DocumentFacts DEF IsDocument
  <1>5. IsSequence(s) /\ ToSet(s) \subseteq ToSet(d.locks)
    BY <1>2, <1>4, Taken
  <1>6. IsOperation(inv)
    BY <1>4 DEF IsOperation, OperationTypes, PutObjectOp, RemoveObjectOp, AddLockOp, RemoveLockOp
  <1>7. TypedInverse(<<inv>>)
    BY <1>6, OneTyped
  <1> HIDE DEF s, inv
  <1>8. \A lock \in ToSet(s) : IsLock(lock)
    BY <1>4, <1>5
  <1>9. r.doc = [tracks |-> d.tracks, locks |-> s, assets |-> d.assets, artifacts |-> d.artifacts]
    BY <1>3, <1>4
  <1>10. IsDocument(r.doc) /\ r.doc.tracks = d.tracks /\ r.doc.locks = s
    BY <1>5, <1>8, <1>9 DEF IsDocument
  <1>11. QED
    BY <1>2, <1>3, <1>7, <1>10 DEF s, inv, i, WithLocks

\* track.add, track.remove
LEMMA AddTrackKeeps ==
  ASSUME NEW d, IsDocument(d), NEW op, IsOperation(op), op.type = "track.add",
         NEW r, r = AddTrack(d, op), r.ok
  PROVE  /\ IsDocument(r.doc) /\ r.doc.locks = d.locks /\ TypedInverse(r.inverse)
         /\ Effects(d, r.doc, Affected(d, op)) /\ SourceStays(d, op, r.doc)
         /\ op.track.id \notin SequenceIds(d) /\ CanInsert(op.index, d.tracks)
         /\ r.doc.tracks = Splice(d.tracks, op.index, op.track)
         /\ r.doc = WithTracks(d, Splice(d.tracks, op.index, op.track))
         /\ r.inverse = <<RemoveTrackOp(op.track.id)>>
  <1>1. IsTrack(op.track)
    BY DEF IsOperation
  <1>2. op.track.id \notin SequenceIds(d) /\ CanInsert(op.index, d.tracks)
    BY DEF AddTrack, Refused, AddTrackOp, RemoveTrackOp
  <1> DEFINE T == Splice(d.tracks, op.index, op.track)
             inv == RemoveTrackOp(op.track.id)
             A == Affected(d, op)
             e == r.doc
  <1>3. e = [d EXCEPT !.tracks = T] /\ r.inverse = <<inv>>
    BY <1>2 DEF AddTrack, Done, AddTrackOp, RemoveTrackOp
  <1>4. IsSequence(d.tracks) /\ \A track \in ToSet(d.tracks) : IsTrack(track)
    BY DocumentFacts DEF IsDocument
  <1>5. IsSequence(T) /\ ToSet(T) = ToSet(d.tracks) \cup {op.track}
    BY <1>2, <1>4, Spliced DEF CanInsert
  <1>6. IsOperation(inv)
    BY DEF IsOperation, OperationTypes, AddTrackOp, RemoveTrackOp
  <1>7. TypedInverse(<<inv>>)
    BY <1>6, OneTyped
  <1>8. /\ A.tracks = {op.track.id}
        /\ A.clips = {clip.id : clip \in ToSet(op.track.clips)}
    BY DEF Affected
  <1> HIDE DEF T, inv, A, e
  <1>9. \A t \in DOMAIN T : IsTrack(T[t])
    BY <1>1, <1>4, <1>5 DEF ToSet
  <1>10. IsDocument(e) /\ e.tracks = T /\ e.locks = d.locks
    BY <1>3, <1>5, <1>9, Retracked
  <1>11. \A id, clip : On(d, id, clip) => On(e, id, clip)
    BY <1>5, <1>10 DEF On
  <1>12. ASSUME NEW clip \in ClipsOf(e) PROVE clip \in ClipsOf(d) \/ clip.id \in A.clips
    <2>1. PICK id : On(e, id, clip)
      BY ClipsStand
    <2>2. PICK track \in ToSet(T) : track.id = id /\ clip \in ToSet(track.clips)
      BY <1>10, <2>1 DEF On
    <2>3. track \in ToSet(d.tracks) \/ track = op.track
      BY <1>5
    <2>4. QED
      BY <1>8, <2>2, <2>3 DEF ClipsOf
  <1>13. Effects(d, e, A)
    BY <1>5, <1>8, <1>10, <1>11, <1>12 DEF Effects, Changes, Unborrowed
  <1>14. ClipsOf(d) \subseteq ClipsOf(e)
    BY <1>11, ClipsStand
  <1>15. SourceStays(d, op, e)
    BY <1>14, SourceKept
  <1>16. QED
    BY <1>2, <1>3, <1>7, <1>10, <1>13, <1>15 DEF T, inv, A, e, WithTracks

\* track.remove takes one track out, leaves the rest and records where it stood.
LEMMA RemoveTrackKeeps ==
  ASSUME NEW d, IsDocument(d), NEW op, IsOperation(op), op.type = "track.remove", Resolves(d, op),
         NEW r, r = RemoveTrack(d, op)
  PROVE  /\ IsDocument(r.doc) /\ r.doc.locks = d.locks /\ TypedInverse(r.inverse)
         /\ Effects(d, r.doc, Affected(d, op)) /\ SourceStays(d, op, r.doc)
         /\ \E t \in DOMAIN d.tracks :
              /\ t = FindTrack(d, op.trackId) /\ r.doc.tracks = RemoveAt(d.tracks, t)
              /\ r.doc = WithTracks(d, RemoveAt(d.tracks, t))
              /\ r.inverse = <<AddTrackOp(d.tracks[t], t - 1)>>
  <1>1. op.trackId \in TrackIds(d)
    BY DEF Resolves, OnClip
  <1> DEFINE t == FindTrack(d, op.trackId)
             gone == d.tracks[t]
             T == RemoveAt(d.tracks, t)
             inv == AddTrackOp(gone, t - 1)
             A == Affected(d, op)
             e == r.doc
  <1>2. t \in DOMAIN d.tracks /\ Track(d, op.trackId) = gone
    BY <1>1, TrackFound
  <1>3. e = [d EXCEPT !.tracks = T] /\ r.inverse = <<inv>>
    BY DEF RemoveTrack, Done, AddTrackOp, RemoveTrackOp
  <1>8. /\ A.tracks = {gone.id}
        /\ A.clips = {clip.id : clip \in ToSet(gone.clips)}
        /\ A.ranges = {clip.range : clip \in ToSet(gone.clips)}
    BY <1>2 DEF Affected
  <1> HIDE DEF t
  <1>4. IsSequence(d.tracks) /\ IsTrack(gone) /\ \A track \in ToSet(d.tracks) : IsTrack(track)
    BY <1>2, DocumentFacts DEF IsDocument
  <1>5. IsSequence(T) /\ ToSet(T) \subseteq ToSet(d.tracks) /\ ToSet(d.tracks) = ToSet(T) \cup {gone}
    BY <1>2, <1>4, Taken
  <1>6. IsOperation(inv)
    BY <1>4 DEF IsOperation, OperationTypes, AddTrackOp, RemoveTrackOp
  <1>7. TypedInverse(<<inv>>)
    BY <1>6, OneTyped
  <1> HIDE DEF T, inv, A, e, gone
  <1>9. \A u \in DOMAIN T : IsTrack(T[u])
    BY <1>4, <1>5 DEF ToSet
  <1>10. IsDocument(e) /\ e.tracks = T /\ e.locks = d.locks
    BY <1>3, <1>5, <1>9, Retracked
  <1>11. ASSUME NEW id, NEW clip, On(d, id, clip)
         PROVE  On(e, id, clip) \/ (id = gone.id /\ clip \in ToSet(gone.clips))
    <2>1. PICK track \in ToSet(d.tracks) : track.id = id /\ clip \in ToSet(track.clips)
      BY <1>11 DEF On
    <2>2. CASE track = gone
      BY <2>1, <2>2
    <2>3. CASE track \in ToSet(T)
      BY <1>10, <2>1, <2>3 DEF On
    <2>4. QED
      BY <1>5, <2>2, <2>3
  <1>12. ClipsOf(e) \subseteq ClipsOf(d)
    BY <1>5, <1>10 DEF ClipsOf
  <1>13. Effects(d, e, A)
    <2>1. \A id, clip : On(d, id, clip) =>
            \/ On(e, id, clip)
            \/ id \in A.tracks /\ clip.id \in A.clips /\ clip.range \in A.ranges
      BY <1>8, <1>11
    <2>2. QED
      BY <1>5, <1>8, <1>10, <1>12, <2>1 DEF Effects, Changes, Unborrowed
  <1>14. SourceStays(d, op, e)
    <2>1. SUFFICES ASSUME NEW assetId, NEW r0 \in TimeRange, ~ TouchesSource(d, op, assetId, r0),
                          NEW clip \in ClipsOf(d), NEW i \in Instants(clip.src) \cap Instants(r0),
                          clip.enabled, clip.asset = assetId
                   PROVE  \E other \in ClipsOf(e) : other.enabled /\ other.asset = assetId /\ i \in Instants(other.src)
      BY DEF SourceStays
    <2>2. clip \notin ToSet(gone.clips)
      <3>1. ASSUME clip \in ToSet(gone.clips) PROVE FALSE
        <4>1. ~ (clip.src # NoRange /\ RangesOverlap(clip.src, r0))
          BY <1>2, <2>1, <3>1 DEF TouchesSource, gone
        <4>2. IsClip(clip)
          BY <1>4, <3>1 DEF IsTrack
        <4>3. clip.src.start \in Int /\ clip.src.dur \in Int
          BY <4>2 DEF IsClip, TimeRange
        <4>4. clip.src # NoRange
          BY DEF NoRange, Instants, RangeEnd
        <4>6. r0.start \in Int /\ r0.dur \in Int
          BY <2>1 DEF TimeRange
        <4>5. QED
          BY <4>1, <4>3, <4>4, <4>6 DEF Instants, RangeEnd, RangesOverlap
      <3>2. QED
        BY <3>1
    <2>3. PICK id : On(d, id, clip)
      BY ClipsStand
    <2>4. On(e, id, clip)
      BY <1>11, <2>2, <2>3
    <2>5. clip \in ClipsOf(e)
      BY <2>4, ClipsStand
    <2>6. QED
      BY <2>1, <2>5
  <1>15. QED
    BY <1>2, <1>3, <1>7, <1>10, <1>13, <1>14 DEF T, inv, A, e, t, gone, WithTracks

\* The clips of one track change.
LEMMA OneTrackChanges ==
  ASSUME NEW d, IsDocument(d), NEW t \in DOMAIN d.tracks,
         NEW s, IsSequence(s), \A c \in ToSet(s) : IsClip(c),
         NEW e, e = WithClips(d, t, s), NEW A, d.tracks[t].id \in A.tracks,
         \A c \in ToSet(d.tracks[t].clips) : c \in ToSet(s) \/ (c.id \in A.clips /\ c.range \in A.ranges)
  PROVE  /\ IsDocument(e) /\ Changes(d, e, A) /\ e.locks = d.locks
         /\ ToSet(s) \subseteq ClipsOf(e)
         /\ \A c \in ClipsOf(d) : c \in ClipsOf(e) \/ c \in ToSet(d.tracks[t].clips)
         /\ \A c \in ClipsOf(e) : c \in ClipsOf(d) \/ c \in ToSet(s)
  <1>1. \A i \in DOMAIN s : IsClip(s[i])
    BY DEF ToSet
  <1>2. /\ IsDocument(e) /\ e.locks = d.locks /\ DOMAIN e.tracks = DOMAIN d.tracks
        /\ \A u \in DOMAIN d.tracks :
              /\ e.tracks[u].id = d.tracks[u].id
              /\ e.tracks[u].clips = IF u = t THEN s ELSE d.tracks[u].clips
              /\ u # t => e.tracks[u] = d.tracks[u]
    BY <1>1, Reclipped
  <1>3. \A u \in DOMAIN d.tracks : \A c \in ToSet(d.tracks[u].clips) : c \in ClipsOf(d)
    BY ClipsStand
  <1>4. \A u \in DOMAIN d.tracks :
           /\ e.tracks[u].id = d.tracks[u].id
           /\ e.tracks[u] = d.tracks[u] \/ d.tracks[u].id \in A.tracks
           /\ \A c \in ToSet(d.tracks[u].clips) :
                \/ c \in ToSet(e.tracks[u].clips)
                \/ d.tracks[u].id \in A.tracks /\ c.id \in A.clips /\ c.range \in A.ranges
    BY <1>2, <1>3
  <1>5. Changes(d, e, A)
    BY <1>2, <1>4, PointwiseChanges
  <1>6. ToSet(s) \subseteq ClipsOf(e)
    BY <1>2, ClipsStand
  <1>7. ASSUME NEW c \in ClipsOf(d), c \notin ToSet(d.tracks[t].clips) PROVE c \in ClipsOf(e)
    <2>1. PICK u \in DOMAIN d.tracks : c \in ToSet(d.tracks[u].clips)
      BY ClipsStand
    <2>2. c \in ToSet(e.tracks[u].clips) /\ u \in DOMAIN e.tracks
      BY <1>2, <1>7, <2>1
    <2>3. QED
      BY <2>2, ClipsStand
  <1>8. ASSUME NEW c \in ClipsOf(e), c \notin ToSet(s) PROVE c \in ClipsOf(d)
    <2>1. PICK u \in DOMAIN e.tracks : c \in ToSet(e.tracks[u].clips)
      BY ClipsStand
    <2>2. c \in ToSet(d.tracks[u].clips) /\ u \in DOMAIN d.tracks
      BY <1>2, <1>8, <2>1
    <2>3. QED
      BY <2>2, ClipsStand
  <1>9. QED
    BY <1>2, <1>5, <1>6, <1>7, <1>8

\* One track with clips that are known, counted or of new ids.
LEMMA OneTrackEffects ==
  ASSUME NEW d, IsDocument(d), NEW t \in DOMAIN d.tracks,
         NEW s, IsSequence(s), \A c \in ToSet(s) : IsClip(c),
         NEW e, e = WithClips(d, t, s), NEW A, d.tracks[t].id \in A.tracks,
         \A c \in ToSet(d.tracks[t].clips) : c \in ToSet(s) \/ (c.id \in A.clips /\ c.range \in A.ranges),
         \A c \in ToSet(s) : c \in ClipsOf(d) \/ c.id \in A.clips \/ c.id \notin ClipIds(d)
  PROVE  /\ IsDocument(e) /\ Effects(d, e, A) /\ e.locks = d.locks
         /\ ToSet(s) \subseteq ClipsOf(e)
         /\ \A c \in ClipsOf(d) : c \in ClipsOf(e) \/ c \in ToSet(d.tracks[t].clips)
         /\ \A c \in ClipsOf(e) : c \in ClipsOf(d) \/ c \in ToSet(s)
  <1>1. /\ IsDocument(e) /\ Changes(d, e, A) /\ e.locks = d.locks
        /\ ToSet(s) \subseteq ClipsOf(e)
        /\ \A c \in ClipsOf(d) : c \in ClipsOf(e) \/ c \in ToSet(d.tracks[t].clips)
        /\ \A c \in ClipsOf(e) : c \in ClipsOf(d) \/ c \in ToSet(s)
    BY OneTrackChanges
  <1>2. QED
    BY <1>1 DEF Effects, Unborrowed

\* What an operation on one clip is counted to affect.
LEMMA AffectedByClip ==
  ASSUME NEW d, IsDocument(d), NEW op, op.type \in OnClip, Resolves(d, op),
         NEW at, at = FindClip(d, op.clipId), NEW clip, clip = ClipAt(d, at)
  PROVE  /\ op.clipId \in ClipIds(d)
         /\ at.track \in DOMAIN d.tracks /\ at.index \in DOMAIN d.tracks[at.track].clips
         /\ clip = d.tracks[at.track].clips[at.index] /\ clip.id = op.clipId /\ IsClip(clip)
         /\ clip = Clip(d, op.clipId)
         /\ clip \in ToSet(d.tracks[at.track].clips) /\ clip \in ClipsOf(d)
         /\ IsSequence(d.tracks[at.track].clips)
         /\ \A c \in ToSet(d.tracks[at.track].clips) : IsClip(c) /\ c \in ClipsOf(d) /\ c.id \in ClipIds(d)
         /\ d.tracks[at.track].id \in Affected(d, op).tracks
         /\ op.type = "clip.move" => op.toTrackId \in Affected(d, op).tracks
         /\ Affected(d, op).clips = {op.clipId}
         /\ clip.range \in Affected(d, op).ranges
  <1>1. op.clipId \in ClipIds(d)
    BY DEF Resolves, OnClip
  <1>2. /\ at.track \in DOMAIN d.tracks /\ at.index \in DOMAIN d.tracks[at.track].clips
        /\ clip = d.tracks[at.track].clips[at.index] /\ clip.id = op.clipId /\ IsClip(clip)
        /\ clip = Clip(d, op.clipId) /\ clip \in ToSet(d.tracks[at.track].clips)
    BY <1>1, ClipFound
  <1>3. clip \in ClipsOf(d)
    BY <1>2, ClipIsOnTrack
  <1>4. IsSequence(d.tracks[at.track].clips)
    BY <1>2, DocumentFacts
  <1>5. /\ d.tracks[at.track].id \in Affected(d, op).tracks
        /\ op.type = "clip.move" => op.toTrackId \in Affected(d, op).tracks
        /\ Affected(d, op).clips = {clip.id}
        /\ clip.range \in Affected(d, op).ranges
    BY DEF Affected, OnClip
  <1>6. \A c \in ToSet(d.tracks[at.track].clips) : IsClip(c) /\ c \in ClipsOf(d) /\ c.id \in ClipIds(d)
    BY <1>2, ClipIsOnTrack
  <1>7. QED
    BY <1>1, <1>2, <1>3, <1>4, <1>5, <1>6

\* A clip that plays nothing of the range is not needed for it.
LEMMA PlaysNothing ==
  ASSUME NEW clip, IsClip(clip), NEW r \in TimeRange, ~ (clip.src # NoRange /\ RangesOverlap(clip.src, r))
  PROVE  Instants(clip.src) \cap Instants(r) = {}
  <1>1. clip.src.start \in Int /\ clip.src.dur \in Int /\ r.start \in Int /\ r.dur \in Int
    BY DEF IsClip, TimeRange
  <1>2. CASE clip.src = NoRange
    BY <1>2 DEF NoRange, Instants, RangeEnd
  <1>3. CASE ~ RangesOverlap(clip.src, r)
    BY <1>1, <1>3 DEF Instants, RangeEnd, RangesOverlap
  <1>4. QED
    BY <1>2, <1>3

\* clip.insert
LEMMA InsertClipKeeps ==
  ASSUME NEW d, IsDocument(d), NEW op, IsOperation(op), op.type = "clip.insert", Resolves(d, op),
         NEW r, r = InsertClip(d, op), r.ok
  PROVE  /\ IsDocument(r.doc) /\ r.doc.locks = d.locks /\ TypedInverse(r.inverse)
         /\ Effects(d, r.doc, Affected(d, op)) /\ SourceStays(d, op, r.doc)
         /\ \E t \in DOMAIN d.tracks :
              /\ t = FindTrack(d, op.trackId) /\ CanInsert(op.index, d.tracks[t].clips)
              /\ op.clip.id \notin SequenceIds(d)
              /\ r.doc = WithClips(d, t, Splice(d.tracks[t].clips, op.index, op.clip))
              /\ r.inverse = <<RemoveClipOp(op.clip.id)>>
  <1>1. op.trackId \in TrackIds(d) /\ IsClip(op.clip)
    BY DEF Resolves, OnClip, IsOperation
  <1> DEFINE t == FindTrack(d, op.trackId)
             old == d.tracks[t].clips
             s == Splice(old, op.index, op.clip)
             inv == RemoveClipOp(op.clip.id)
             A == Affected(d, op)
             e == r.doc
  <1>2. t \in DOMAIN d.tracks /\ d.tracks[t].id = op.trackId
    BY <1>1, TrackFound
  <1>3. op.clip.id \notin SequenceIds(d) /\ CanInsert(op.index, old)
    BY DEF InsertClip, Refused, InsertClipOp, RemoveClipOp
  <1>4. e = WithClips(d, t, s) /\ r.inverse = <<inv>>
    BY <1>3 DEF InsertClip, Done, WithClips, InsertClipOp, RemoveClipOp
  <1>5. A.tracks = {op.trackId} /\ A.clips = {op.clip.id}
    BY DEF Affected
  <1> HIDE DEF t
  <1>6. IsSequence(old) /\ \A c \in ToSet(old) : IsClip(c) /\ c \in ClipsOf(d)
    BY <1>2, DocumentFacts, ClipIsOnTrack
  <1> HIDE DEF old
  <1>7. IsSequence(s) /\ ToSet(s) = ToSet(old) \cup {op.clip}
    BY <1>3, <1>6, Spliced DEF CanInsert
  <1>8. IsOperation(inv)
    BY DEF IsOperation, OperationTypes, InsertClipOp, RemoveClipOp
  <1>9. TypedInverse(<<inv>>)
    BY <1>8, OneTyped
  <1> HIDE DEF s, inv, A, e
  <1>10. /\ IsDocument(e) /\ Effects(d, e, A) /\ e.locks = d.locks /\ ToSet(s) \subseteq ClipsOf(e)
         /\ \A c \in ClipsOf(d) : c \in ClipsOf(e) \/ c \in ToSet(old)
    <2>1. \A c \in ToSet(s) : IsClip(c) /\ (c \in ClipsOf(d) \/ c.id \in A.clips)
      BY <1>1, <1>5, <1>6, <1>7
    <2>2. ToSet(old) \subseteq ToSet(s) /\ d.tracks[t].id \in A.tracks
      BY <1>2, <1>5, <1>7
    <2>3. QED
      BY <1>2, <1>4, <1>7, <2>1, <2>2, OneTrackEffects DEF old
  <1>11. ClipsOf(d) \subseteq ClipsOf(e)
    BY <1>7, <1>10
  <1>12. SourceStays(d, op, e)
    BY <1>11, SourceKept
  <1>13. QED
    BY <1>2, <1>3, <1>4, <1>9, <1>10, <1>12 DEF t, old, s, inv, A, e

\* clip.remove
LEMMA RemoveClipKeeps ==
  ASSUME NEW d, IsDocument(d), NEW op, IsOperation(op), op.type = "clip.remove", Resolves(d, op),
         NEW r, r = RemoveClip(d, op), NEW at, at = FindClip(d, op.clipId), NEW clip, clip = ClipAt(d, at)
  PROVE  /\ IsDocument(r.doc) /\ r.doc.locks = d.locks /\ TypedInverse(r.inverse)
         /\ Effects(d, r.doc, Affected(d, op)) /\ SourceStays(d, op, r.doc)
         /\ r.doc = WithClips(d, at.track, RemoveAt(d.tracks[at.track].clips, at.index))
         /\ r.inverse = <<InsertClipOp(d.tracks[at.track].id, clip, at.index - 1)>>
  <1> DEFINE t == at.track
             old == d.tracks[t].clips
             s == RemoveAt(old, at.index)
             inv == InsertClipOp(d.tracks[t].id, clip, at.index - 1)
             A == Affected(d, op)
             e == r.doc
  <1>1. op.type \in OnClip
    BY DEF OnClip
  <1>2. /\ t \in DOMAIN d.tracks /\ at.index \in DOMAIN old /\ clip = old[at.index]
        /\ IsClip(clip) /\ clip.id \in A.clips /\ clip.range \in A.ranges /\ d.tracks[t].id \in A.tracks
        /\ IsSequence(old) /\ clip = Clip(d, op.clipId)
        /\ \A c \in ToSet(old) : IsClip(c) /\ c \in ClipsOf(d)
    BY <1>1, AffectedByClip
  <1>4. e = WithClips(d, t, s) /\ r.inverse = <<inv>>
    BY DEF RemoveClip, Done, WithClips, InsertClipOp, RemoveClipOp
  <1> HIDE DEF old, A
  <1>7. IsSequence(s) /\ ToSet(s) \subseteq ToSet(old) /\ ToSet(old) = ToSet(s) \cup {clip}
    <2> DEFINE i == at.index
    <2>1. IsSequence(old) /\ i \in DOMAIN old /\ clip = old[i]
      BY <1>2
    <2> HIDE DEF i
    <2>2. IsSequence(RemoveAt(old, i)) /\ ToSet(RemoveAt(old, i)) \subseteq ToSet(old)
          /\ ToSet(old) = ToSet(RemoveAt(old, i)) \cup {old[i]}
      BY ONLY <2>1, Taken
    <2>3. QED
      BY <2>1, <2>2 DEF i
  <1>8. IsOperation(inv)
    BY <1>2 DEF IsOperation, OperationTypes, InsertClipOp, RemoveClipOp
  <1>9. TypedInverse(<<inv>>)
    BY <1>8, OneTyped
  <1> HIDE DEF s, inv, e, t
  <1>10. /\ IsDocument(e) /\ Effects(d, e, A) /\ e.locks = d.locks /\ ToSet(s) \subseteq ClipsOf(e)
         /\ \A c \in ClipsOf(d) : c \in ClipsOf(e) \/ c \in ToSet(old)
    <2>1. \A c \in ToSet(s) : IsClip(c) /\ (c \in ClipsOf(d) \/ c.id \in A.clips)
      BY <1>2, <1>7
    <2>2. \A c \in ToSet(old) : c \in ToSet(s) \/ (c.id \in A.clips /\ c.range \in A.ranges)
      BY <1>2, <1>7
    <2>3. QED
      BY <1>2, <1>4, <1>7, <2>1, <2>2, OneTrackEffects DEF old
  <1>11. \A c \in ClipsOf(d) : c \in ClipsOf(e) \/ c = clip
    BY <1>7, <1>10
  <1>12. SourceStays(d, op, e)
    <2>1. SUFFICES ASSUME NEW assetId, NEW r0 \in TimeRange, ~ TouchesSource(d, op, assetId, r0),
                          NEW c \in ClipsOf(d), NEW i \in Instants(c.src) \cap Instants(r0),
                          c.enabled, c.asset = assetId
                   PROVE  \E other \in ClipsOf(e) : other.enabled /\ other.asset = assetId /\ i \in Instants(other.src)
      BY DEF SourceStays
    <2>2. ASSUME c = clip PROVE FALSE
      <3>1. ~ (clip.src # NoRange /\ RangesOverlap(clip.src, r0))
        BY <1>2, <2>1, <2>2 DEF TouchesSource
      <3>2. QED
        BY <1>2, <2>1, <2>2, <3>1, PlaysNothing
    <2>3. QED
      BY <1>11, <2>1, <2>2
  <1>13. QED
    BY <1>4, <1>9, <1>10, <1>12 DEF t, old, s, inv, A, e

\* A clip with other ranges.
TrimmedTo(clip, range, src) ==
  [id |-> clip.id, asset |-> clip.asset, range |-> range, src |-> src, look |-> clip.look, enabled |-> clip.enabled]

\* One clip became another.
OneChanged(d, e, clip, new) ==
  /\ clip \in ClipsOf(d) /\ new \in ClipsOf(e)
  /\ \A c \in ClipsOf(d) : c \in ClipsOf(e) \/ c = clip
  /\ \A c \in ClipsOf(e) : c \in ClipsOf(d) \/ c = new

\* A clip changes where it stands.
LEMMA ChangedInPlace ==
  ASSUME NEW d, IsDocument(d), NEW op, op.type \in OnClip, Resolves(d, op),
         NEW at, at = FindClip(d, op.clipId), NEW clip, clip = ClipAt(d, at),
         NEW new, IsClip(new),
         NEW e, e = WithClips(d, at.track, PutAt(d.tracks[at.track].clips, at.index, new))
  PROVE  /\ IsDocument(e) /\ e.locks = d.locks /\ Changes(d, e, Affected(d, op))
         /\ new.id = op.clipId => Effects(d, e, Affected(d, op))
         /\ OneChanged(d, e, clip, new)
  <1> DEFINE t == at.track
             i == at.index
             old == d.tracks[t].clips
             s == PutAt(old, i, new)
             A == Affected(d, op)
  <1>1. /\ t \in DOMAIN d.tracks /\ i \in DOMAIN old /\ clip = old[i] /\ clip \in ClipsOf(d)
        /\ IsClip(clip) /\ clip.id \in A.clips /\ clip.range \in A.ranges /\ d.tracks[t].id \in A.tracks
        /\ IsSequence(old) /\ A.clips = {op.clipId}
        /\ \A c \in ToSet(old) : IsClip(c) /\ c \in ClipsOf(d)
    BY AffectedByClip
  <1>2. e = WithClips(d, t, s) /\ s = PutAt(old, i, new)
    OBVIOUS
  <1> HIDE DEF i, old, A, s
  <1>3. /\ IsSequence(s) /\ ToSet(s) \subseteq ToSet(old) \cup {new} /\ new \in ToSet(s)
        /\ ToSet(old) \subseteq ToSet(s) \cup {clip}
    <2>1. IsSequence(old) /\ i \in DOMAIN old /\ s = PutAt(old, i, new) /\ clip = old[i]
      BY ONLY <1>1, <1>2
    <2>2. /\ IsSequence(s) /\ ToSet(s) \subseteq ToSet(old) \cup {new} /\ new \in ToSet(s)
          /\ ToSet(old) \subseteq ToSet(s) \cup {old[i]}
      BY ONLY <2>1, Replaced
    <2>3. QED
      BY ONLY <2>1, <2>2
  <1> HIDE DEF t
  <1>4. \A c \in ToSet(s) : IsClip(c)
    BY <1>1, <1>3
  <1>5. \A c \in ToSet(old) : c \in ToSet(s) \/ (c.id \in A.clips /\ c.range \in A.ranges)
    BY <1>1, <1>3
  <1>6. /\ IsDocument(e) /\ Changes(d, e, A) /\ e.locks = d.locks /\ ToSet(s) \subseteq ClipsOf(e)
        /\ \A c \in ClipsOf(d) : c \in ClipsOf(e) \/ c \in ToSet(old)
        /\ \A c \in ClipsOf(e) : c \in ClipsOf(d) \/ c \in ToSet(s)
    BY ONLY IsDocument(d), <1>1, <1>2, <1>3, <1>4, <1>5, OneTrackChanges DEF old
  <1>7. OneChanged(d, e, clip, new)
    <2>1. \A c \in ClipsOf(d) : c \in ClipsOf(e) \/ c = clip
      BY <1>3, <1>6
    <2>2. \A c \in ClipsOf(e) : c \in ClipsOf(d) \/ c = new
      BY <1>1, <1>3, <1>6
    <2>3. QED
      BY <1>1, <1>3, <1>6, <2>1, <2>2 DEF OneChanged
  <1>8. new.id = op.clipId => Effects(d, e, A)
    BY <1>1, <1>6, <1>7 DEF Effects, Unborrowed, OneChanged
  <1>9. QED
    BY <1>6, <1>7, <1>8 DEF A

\* If what it played is not needed, or it plays the same, the source stays.
LEMMA SourceOfOneChanged ==
  ASSUME NEW d, IsDocument(d), NEW e, NEW op, op.type \in OnClip, Resolves(d, op),
         NEW clip, clip = Clip(d, op.clipId), NEW new, OneChanged(d, e, clip, new),
         \/ op.type \in {"clip.trim", "clip.replace"}
         \/ ~ TakesSource(op) => new.src = clip.src /\ new.asset = clip.asset /\ (clip.enabled => new.enabled)
  PROVE  SourceStays(d, op, e)
  <1>1. SUFFICES ASSUME ~ TakesSource(op), NEW assetId, NEW r0 \in TimeRange, ~ TouchesSource(d, op, assetId, r0),
                        NEW c \in ClipsOf(d), NEW i \in Instants(c.src) \cap Instants(r0),
                        c.enabled, c.asset = assetId
                 PROVE  \E other \in ClipsOf(e) : other.enabled /\ other.asset = assetId /\ i \in Instants(other.src)
    BY DEF SourceStays
  <1>2. CASE c \in ClipsOf(e)
    BY <1>1, <1>2
  <1>3. CASE c = clip /\ new.src = clip.src /\ new.asset = clip.asset /\ (clip.enabled => new.enabled)
    BY <1>1, <1>3 DEF OneChanged
  <1>4. CASE c = clip /\ op.type \in {"clip.trim", "clip.replace"}
    <2>1. ~ (clip.src # NoRange /\ RangesOverlap(clip.src, r0))
      BY <1>1, <1>4 DEF TouchesSource
    <2>2. op.clipId \in ClipIds(d)
      BY DEF Resolves, OnClip
    <2>3. IsClip(clip)
      BY <2>2, ClipFound
    <2>4. QED
      BY <1>1, <1>4, <2>1, <2>3, PlaysNothing
  <1>5. QED
    BY <1>1, <1>2, <1>3, <1>4 DEF OneChanged

\* clip.trim
LEMMA TrimClipKeeps ==
  ASSUME NEW d, IsDocument(d), NEW op, IsOperation(op), op.type = "clip.trim", Resolves(d, op),
         NEW r, r = TrimClip(d, op), NEW at, at = FindClip(d, op.clipId), NEW clip, clip = ClipAt(d, at)
  PROVE  /\ IsDocument(r.doc) /\ r.doc.locks = d.locks /\ TypedInverse(r.inverse)
         /\ Effects(d, r.doc, Affected(d, op)) /\ SourceStays(d, op, r.doc)
         /\ \E new : /\ new = TrimmedTo(clip, op.range, op.src) /\ IsClip(new) /\ new.id = clip.id
                     /\ OneChanged(d, r.doc, clip, new)
                     /\ new.look = clip.look /\ new.enabled = clip.enabled
                     /\ r.doc = WithClips(d, at.track, PutAt(d.tracks[at.track].clips, at.index, new))
         /\ r.inverse = <<TrimClipOp(op.clipId, clip.range, clip.src)>>
  <1> DEFINE new == TrimmedTo(clip, op.range, op.src)
             inv == TrimClipOp(op.clipId, clip.range, clip.src)
             e == r.doc
  <1>1. /\ op.type \in OnClip /\ op.range \in TimeRange /\ op.src \in TimeRange
        /\ op = [type |-> "clip.trim", clipId |-> op.clipId, range |-> op.range, src |-> op.src]
    BY DEF OnClip, IsOperation
  <1>2. /\ clip.id = op.clipId /\ IsClip(clip) /\ clip = Clip(d, op.clipId)
        /\ clip = d.tracks[at.track].clips[at.index]
    BY <1>1, AffectedByClip
  <1>3. clip = [id |-> clip.id, asset |-> clip.asset, range |-> clip.range, src |-> clip.src,
                look |-> clip.look, enabled |-> clip.enabled]
    BY <1>2 DEF IsClip
  <1>4. [clip EXCEPT !.range = op.range, !.src = op.src] = new
    <2> DEFINE mid == [clip EXCEPT !.range = op.range]
    <2>1. mid = [id |-> clip.id, asset |-> clip.asset, range |-> op.range, src |-> clip.src,
                 look |-> clip.look, enabled |-> clip.enabled]
      BY <1>3
    <2>2. [clip EXCEPT !.range = op.range, !.src = op.src] = [mid EXCEPT !.src = op.src]
      OBVIOUS
    <2> HIDE DEF mid
    <2>3. [mid EXCEPT !.src = op.src] = new
      BY <2>1 DEF TrimmedTo
    <2> HIDE DEF new
    <2>4. QED
      BY <2>2, <2>3
  <1>5. IsClip(new) /\ new.id = op.clipId /\ new.look = clip.look /\ new.enabled = clip.enabled
    BY <1>1, <1>2 DEF IsClip, TrimmedTo
  <1>12. [op EXCEPT !.range = clip.range, !.src = clip.src] = inv
    <2> DEFINE mid == [op EXCEPT !.range = clip.range]
    <2>1. mid = [type |-> "clip.trim", clipId |-> op.clipId, range |-> clip.range, src |-> op.src]
      BY <1>1
    <2>2. [op EXCEPT !.range = clip.range, !.src = clip.src] = [mid EXCEPT !.src = clip.src]
      OBVIOUS
    <2> HIDE DEF mid
    <2>3. [mid EXCEPT !.src = clip.src] = inv
      BY <2>1 DEF TrimClipOp
    <2> HIDE DEF inv
    <2>4. QED
      BY <2>2, <2>3
  <1>6. e = WithClips(d, at.track, PutAt(d.tracks[at.track].clips, at.index, new)) /\ r.inverse = <<inv>>
    <2> DEFINE doc == [d EXCEPT !.tracks[at.track].clips[at.index] = [clip EXCEPT !.range = op.range, !.src = op.src]]
               back == [op EXCEPT !.range = clip.range, !.src = clip.src]
    <2>1. r = Done(doc, <<back>>)
      BY <1>2 DEF TrimClip
    <2>2. doc = WithClips(d, at.track, PutAt(d.tracks[at.track].clips, at.index, new))
      <3> HIDE DEF new
      <3>1. doc = [d EXCEPT !.tracks[at.track].clips[at.index] = new]
        BY <1>4
      <3> HIDE DEF doc
      <3>2. QED
        BY <3>1 DEF WithClips, PutAt
    <2> HIDE DEF doc, back
    <2>3. r.doc = doc /\ r.inverse = <<back>>
      BY <2>1 DEF Done
    <2>4. QED
      BY <1>12, <2>2, <2>3 DEF back
  <1>7. IsOperation(inv)
    <2>1. clip.range \in TimeRange /\ clip.src \in TimeRange
      BY <1>2 DEF IsClip
    <2>2. /\ inv.type = "clip.trim" /\ inv.range = clip.range /\ inv.src = clip.src
          /\ inv = [type |-> inv.type, clipId |-> inv.clipId, range |-> inv.range, src |-> inv.src]
      BY DEF TrimClipOp
    <2> HIDE DEF inv
    <2>3. QED
      BY <2>1, <2>2 DEF IsOperation, OperationTypes
  <1>8. TypedInverse(<<inv>>)
    BY <1>7, OneTyped
  <1> HIDE DEF new, inv, e
  <1>9. IsDocument(e) /\ e.locks = d.locks /\ Effects(d, e, Affected(d, op)) /\ OneChanged(d, e, clip, new)
    BY <1>1, <1>5, <1>6, ChangedInPlace
  <1>10. SourceStays(d, op, e)
    BY <1>1, <1>2, <1>9, SourceOfOneChanged
  <1>11. QED
    BY <1>2, <1>5, <1>6, <1>8, <1>9, <1>10 DEF new, inv, e

\* clip.replace
LEMMA ReplaceClipKeeps ==
  ASSUME NEW d, IsDocument(d), NEW op, IsOperation(op), op.type = "clip.replace",
         Resolves(d, op), NEW at, at = FindClip(d, op.clipId), NEW clip, clip = ClipAt(d, at),
         NEW r, r = ReplaceClip(d, op), r.ok
  PROVE  /\ IsDocument(r.doc) /\ r.doc.locks = d.locks /\ TypedInverse(r.inverse)
         /\ Effects(d, r.doc, Affected(d, op)) /\ SourceStays(d, op, r.doc)
         /\ OneChanged(d, r.doc, clip, op.clip) /\ op.clip.id = op.clipId /\ IsClip(op.clip)
         /\ r.doc = WithClips(d, at.track, PutAt(d.tracks[at.track].clips, at.index, op.clip))
         /\ r.inverse = <<ReplaceClipOp(op.clipId, clip)>>
  <1> DEFINE inv == ReplaceClipOp(op.clipId, clip)
             e == r.doc
             new == op.clip
  <1>1. op.type \in OnClip
    BY DEF OnClip
  <1>2. /\ clip.id = op.clipId /\ IsClip(clip) /\ clip = Clip(d, op.clipId)
        /\ clip = d.tracks[at.track].clips[at.index]
    BY <1>1, AffectedByClip
  <1>4. IsClip(new)
    BY DEF IsOperation
  <1>5. new.id = op.clipId
    BY DEF ReplaceClip, Refused, ReplaceClipOp
  <1>6. e = WithClips(d, at.track, PutAt(d.tracks[at.track].clips, at.index, new)) /\ r.inverse = <<inv>>
    BY <1>2, <1>5 DEF ReplaceClip, Done, WithClips, PutAt, ReplaceClipOp
  <1>7. IsOperation(inv)
    BY <1>2 DEF IsOperation, OperationTypes, ReplaceClipOp
  <1>8. TypedInverse(<<inv>>)
    BY <1>7, OneTyped
  <1> HIDE DEF inv, e, new
  <1>9. IsDocument(e) /\ e.locks = d.locks /\ Effects(d, e, Affected(d, op)) /\ OneChanged(d, e, clip, new)
    BY <1>1, <1>4, <1>5, <1>6, ChangedInPlace
  <1>10. SourceStays(d, op, e)
    BY <1>1, <1>2, <1>4, <1>9, SourceOfOneChanged
  <1>11. QED
    BY <1>4, <1>5, <1>6, <1>8, <1>9, <1>10 DEF inv, e, new

\* A patched property has the value of the patch, another the clip's.
Or(patch, key, value) == IF key \in DOMAIN patch THEN patch[key] ELSE value

\* A patched clip is a clip.
LEMMA PatchedClip ==
  ASSUME NEW clip, IsClip(clip), NEW patch, IsPatch(patch), NEW new, new = Patched(clip, patch)
  PROVE  /\ new = [id |-> Or(patch, "id", clip.id), asset |-> Or(patch, "asset", clip.asset),
                    range |-> Or(patch, "range", clip.range), src |-> Or(patch, "src", clip.src),
                    look |-> Or(patch, "look", clip.look), enabled |-> Or(patch, "enabled", clip.enabled)]
         /\ IsClip(new)
  <1>1. DOMAIN clip = ClipKeys
    BY DEF IsClip, ClipKeys
  <1>2. DOMAIN new = ClipKeys /\ new = [key \in ClipKeys |-> new[key]]
    BY <1>1 DEF IsPatch, Patched
  <1>3. \A key \in ClipKeys : new[key] = Or(patch, key, clip[key])
    BY <1>1 DEF IsPatch, Patched, Or
  <1>4. /\ clip["id"] = clip.id /\ clip["asset"] = clip.asset /\ clip["range"] = clip.range
        /\ clip["src"] = clip.src /\ clip["look"] = clip.look /\ clip["enabled"] = clip.enabled
    BY DEF IsClip
  <1>5. new = [id |-> Or(patch, "id", clip.id), asset |-> Or(patch, "asset", clip.asset),
               range |-> Or(patch, "range", clip.range), src |-> Or(patch, "src", clip.src),
               look |-> Or(patch, "look", clip.look), enabled |-> Or(patch, "enabled", clip.enabled)]
    BY <1>2, <1>3, <1>4 DEF ClipKeys
  <1>6. IsClip(new)
    BY <1>5 DEF IsClip, Or, IsPatch
  <1>7. QED
    BY <1>5, <1>6

\* clip.update
LEMMA UpdateClipKeeps ==
  ASSUME NEW d, IsDocument(d), NEW op, IsOperation(op), op.type = "clip.update",
         Resolves(d, op), NEW at, at = FindClip(d, op.clipId), NEW clip, clip = ClipAt(d, at),
         NEW new, new = Patched(clip, op.patch), NEW r, r = UpdateClip(d, op)
  PROVE  /\ IsDocument(r.doc) /\ r.doc.locks = d.locks /\ TypedInverse(r.inverse)
         /\ Changes(d, r.doc, Affected(d, op)) /\ SourceStays(d, op, r.doc)
         /\ ~ Renames(op) => new.id = op.clipId /\ Effects(d, r.doc, Affected(d, op))
         /\ OneChanged(d, r.doc, clip, new) /\ IsClip(new)
         /\ r.doc = WithClips(d, at.track, PutAt(d.tracks[at.track].clips, at.index, new))
         /\ r.inverse = <<ReplaceClipOp(new.id, clip)>>
  <1> DEFINE inv == ReplaceClipOp(new.id, clip)
             e == r.doc
  <1>1. op.type \in OnClip /\ IsPatch(op.patch)
    BY DEF OnClip, IsOperation
  <1>2. /\ clip.id = op.clipId /\ IsClip(clip) /\ clip = Clip(d, op.clipId)
        /\ clip = d.tracks[at.track].clips[at.index]
    BY <1>1, AffectedByClip
  <1>3. /\ new = [id |-> Or(op.patch, "id", clip.id), asset |-> Or(op.patch, "asset", clip.asset),
                   range |-> Or(op.patch, "range", clip.range), src |-> Or(op.patch, "src", clip.src),
                   look |-> Or(op.patch, "look", clip.look), enabled |-> Or(op.patch, "enabled", clip.enabled)]
        /\ IsClip(new)
    BY <1>1, <1>2, PatchedClip
  <1>4. /\ ~ Renames(op) => new.id = clip.id
        /\ ~ TakesSource(op) => new.src = clip.src /\ new.asset = clip.asset /\ (clip.enabled => new.enabled)
    BY <1>3 DEF Renames, TakesSource, Escapes, SourceScope, PropertyScope, Or
  <1>6. e = WithClips(d, at.track, PutAt(d.tracks[at.track].clips, at.index, new)) /\ r.inverse = <<inv>>
    <2> DEFINE doc == [d EXCEPT !.tracks[at.track].clips[at.index] = Patched(clip, op.patch)]
    <2>1. r = Done(doc, <<[type |-> "clip.replace", clipId |-> Patched(clip, op.patch).id, clip |-> clip]>>)
      BY DEF UpdateClip
    <2>2. doc = WithClips(d, at.track, PutAt(d.tracks[at.track].clips, at.index, new))
      BY DEF WithClips, PutAt
    <2> HIDE DEF doc
    <2>3. QED
      BY <2>1, <2>2 DEF Done, ReplaceClipOp
  <1>7. IsOperation(inv)
    BY <1>2 DEF IsOperation, OperationTypes, ReplaceClipOp
  <1>8. TypedInverse(<<inv>>)
    BY <1>7, OneTyped
  <1> HIDE DEF inv, e
  <1>9. /\ IsDocument(e) /\ e.locks = d.locks /\ Changes(d, e, Affected(d, op)) /\ OneChanged(d, e, clip, new)
        /\ new.id = op.clipId => Effects(d, e, Affected(d, op))
    BY <1>1, <1>3, <1>6, ChangedInPlace
  <1>10. SourceStays(d, op, e)
    BY <1>1, <1>2, <1>4, <1>9, SourceOfOneChanged
  <1>11. QED
    BY <1>2, <1>3, <1>4, <1>6, <1>8, <1>9, <1>10 DEF inv, e

\* The two parts of a clip that is cut.
LeftPart(clip, cut) ==
  [id |-> clip.id, asset |-> clip.asset, range |-> [start |-> clip.range.start, dur |-> cut],
   src |-> IF clip.src = NoRange THEN NoRange ELSE [start |-> clip.src.start, dur |-> cut],
   look |-> clip.look, enabled |-> clip.enabled]
RightPart(clip, cut, id) ==
  [id |-> id, asset |-> clip.asset, range |-> [start |-> clip.range.start + cut, dur |-> clip.range.dur - cut],
   src |-> IF clip.src = NoRange THEN NoRange
           ELSE [start |-> clip.src.start + cut, dur |-> clip.src.dur - cut],
   look |-> clip.look, enabled |-> clip.enabled]

\* A time range is a record of two integers.
LEMMA RangeFacts ==
  ASSUME NEW r \in TimeRange
  PROVE  r = [start |-> r.start, dur |-> r.dur] /\ r.start \in Int /\ r.dur \in Int
  BY DEF TimeRange

\* What a successful clip.split makes of the document and what it records.
LEMMA SplitShape ==
  ASSUME NEW d, NEW op, NEW r, r = SplitClip(d, op), r.ok,
         NEW at, at = FindClip(d, op.clipId), NEW clip, clip = ClipAt(d, at), IsClip(clip),
         NEW cut, cut = op.at - clip.range.start
  PROVE  /\ op.rightClipId \notin SequenceIds(d) /\ ~ Warped(clip)
         /\ clip.range.start < op.at /\ op.at < RangeEnd(clip.range)
         /\ r.doc = WithClips(d, at.track,
                      Splice(PutAt(d.tracks[at.track].clips, at.index, LeftPart(clip, cut)), at.index,
                             RightPart(clip, cut, op.rightClipId)))
         /\ r.inverse = <<RemoveClipOp(op.rightClipId),
                          ReplaceClipOp(clip.id, clip)>>
  <1> DEFINE Rest(x) == [start |-> x.start + cut, dur |-> x.dur - cut]
             left == [clip EXCEPT !.range.dur = cut,
                                  !.src = IF @ = NoRange THEN @ ELSE [@ EXCEPT !.dur = cut]]
             right == [clip EXCEPT !.id = op.rightClipId, !.range = Rest(@),
                                   !.src = IF @ = NoRange THEN @ ELSE Rest(@)]
             doc == WithClips(d, at.track,
                      Splice(PutAt(d.tracks[at.track].clips, at.index, left), at.index, right))
             inv == <<RemoveClipOp(op.rightClipId),
                      ReplaceClipOp(clip.id, clip)>>
             Fits == /\ op.rightClipId \notin SequenceIds(d)
                     /\ clip.range.start < op.at /\ op.at < RangeEnd(clip.range)
                     /\ ~ Warped(clip)
  <1>1. r = IF Fits THEN Done(doc, inv) ELSE Refused
    BY DEF SplitClip, WithClips, PutAt, RemoveClipOp, ReplaceClipOp
  <1>2. clip = [id |-> clip.id, asset |-> clip.asset, range |-> clip.range, src |-> clip.src,
                look |-> clip.look, enabled |-> clip.enabled]
        /\ clip.range = [start |-> clip.range.start, dur |-> clip.range.dur]
        /\ clip.src = [start |-> clip.src.start, dur |-> clip.src.dur]
    BY RangeFacts DEF IsClip
  <1>3. left = LeftPart(clip, cut)
    <2> DEFINE src == IF clip.src = NoRange THEN clip.src ELSE [clip.src EXCEPT !.dur = cut]
               range == [clip.range EXCEPT !.dur = cut]
    <2>1. left = [[clip EXCEPT !.range = range] EXCEPT !.src = src]
      BY <1>2
    <2>2. range = [start |-> clip.range.start, dur |-> cut]
      BY <1>2
    <2>3. src = IF clip.src = NoRange THEN NoRange ELSE [start |-> clip.src.start, dur |-> cut]
      BY <1>2
    <2> HIDE DEF src, range
    <2> DEFINE mid == [clip EXCEPT !.range = range]
    <2>4. mid = [id |-> clip.id, asset |-> clip.asset, range |-> range, src |-> clip.src,
                 look |-> clip.look, enabled |-> clip.enabled]
      BY <1>2
    <2>5. left = [id |-> clip.id, asset |-> clip.asset, range |-> range, src |-> src,
                  look |-> clip.look, enabled |-> clip.enabled]
      <3>1. left = [mid EXCEPT !.src = src]
        BY <2>1
      <3> HIDE DEF mid, left
      <3>2. QED
        BY <2>4, <3>1
    <2>6. QED
      BY <2>2, <2>3, <2>5 DEF LeftPart
  <1>4. right = RightPart(clip, cut, op.rightClipId)
    <2> DEFINE src == IF clip.src = NoRange THEN clip.src ELSE Rest(clip.src)
               range == Rest(clip.range)
               id == op.rightClipId
    <2>1. right = [[[clip EXCEPT !.id = id] EXCEPT !.range = range] EXCEPT !.src = src]
      BY <1>2
    <2>2. src = IF clip.src = NoRange THEN NoRange
                ELSE [start |-> clip.src.start + cut, dur |-> clip.src.dur - cut]
      OBVIOUS
    <2>3. range = [start |-> clip.range.start + cut, dur |-> clip.range.dur - cut]
      OBVIOUS
    <2> HIDE DEF src, range
    <2> DEFINE one == [clip EXCEPT !.id = id]
               two == [one EXCEPT !.range = range]
    <2>4. one = [id |-> id, asset |-> clip.asset, range |-> clip.range, src |-> clip.src,
                 look |-> clip.look, enabled |-> clip.enabled]
      BY <1>2
    <2>5. two = [id |-> id, asset |-> clip.asset, range |-> range, src |-> clip.src,
                 look |-> clip.look, enabled |-> clip.enabled]
      <3> HIDE DEF one
      <3>1. QED
        BY <2>4
    <2>6. right = [id |-> id, asset |-> clip.asset, range |-> range, src |-> src,
                   look |-> clip.look, enabled |-> clip.enabled]
      <3>1. right = [two EXCEPT !.src = src]
        BY <2>1
      <3> HIDE DEF two, right
      <3>2. QED
        BY <2>5, <3>1
    <2>7. QED
      BY <2>2, <2>3, <2>6 DEF RightPart
  <1> HIDE DEF Fits
  <1>5. Fits
    BY <1>1 DEF Refused
  <1> HIDE DEF left, right
  <1>6. r.doc = doc /\ r.inverse = inv
    BY <1>1, <1>5 DEF Done
  <1>7. QED
    BY <1>3, <1>4, <1>5, <1>6 DEF Fits

\* The parts are clips, and together they play what the clip played.
LEMMA PartsPlayAll ==
  ASSUME NEW clip, IsClip(clip), ~ Warped(clip), NEW cut \in Int, 0 < cut, cut < clip.range.dur, NEW id,
         NEW left, left = LeftPart(clip, cut), NEW right, right = RightPart(clip, cut, id)
  PROVE  /\ IsClip(left) /\ IsClip(right) /\ left.id = clip.id /\ right.id = id
         /\ left.asset = clip.asset /\ right.asset = clip.asset
         /\ left.enabled = clip.enabled /\ right.enabled = clip.enabled
         /\ Instants(clip.src) \subseteq Instants(left.src) \cup Instants(right.src)
  <1>1. clip.range \in TimeRange /\ clip.src \in TimeRange
    BY DEF IsClip
  <1>2. /\ clip.range.start \in Int /\ clip.range.dur \in Int /\ clip.src.start \in Int /\ clip.src.dur \in Int
        /\ clip.src # NoRange => clip.src.dur = clip.range.dur
    BY <1>1, RangeFacts DEF Warped
  <1>3. NoRange \in TimeRange
    BY DEF NoRange, TimeRange
  <1>4. \A a, b \in Int : [start |-> a, dur |-> b] \in TimeRange
    BY DEF TimeRange
  <1>5. IsClip(left) /\ left.id = clip.id /\ left.asset = clip.asset /\ left.enabled = clip.enabled
    BY <1>2, <1>3, <1>4 DEF IsClip, LeftPart
  <1>6. IsClip(right) /\ right.id = id /\ right.asset = clip.asset /\ right.enabled = clip.enabled
    <2> DEFINE range == [start |-> clip.range.start + cut, dur |-> clip.range.dur - cut]
               src == IF clip.src = NoRange THEN NoRange
                      ELSE [start |-> clip.src.start + cut, dur |-> clip.src.dur - cut]
    <2>1. right = [id |-> id, asset |-> clip.asset, range |-> range, src |-> src, look |-> clip.look,
                   enabled |-> clip.enabled]
      BY DEF RightPart
    <2>2. range \in TimeRange /\ src \in TimeRange /\ clip.enabled \in BOOLEAN
      BY <1>2, <1>3, <1>4 DEF IsClip
    <2> HIDE DEF range, src
    <2>3. QED
      BY <2>1, <2>2 DEF IsClip
  <1>7. Instants(clip.src) \subseteq Instants(left.src) \cup Instants(right.src)
    <2>1. CASE clip.src = NoRange
      BY <2>1 DEF NoRange, Instants, RangeEnd
    <2>2. CASE clip.src # NoRange
      <3>1. left.src = [start |-> clip.src.start, dur |-> cut]
            /\ right.src = [start |-> clip.src.start + cut, dur |-> clip.src.dur - cut]
        BY <2>2 DEF LeftPart, RightPart
      <3>2. left.src.start = clip.src.start /\ left.src.dur = cut
            /\ right.src.start = clip.src.start + cut /\ right.src.dur = clip.src.dur - cut
        BY <3>1
      <3>3. QED
        BY <1>2, <2>2, <3>2 DEF Instants, RangeEnd
    <2>3. QED
      BY <2>1, <2>2
  <1>8. QED
    BY <1>5, <1>6, <1>7

\* clip.split
LEMMA SplitClipKeeps ==
  ASSUME NEW d, IsDocument(d), NEW op, IsOperation(op), op.type = "clip.split", Resolves(d, op),
         NEW r, r = SplitClip(d, op), r.ok
  PROVE  /\ IsDocument(r.doc) /\ r.doc.locks = d.locks /\ TypedInverse(r.inverse)
         /\ Effects(d, r.doc, Affected(d, op)) /\ SourceStays(d, op, r.doc)
  <1> DEFINE at == FindClip(d, op.clipId)
             clip == ClipAt(d, at)
             t == at.track
             i == at.index
             old == d.tracks[t].clips
             cut == op.at - clip.range.start
             left == LeftPart(clip, cut)
             right == RightPart(clip, cut, op.rightClipId)
             mid == PutAt(old, i, left)
             s == Splice(mid, i, right)
             A == Affected(d, op)
             e == r.doc
             one == RemoveClipOp(op.rightClipId)
             two == ReplaceClipOp(clip.id, clip)
  <1>1. op.type \in OnClip /\ op.at \in Int
    BY DEF OnClip, IsOperation
  <1>2. /\ t \in DOMAIN d.tracks /\ i \in DOMAIN old /\ clip = old[i] /\ clip.id = op.clipId
        /\ IsClip(clip) /\ clip.id \in A.clips /\ clip.range \in A.ranges /\ d.tracks[t].id \in A.tracks
        /\ IsSequence(old) /\ clip \in ClipsOf(d)
        /\ \A c \in ToSet(old) : IsClip(c) /\ c \in ClipsOf(d)
    BY <1>1, AffectedByClip
  <1>3. /\ op.rightClipId \notin SequenceIds(d) /\ ~ Warped(clip)
        /\ clip.range.start < op.at /\ op.at < RangeEnd(clip.range)
        /\ e = WithClips(d, t, s) /\ r.inverse = <<one, two>>
    <2>1. at = FindClip(d, op.clipId) /\ clip = ClipAt(d, at) /\ IsClip(clip) /\ cut = op.at - clip.range.start
      BY <1>2
    <2> HIDE DEF at, clip, cut
    <2>2. /\ op.rightClipId \notin SequenceIds(d) /\ ~ Warped(clip)
          /\ clip.range.start < op.at /\ op.at < RangeEnd(clip.range)
          /\ r.doc = WithClips(d, at.track,
                      Splice(PutAt(d.tracks[at.track].clips, at.index, LeftPart(clip, cut)), at.index,
                             RightPart(clip, cut, op.rightClipId)))
          /\ r.inverse = <<RemoveClipOp(op.rightClipId),
                           ReplaceClipOp(clip.id, clip)>>
      BY ONLY <2>1, r = SplitClip(d, op), r.ok, SplitShape
    <2>3. QED
      BY <2>2
  <1> HIDE DEF at, clip
  <1>4. cut \in Int /\ 0 < cut /\ cut < clip.range.dur
    <2>1. clip.range.start \in Int /\ clip.range.dur \in Int
      BY <1>2, RangeFacts DEF IsClip
    <2>2. QED
      BY <1>1, <1>3, <2>1 DEF RangeEnd
  <1> HIDE DEF cut
  <1>5. /\ IsClip(left) /\ IsClip(right) /\ left.id = clip.id /\ right.id = op.rightClipId
        /\ left.asset = clip.asset /\ right.asset = clip.asset
        /\ left.enabled = clip.enabled /\ right.enabled = clip.enabled
        /\ Instants(clip.src) \subseteq Instants(left.src) \cup Instants(right.src)
    <2> DEFINE id == op.rightClipId
    <2>1. left = LeftPart(clip, cut) /\ right = RightPart(clip, cut, id)
      OBVIOUS
    <2>2. IsClip(clip) /\ ~ Warped(clip) /\ cut \in Int /\ 0 < cut /\ cut < clip.range.dur
      BY <1>2, <1>3, <1>4
    <2> HIDE DEF left, right, id
    <2>3. /\ IsClip(left) /\ IsClip(right) /\ left.id = clip.id /\ right.id = id
          /\ left.asset = clip.asset /\ right.asset = clip.asset
          /\ left.enabled = clip.enabled /\ right.enabled = clip.enabled
          /\ Instants(clip.src) \subseteq Instants(left.src) \cup Instants(right.src)
      BY ONLY <2>1, <2>2, PartsPlayAll
    <2>4. QED
      BY <2>3 DEF id
  <1>6. IsOperation(one) /\ IsOperation(two)
    BY <1>2 DEF IsOperation, OperationTypes, RemoveClipOp, ReplaceClipOp
  <1>7. TypedInverse(<<one, two>>)
    BY <1>6 DEF TypedInverse, IsSequence, ToSet
  <1> HIDE DEF left, right, old, i, t, A, one, two
  <1>8. /\ IsSequence(mid) /\ Len(mid) = Len(old) /\ ToSet(mid) \subseteq ToSet(old) \cup {left}
        /\ ToSet(old) \subseteq ToSet(mid) \cup {clip} /\ left \in ToSet(mid)
    BY <1>2, Replaced
  <1>9. i \in 0 .. Len(mid)
    BY <1>2, <1>8, SequenceFacts
  <1> HIDE DEF mid
  <1>10. IsSequence(s) /\ ToSet(s) = ToSet(mid) \cup {right}
    BY <1>8, <1>9, Spliced
  <1> HIDE DEF s, e
  <1>11. \A c \in ToSet(s) : IsClip(c) /\ (c \in ClipsOf(d) \/ c.id \in A.clips \/ c.id \notin ClipIds(d))
    <2>1. TAKE c \in ToSet(s)
    <2>2. c \in ToSet(old) \/ c = left \/ c = right
      BY <1>8, <1>10
    <2>3. right.id \notin ClipIds(d)
      BY <1>3, <1>5 DEF SequenceIds
    <2>4. QED
      BY <1>2, <1>5, <2>2, <2>3
  <1>12. \A c \in ToSet(old) : c \in ToSet(s) \/ (c = clip /\ c.id \in A.clips /\ c.range \in A.ranges)
    BY <1>2, <1>8, <1>10
  <1>13. /\ IsDocument(e) /\ Effects(d, e, A) /\ e.locks = d.locks /\ ToSet(s) \subseteq ClipsOf(e)
         /\ \A c \in ClipsOf(d) : c \in ClipsOf(e) \/ c \in ToSet(old)
    BY ONLY IsDocument(d), <1>2, <1>3, <1>10, <1>11, <1>12, OneTrackEffects DEF old
  <1>14. \A c \in ClipsOf(d) : c \in ClipsOf(e) \/ c = clip
    BY <1>12, <1>13
  <1>15. left \in ClipsOf(e) /\ right \in ClipsOf(e)
    BY <1>8, <1>10, <1>13
  <1>16. SourceStays(d, op, e)
    BY <1>5, <1>14, <1>15 DEF SourceStays
  <1>17. QED
    BY <1>3, <1>7, <1>13, <1>16 DEF e, A

\* A clip with another start.
MovedTo(clip, start) ==
  [id |-> clip.id, asset |-> clip.asset, range |-> [start |-> start, dur |-> clip.range.dur],
   src |-> clip.src, look |-> clip.look, enabled |-> clip.enabled]

\* A moved clip differs in its start alone, and moving it back restores it.
LEMMA MovedClip ==
  ASSUME NEW clip, IsClip(clip), NEW start \in Int, NEW new, new = MovedTo(clip, start)
  PROVE  /\ IsClip(new) /\ new.id = clip.id /\ new.asset = clip.asset /\ new.src = clip.src /\ new.look = clip.look
         /\ new.enabled = clip.enabled
         /\ new.range.start = start /\ new.range.dur = clip.range.dur
         /\ new = [clip EXCEPT !.range.start = start]
         /\ MovedTo(new, clip.range.start) = clip
  <1>1. clip = [id |-> clip.id, asset |-> clip.asset, range |-> clip.range, src |-> clip.src,
                look |-> clip.look, enabled |-> clip.enabled]
        /\ clip.range = [start |-> clip.range.start, dur |-> clip.range.dur]
        /\ clip.range.dur \in Int /\ clip.src \in TimeRange
    BY RangeFacts DEF IsClip
  <1>2. /\ new.id = clip.id /\ new.asset = clip.asset /\ new.src = clip.src /\ new.look = clip.look
        /\ new.enabled = clip.enabled
        /\ new.range = [start |-> start, dur |-> clip.range.dur]
    BY DEF MovedTo
  <1>3. new.range \in TimeRange
    BY <1>1, <1>2 DEF TimeRange
  <1>4. new.range.start = start /\ new.range.dur = clip.range.dur
    BY <1>2
  <1>5. IsClip(new)
    BY <1>1, <1>2, <1>3 DEF IsClip, MovedTo
  <1>6. new = [clip EXCEPT !.range.start = start]
    <2> DEFINE range == [clip.range EXCEPT !.start = start]
    <2>1. [clip EXCEPT !.range.start = start] = [clip EXCEPT !.range = range]
      BY <1>1
    <2>2. range = [start |-> start, dur |-> clip.range.dur]
      BY <1>1
    <2> HIDE DEF range
    <2>3. [clip EXCEPT !.range = range]
            = [id |-> clip.id, asset |-> clip.asset, range |-> range, src |-> clip.src,
               look |-> clip.look, enabled |-> clip.enabled]
      BY <1>1
    <2>4. QED
      BY <2>1, <2>2, <2>3 DEF MovedTo
  <1>7. MovedTo(new, clip.range.start) = clip
    BY <1>1, <1>2, <1>4 DEF MovedTo
  <1>8. QED
    BY <1>2, <1>4, <1>5, <1>6, <1>7

\* clip.move
LEMMA MoveClipKeeps ==
  ASSUME NEW d, IsDocument(d), NEW op, IsOperation(op), op.type = "clip.move", Resolves(d, op),
         NEW r, r = MoveClip(d, op), r.ok,
         NEW at, at = FindClip(d, op.clipId), NEW clip, clip = ClipAt(d, at),
         NEW new, new = MovedTo(clip, op.start),
         NEW lifted, lifted = WithClips(d, at.track, RemoveAt(d.tracks[at.track].clips, at.index)),
         NEW to, to = FindTrack(d, op.toTrackId)
  PROVE  /\ IsDocument(r.doc) /\ r.doc.locks = d.locks /\ TypedInverse(r.inverse)
         /\ Effects(d, r.doc, Affected(d, op)) /\ SourceStays(d, op, r.doc)
         /\ IsClip(new) /\ OneChanged(d, r.doc, clip, new)
         /\ to \in DOMAIN d.tracks /\ IsDocument(lifted) /\ DOMAIN lifted.tracks = DOMAIN d.tracks
         /\ CanInsert(op.toIndex, lifted.tracks[to].clips)
         /\ r.doc = WithClips(lifted, to, Splice(lifted.tracks[to].clips, op.toIndex, new))
         /\ r.inverse = <<MoveClipOp(clip.id, d.tracks[at.track].id, at.index - 1, clip.range.start)>>
  <1> DEFINE t == at.track
             i == at.index
             old == d.tracks[t].clips
             less == RemoveAt(old, i)
             there == lifted.tracks[to].clips
             more == Splice(there, op.toIndex, new)
             A == Affected(d, op)
             e == r.doc
             inv == MoveClipOp(clip.id, d.tracks[t].id, i - 1, clip.range.start)
  <1>1. op.type \in OnClip /\ op.start \in Int
    BY DEF OnClip, IsOperation
  <1>2. /\ t \in DOMAIN d.tracks /\ i \in DOMAIN old /\ clip = old[i] /\ clip.id = op.clipId
        /\ IsClip(clip) /\ clip.id \in A.clips /\ clip.range \in A.ranges /\ d.tracks[t].id \in A.tracks
        /\ op.toTrackId \in A.tracks
        /\ IsSequence(old) /\ clip \in ClipsOf(d) /\ clip = Clip(d, op.clipId)
        /\ \A c \in ToSet(old) : IsClip(c) /\ c \in ClipsOf(d)
    BY <1>1, AffectedByClip
  <1>3. /\ IsClip(new) /\ new.id = clip.id /\ new.asset = clip.asset /\ new.src = clip.src
        /\ new.enabled = clip.enabled
        /\ new = [clip EXCEPT !.range.start = op.start]
    BY <1>1, <1>2, MovedClip
  <1>4. /\ op.toTrackId \in TrackIds(d) /\ CanInsert(op.toIndex, there)
        /\ e = WithClips(lifted, to, more) /\ r.inverse = <<inv>>
    <2> DEFINE doc == WithClips(lifted, to, more)
               Fits == op.toTrackId \in TrackIds(d) /\ CanInsert(op.toIndex, there)
    <2>1. r = IF Fits THEN Done(doc, <<inv>>) ELSE Refused
      BY <1>3 DEF MoveClip, WithClips, MoveClipOp
    <2> HIDE DEF Fits, doc, inv
    <2>2. Fits
      BY <2>1 DEF Refused
    <2>3. r.doc = doc /\ r.inverse = <<inv>>
      BY <2>1, <2>2 DEF Done
    <2>4. QED
      BY ONLY <2>2, <2>3 DEF Fits, doc, e
  <1>5. to \in DOMAIN d.tracks /\ d.tracks[to].id = op.toTrackId
    BY <1>4, TrackFound
  <1>6. IsOperation(inv)
    <2>1. clip.range.start \in Int
      BY <1>2, RangeFacts DEF IsClip
    <2>2. QED
      BY <2>1 DEF IsOperation, OperationTypes, MoveClipOp
  <1>7. TypedInverse(<<inv>>)
    BY <1>6, OneTyped
  <1> HIDE DEF old, i, t, A, inv
  <1>8. IsSequence(less) /\ ToSet(less) \subseteq ToSet(old) /\ ToSet(old) = ToSet(less) \cup {clip}
    <2>1. IsSequence(old) /\ i \in DOMAIN old /\ clip = old[i]
      BY ONLY <1>2
    <2>2. IsSequence(less) /\ ToSet(less) \subseteq ToSet(old) /\ ToSet(old) = ToSet(less) \cup {old[i]}
      BY ONLY <2>1, Taken
    <2>3. QED
      BY ONLY <2>1, <2>2
  <1>9. lifted = WithClips(d, t, less)
    BY DEF t, i, old
  <1> HIDE DEF less
  <1>10. \A j \in DOMAIN less : IsClip(less[j])
    BY <1>2, <1>8 DEF ToSet
  <1>11. /\ IsDocument(lifted) /\ lifted.locks = d.locks /\ DOMAIN lifted.tracks = DOMAIN d.tracks
         /\ \A u \in DOMAIN d.tracks :
              /\ lifted.tracks[u].id = d.tracks[u].id
              /\ lifted.tracks[u].clips = IF u = t THEN less ELSE d.tracks[u].clips
              /\ u # t => lifted.tracks[u] = d.tracks[u]
    BY <1>2, <1>8, <1>9, <1>10, Reclipped
  <1>12. IsSequence(there) /\ \A c \in ToSet(there) : IsClip(c) /\ c \in ClipsOf(d)
    <2>1. IsSequence(there) /\ \A c \in ToSet(there) : IsClip(c)
      BY <1>5, <1>11, DocumentFacts, ClipIsOnTrack
    <2>2. ToSet(there) \subseteq ToSet(old) \/ there = d.tracks[to].clips
      BY <1>5, <1>8, <1>11
    <2>3. QED
      BY <1>2, <1>5, <2>1, <2>2, ClipIsOnTrack
  <1> HIDE DEF there
  <1>13. op.toIndex \in 0 .. Len(there) /\ IsSequence(more) /\ ToSet(more) = ToSet(there) \cup {new}
    <2>1. op.toIndex \in 0 .. Len(there)
      BY <1>4 DEF CanInsert
    <2>2. QED
      BY <1>12, <2>1, Spliced
  <1> HIDE DEF more, e
  <1>14. \A j \in DOMAIN more : IsClip(more[j])
    <2>1. \A c \in ToSet(more) : IsClip(c)
      BY ONLY <1>3, <1>12, <1>13
    <2>2. QED
      BY ONLY <2>1 DEF ToSet
  <1>15. /\ IsDocument(e) /\ e.locks = lifted.locks /\ DOMAIN e.tracks = DOMAIN lifted.tracks
         /\ \A u \in DOMAIN lifted.tracks :
              /\ e.tracks[u].id = lifted.tracks[u].id
              /\ e.tracks[u].clips = IF u = to THEN more ELSE lifted.tracks[u].clips
              /\ u # to => e.tracks[u] = lifted.tracks[u]
    <2>1. to \in DOMAIN lifted.tracks /\ e = WithClips(lifted, to, more)
      BY ONLY <1>4, <1>5, <1>11
    <2>2. IsDocument(lifted) /\ IsSequence(more)
      BY ONLY <1>11, <1>13
    <2>3. QED
      BY ONLY <2>1, <2>2, <1>14, Reclipped
  <1>16. \A u \in DOMAIN d.tracks :
           /\ e.tracks[u].id = d.tracks[u].id
           /\ e.tracks[u] = d.tracks[u] \/ d.tracks[u].id \in A.tracks
           /\ \A c \in ToSet(d.tracks[u].clips) : c \in ToSet(e.tracks[u].clips) \/ c = clip
           /\ \A c \in ToSet(e.tracks[u].clips) : c \in ClipsOf(d) \/ c = new
           /\ clip \in ToSet(d.tracks[u].clips) /\ u # t => clip \in ToSet(e.tracks[u].clips)
    <2>1. TAKE u \in DOMAIN d.tracks
    <2>0. u \in DOMAIN lifted.tracks
      BY ONLY <1>11, u \in DOMAIN d.tracks
    <2>2. e.tracks[u].id = d.tracks[u].id
      BY ONLY <1>11, <1>15, <2>0, u \in DOMAIN d.tracks
    <2>3. e.tracks[u] = d.tracks[u] \/ d.tracks[u].id \in A.tracks
      BY ONLY <1>2, <1>5, <1>11, <1>15, <2>0, u \in DOMAIN d.tracks
    <2>4. ToSet(lifted.tracks[u].clips) \subseteq ToSet(e.tracks[u].clips)
          /\ ToSet(e.tracks[u].clips) \subseteq ToSet(lifted.tracks[u].clips) \cup {new}
      <3>1. u # to => e.tracks[u].clips = lifted.tracks[u].clips
        BY ONLY <1>15, <2>0
      <3>2. u = to => e.tracks[u].clips = more /\ lifted.tracks[u].clips = there
        BY ONLY <1>15, <2>0 DEF there
      <3>3. ToSet(there) \subseteq ToSet(more) /\ ToSet(more) \subseteq ToSet(there) \cup {new}
        BY ONLY <1>13
      <3>4. QED
        BY ONLY <3>1, <3>2, <3>3
    <2>5. ToSet(d.tracks[u].clips) \subseteq ToSet(lifted.tracks[u].clips) \cup {clip}
          /\ ToSet(lifted.tracks[u].clips) \subseteq ToSet(d.tracks[u].clips)
          /\ (u # t => lifted.tracks[u].clips = d.tracks[u].clips)
      BY <1>8, <1>11 DEF old
    <2>6. \A c \in ToSet(d.tracks[u].clips) : c \in ClipsOf(d)
      BY ClipIsOnTrack
    <2>7. QED
      BY <2>2, <2>3, <2>4, <2>5, <2>6
  <1>17. DOMAIN e.tracks = DOMAIN d.tracks
    BY <1>11, <1>15
  <1>18. Effects(d, e, A)
    <2>1. \A u \in DOMAIN d.tracks :
           /\ e.tracks[u].id = d.tracks[u].id
           /\ e.tracks[u] = d.tracks[u] \/ d.tracks[u].id \in A.tracks
           /\ \A c \in ToSet(d.tracks[u].clips) :
                \/ c \in ToSet(e.tracks[u].clips)
                \/ d.tracks[u].id \in A.tracks /\ c.id \in A.clips /\ c.range \in A.ranges
           /\ \A c \in ToSet(e.tracks[u].clips) :
                c \in ClipsOf(d) \/ c.id \in A.clips \/ c.id \notin ClipIds(d)
      BY <1>2, <1>3, <1>16
    <2>2. QED
      BY ONLY IsDocument(d), <1>15, <1>17, <2>1, PointwiseEffects
  <1>19. OneChanged(d, e, clip, new)
    <2>1. new \in ClipsOf(e)
      <3>1. new \in ToSet(e.tracks[to].clips) /\ to \in DOMAIN e.tracks
        BY <1>5, <1>11, <1>13, <1>15
      <3>2. QED
        BY <3>1, ClipsStand
    <2>2. ASSUME NEW c \in ClipsOf(d), c # clip PROVE c \in ClipsOf(e)
      <3>1. PICK u \in DOMAIN d.tracks : c \in ToSet(d.tracks[u].clips)
        BY ClipsStand
      <3>2. c \in ToSet(e.tracks[u].clips)
        BY <1>16, <2>2, <3>1
      <3>3. QED
        BY <1>17, <3>2, ClipsStand
    <2>3. ASSUME NEW c \in ClipsOf(e), c # new PROVE c \in ClipsOf(d)
      <3>1. PICK u \in DOMAIN e.tracks : c \in ToSet(e.tracks[u].clips)
        BY ClipsStand
      <3>2. QED
        BY <1>16, <1>17, <2>3, <3>1
    <2>4. QED
      BY <1>2, <2>1, <2>2, <2>3 DEF OneChanged
  <1>20. SourceStays(d, op, e)
    BY <1>1, <1>2, <1>3, <1>19, SourceOfOneChanged
  <1>21. QED
    BY <1>3, <1>4, <1>5, <1>7, <1>11, <1>13, <1>15, <1>18, <1>19, <1>20 DEF there, more, t, i, e, A, inv

-----------------------------------------------------------------------------
(***************************************************************************)
(* Ripple deletion.                                                        *)
(***************************************************************************)
\* Sequences laid one after the other.
JoinedAs(a, b, c) ==
  /\ IsSequence(c) /\ ToSet(c) = ToSet(a) \cup ToSet(b) /\ Len(c) = Len(a) + Len(b)
  /\ \A i \in 1 .. Len(a) + Len(b) : c[i] = IF i <= Len(a) THEN a[i] ELSE b[i - Len(a)]

\* Concatenation, by position: the first sequence, then the second.
LEMMA Joined ==
  ASSUME NEW a, IsSequence(a), NEW b, IsSequence(b), NEW c, c = a \o b
  PROVE  JoinedAs(a, b, c)
  <1> DEFINE T == ToSet(a) \cup ToSet(b)
  <1>1. a \in Seq(T) /\ b \in Seq(T)
    BY SequencesGrow
  <1>2. /\ Len(a) \in Nat /\ DOMAIN a = 1 .. Len(a) /\ Len(b) \in Nat /\ DOMAIN b = 1 .. Len(b)
    BY SequenceFacts
  <1> HIDE DEF T
  <1>3. /\ c \in Seq(T) /\ Len(c) = Len(a) + Len(b)
        /\ \A i \in 1 .. Len(a) + Len(b) : c[i] = IF i <= Len(a) THEN a[i] ELSE b[i - Len(a)]
    BY <1>1, ConcatProperties
  <1>4. IsSequence(c) /\ DOMAIN c = 1 .. Len(a) + Len(b)
    BY <1>3, SequenceOfElements
  <1>5. ASSUME NEW x \in ToSet(c) PROVE x \in ToSet(a) \cup ToSet(b)
    <2>1. PICK i \in 1 .. Len(a) + Len(b) : x = c[i]
      BY <1>4 DEF ToSet
    <2>2. (i <= Len(a) => i \in DOMAIN a) /\ (~ (i <= Len(a)) => i - Len(a) \in DOMAIN b)
      BY <1>2
    <2>3. QED
      BY <1>3, <2>1, <2>2 DEF ToSet
  <1>6. ASSUME NEW x \in ToSet(a) PROVE x \in ToSet(c)
    <2>1. PICK i \in 1 .. Len(a) : x = a[i]
      BY <1>2 DEF ToSet
    <2>2. i \in DOMAIN c /\ c[i] = x
      BY <1>2, <1>3, <1>4, <2>1
    <2>3. QED
      BY <2>2 DEF ToSet
  <1>7. ASSUME NEW x \in ToSet(b) PROVE x \in ToSet(c)
    <2>1. PICK i \in 1 .. Len(b) : x = b[i]
      BY <1>2 DEF ToSet
    <2> DEFINE k == Len(a) + i
    <2>2. k \in DOMAIN c /\ ~ (k <= Len(a)) /\ k - Len(a) = i /\ k \in 1 .. Len(a) + Len(b)
      BY <1>2, <1>4
    <2> HIDE DEF k
    <2>3. c[k] = x
      BY <1>3, <2>1, <2>2
    <2>4. QED
      BY <2>2, <2>3 DEF ToSet
  <1>8. QED
    BY <1>3, <1>4, <1>5, <1>6, <1>7 DEF JoinedAs

\* Concatenation, by position and by elements.
LEMMA Concatenated ==
  ASSUME NEW a, IsSequence(a), NEW b, IsSequence(b), NEW c, c = a \o b
  PROVE  /\ IsSequence(c) /\ ToSet(c) = ToSet(a) \cup ToSet(b) /\ Len(c) = Len(a) + Len(b)
         /\ \A i \in 1 .. Len(a) + Len(b) : c[i] = IF i <= Len(a) THEN a[i] ELSE b[i - Len(a)]
  <1>1. JoinedAs(a, b, c)
    BY Joined
  <1>2. QED
    BY <1>1 DEF JoinedAs

\* Flattening sequences of sequences keeps exactly their elements.
LEMMA Flattened ==
  ASSUME NEW s, IsSequence(s), \A i \in DOMAIN s : IsSequence(s[i])
  PROVE  /\ IsSequence(FlattenSeq(s))
         /\ \A x : x \in ToSet(FlattenSeq(s)) <=> \E i \in DOMAIN s : x \in ToSet(s[i])
  <1> DEFINE P == {ToSet(s[i]) : i \in DOMAIN s}
             T == UNION P
  <1>1. /\ s \in Seq(ToSet(s)) /\ DOMAIN s = 1 .. Len(s) /\ Len(s) \in Nat
    BY SequenceFacts
  <1>2. \A i \in DOMAIN s : s[i] \in Seq(T)
    <2>1. TAKE i \in DOMAIN s
    <2>2. ToSet(s[i]) \subseteq T
      OBVIOUS
    <2> HIDE DEF T
    <2>3. QED
      BY <2>2, SequencesGrow
  <1> HIDE DEF T
  <1>3. s \in Seq(Seq(T))
    <2>1. ToSet(s) \subseteq Seq(T)
      BY <1>2 DEF ToSet
    <2>2. QED
      BY <2>1, SequencesGrow
  <1>4. FlattenSeq(s) \in Seq(T) /\ ToSet(FlattenSeq(s)) = UNION {ToSet(s[i]) : i \in 1 .. Len(s)}
    BY <1>3, FlattenElements
  <1>5. IsSequence(FlattenSeq(s))
    BY <1>4, SequenceOfElements
  <1>6. QED
    BY <1>1, <1>4, <1>5

\* A function over the positions of a sequence is a sequence of that length.
LEMMA MappedSequence ==
  ASSUME NEW s, IsSequence(s), NEW f, DOMAIN f = DOMAIN s, f = [i \in DOMAIN s |-> f[i]]
  PROVE  IsSequence(f) /\ Len(f) = Len(s)
  <1>1. DOMAIN s = 1 .. Len(s) /\ Len(s) \in Nat
    BY SequenceFacts
  <1>2. f = [i \in 1 .. Len(s) |-> f[i]] /\ \A i \in 1 .. Len(s) : f[i] \in ToSet(f)
    BY <1>1 DEF ToSet
  <1>3. f \in Seq(ToSet(f)) /\ Len(f) = Len(s)
    BY <1>1, <1>2
  <1>4. QED
    BY <1>3 DEF IsSequence

\* A clip lies before the deleted range, or is cut or shifted.
Reached(clip, r) == RangesOverlap(clip.range, r) \/ clip.range.start >= RangeEnd(r)

\* The slice of a clip, spelled out.
Slice(clip, from, to, start, id) ==
  [id |-> id, asset |-> clip.asset, range |-> [start |-> start, dur |-> to - from],
   src |-> IF clip.src = NoRange THEN NoRange
           ELSE [start |-> clip.src.start + (from - clip.range.start), dur |-> to - from],
   look |-> clip.look, enabled |-> clip.enabled]

\* A slice keeps asset and look, and its source moves with the cut.
LEMMA SliceShape ==
  ASSUME NEW clip, IsClip(clip), NEW from, NEW to, NEW start, NEW id, from \in Int, to \in Int, start \in Int,
         NEW x, x = SliceClip(clip, from, to, start, id)
  PROVE  /\ IsClip(x) /\ x.id = id /\ x.asset = clip.asset /\ x.look = clip.look /\ x.enabled = clip.enabled
         /\ x.range.start = start /\ x.range.dur = to - from
         /\ clip.src = NoRange => x.src = NoRange
         /\ clip.src # NoRange => x.src.start = clip.src.start + (from - clip.range.start) /\ x.src.dur = to - from
  <1> DEFINE src == IF clip.src = NoRange THEN clip.src
                    ELSE [start |-> clip.src.start + (from - clip.range.start), dur |-> to - from]
             range == [start |-> start, dur |-> to - from]
             one == [clip EXCEPT !.id = id]
             two == [one EXCEPT !.range = range]
             y == Slice(clip, from, to, start, id)
  <1>1. clip = [id |-> clip.id, asset |-> clip.asset, range |-> clip.range, src |-> clip.src,
                look |-> clip.look, enabled |-> clip.enabled]
        /\ clip.range \in TimeRange /\ clip.src \in TimeRange
    BY DEF IsClip
  <1>2. SliceClip(clip, from, to, start, id) = [two EXCEPT !.src = src]
    BY <1>1 DEF SliceClip
  <1>3. range.start = start /\ range.dur = to - from
    OBVIOUS
  <1>4. src = IF clip.src = NoRange THEN NoRange
              ELSE [start |-> clip.src.start + (from - clip.range.start), dur |-> to - from]
    OBVIOUS
  <1>5. one = [id |-> id, asset |-> clip.asset, range |-> clip.range, src |-> clip.src,
               look |-> clip.look, enabled |-> clip.enabled]
    BY <1>1
  <1>6. range \in TimeRange /\ src \in TimeRange
    <2>1. clip.src.start \in Int /\ clip.range.start \in Int
      BY <1>1, RangeFacts
    <2>2. QED
      BY <1>1, <2>1 DEF TimeRange
  <1>7. y = [id |-> id, asset |-> clip.asset, range |-> range, src |-> src,
             look |-> clip.look, enabled |-> clip.enabled]
    BY DEF Slice
  <1> HIDE DEF range, src, one
  <1>8. two = [id |-> id, asset |-> clip.asset, range |-> range, src |-> clip.src,
               look |-> clip.look, enabled |-> clip.enabled]
    BY <1>5
  <1> HIDE DEF two
  <1>9. [two EXCEPT !.src = src] = [id |-> id, asset |-> clip.asset, range |-> range, src |-> src,
                                    look |-> clip.look, enabled |-> clip.enabled]
    BY <1>8
  <1> HIDE DEF y
  <1>10. /\ y.id = id /\ y.asset = clip.asset /\ y.look = clip.look /\ y.enabled = clip.enabled
         /\ y.range = range /\ y.src = src
    BY <1>7
  <1>11. IsClip(y)
    BY <1>6, <1>7, <1>10 DEF IsClip
  <1>12. SliceClip(clip, from, to, start, id) = y
    BY <1>2, <1>7, <1>9
  <1>13. y.range.start = start /\ y.range.dur = to - from
    BY <1>3, <1>10
  <1>14. /\ clip.src = NoRange => y.src = NoRange
         /\ clip.src # NoRange => y.src.start = clip.src.start + (from - clip.range.start) /\ y.src.dur = to - from
    BY <1>4, <1>10
  <1>15. QED
    BY <1>10, <1>11, <1>12, <1>13, <1>14

\* What stands left and right of the range of a clip that overlaps it.
LeftOf(clip, r) == SliceClip(clip, clip.range.start, r.start, clip.range.start, clip.id)
RightOf(clip, r, id) == SliceClip(clip, RangeEnd(r), RangeEnd(clip.range), r.start, id)

\* The piece left of a ripple's range.
LEMMA LeftFacts ==
  ASSUME NEW clip, IsClip(clip), NEW r \in TimeRange, NEW x, x = LeftOf(clip, r)
  PROVE  /\ IsClip(x) /\ x.id = clip.id /\ x.asset = clip.asset /\ x.look = clip.look /\ x.enabled = clip.enabled
         /\ x.range.start = clip.range.start /\ x.range.dur = r.start - clip.range.start
         /\ clip.src = NoRange => x.src = NoRange
         /\ clip.src # NoRange => x.src.start = clip.src.start /\ x.src.dur = r.start - clip.range.start
  <1> DEFINE from == clip.range.start
             to == r.start
             id == clip.id
  <1>1. from \in Int /\ to \in Int /\ clip.src.start \in Int /\ from = clip.range.start
    BY RangeFacts DEF IsClip
  <1>2. x = SliceClip(clip, from, to, from, id)
    BY DEF LeftOf
  <1> HIDE DEF from, to, id
  <1>3. /\ IsClip(x) /\ x.id = id /\ x.asset = clip.asset /\ x.look = clip.look /\ x.enabled = clip.enabled
        /\ x.range.start = from /\ x.range.dur = to - from
        /\ clip.src = NoRange => x.src = NoRange
        /\ clip.src # NoRange => x.src.start = clip.src.start + (from - clip.range.start) /\ x.src.dur = to - from
    <2>1. IsClip(clip) /\ from \in Int /\ to \in Int /\ from \in Int
      BY <1>1
    <2>2. QED
      BY ONLY <1>2, <2>1, SliceShape
  <1>5. clip.src.start + (from - clip.range.start) = clip.src.start
    BY <1>1
  <1>6. QED
    BY <1>3, <1>5 DEF from, to, id

\* The piece right of a ripple's range, shifted to where the range began.
LEMMA RightFacts ==
  ASSUME NEW clip, IsClip(clip), NEW r \in TimeRange, NEW id, NEW x, x = RightOf(clip, r, id)
  PROVE  /\ IsClip(x) /\ x.id = id /\ x.asset = clip.asset /\ x.look = clip.look /\ x.enabled = clip.enabled
         /\ x.range.start = r.start /\ x.range.dur = RangeEnd(clip.range) - RangeEnd(r)
         /\ clip.src = NoRange => x.src = NoRange
         /\ clip.src # NoRange => /\ x.src.start = clip.src.start + (RangeEnd(r) - clip.range.start)
                                  /\ x.src.dur = RangeEnd(clip.range) - RangeEnd(r)
  <1> DEFINE from == RangeEnd(r)
             to == RangeEnd(clip.range)
             start == r.start
  <1>1. from \in Int /\ to \in Int /\ start \in Int
    BY RangeFacts DEF IsClip, RangeEnd
  <1>2. x = SliceClip(clip, from, to, start, id)
    BY DEF RightOf
  <1> HIDE DEF from, to, start
  <1>3. /\ IsClip(x) /\ x.id = id /\ x.asset = clip.asset /\ x.look = clip.look /\ x.enabled = clip.enabled
        /\ x.range.start = start /\ x.range.dur = to - from
        /\ clip.src = NoRange => x.src = NoRange
        /\ clip.src # NoRange => x.src.start = clip.src.start + (from - clip.range.start) /\ x.src.dur = to - from
    <2>1. IsClip(clip) /\ from \in Int /\ to \in Int /\ start \in Int
      BY <1>1
    <2>2. QED
      BY ONLY <1>2, <2>1, SliceShape
  <1>6. QED
    BY <1>3 DEF from, to, start

\* Two sequences of one element make one of two.
LEMMA TwoJoined ==
  ASSUME NEW a, NEW b
  PROVE  <<a>> \o <<b>> = <<a, b>>
  <1> DEFINE c == <<a>> \o <<b>>
  <1>1. <<a>> \in Seq({a, b}) /\ <<b>> \in Seq({a, b}) /\ Len(<<a>>) = 1 /\ Len(<<b>>) = 1
    OBVIOUS
  <1>2. c \in Seq({a, b}) /\ Len(c) = 2 /\ c[1] = a /\ c[2] = b
    OBVIOUS
  <1>3. <<a, b>> \in Seq({a, b}) /\ Len(<<a, b>>) = 2 /\ <<a, b>>[1] = a /\ <<a, b>>[2] = b
    OBVIOUS
  <1> HIDE DEF c
  <1>4. c = <<a, b>>
    BY <1>2, <1>3
  <1>5. QED
    BY <1>4 DEF c

\* What a ripple deletion leaves of one clip, case by case.
LEMMA PiecesShape ==
  ASSUME NEW clip, IsClip(clip), NEW op, op.range \in TimeRange
  PROVE  /\ ~ Reached(clip, op.range) => RipplePieces(clip, op) = <<clip>>
         /\ ~ RangesOverlap(clip.range, op.range) /\ Reached(clip, op.range) =>
              RipplePieces(clip, op) = <<MovedTo(clip, clip.range.start - op.range.dur)>>
         /\ RangesOverlap(clip.range, op.range) =>
              /\ HasLeft(clip, op.range) /\ HasRight(clip, op.range) =>
                   RipplePieces(clip, op) = <<LeftOf(clip, op.range), RightOf(clip, op.range, op.right[clip.id])>>
              /\ HasLeft(clip, op.range) /\ ~ HasRight(clip, op.range) =>
                   RipplePieces(clip, op) = <<LeftOf(clip, op.range)>>
              /\ ~ HasLeft(clip, op.range) /\ HasRight(clip, op.range) =>
                   RipplePieces(clip, op) = <<RightOf(clip, op.range, clip.id)>>
              /\ ~ HasLeft(clip, op.range) /\ ~ HasRight(clip, op.range) =>
                   RipplePieces(clip, op) = <<>>
  <1> DEFINE r == op.range
             left == LeftOf(clip, r)
             right(id) == RightOf(clip, r, id)
             moved == [clip EXCEPT !.range.start = clip.range.start - r.dur]
             rightId == IF HasLeft(clip, r) THEN op.right[clip.id] ELSE clip.id
  <1>1. clip.range.start \in Int /\ clip.range.dur \in Int /\ r.start \in Int /\ r.dur \in Int
    BY RangeFacts DEF IsClip
  <1>5. moved = MovedTo(clip, clip.range.start - r.dur)
    <2> DEFINE start == clip.range.start - r.dur
    <2>1. start \in Int
      BY <1>1
    <2> HIDE DEF start
    <2>2. MovedTo(clip, start) = [clip EXCEPT !.range.start = start]
      BY <2>1, MovedClip
    <2>3. QED
      BY <2>2 DEF start
  <1>6. RipplePieces(clip, op) =
          IF RangesOverlap(clip.range, r)
          THEN (IF HasLeft(clip, r) THEN <<left>> ELSE <<>>) \o (IF HasRight(clip, r) THEN <<right(rightId)>> ELSE <<>>)
          ELSE IF clip.range.start >= RangeEnd(r) THEN <<moved>> ELSE <<clip>>
    BY DEF RipplePieces, LeftOf, RightOf
  <1> HIDE DEF moved, rightId
  <1>7. CASE ~ RangesOverlap(clip.range, r)
    BY <1>5, <1>6, <1>7 DEF Reached
  <1>8. CASE RangesOverlap(clip.range, r)
    <2>1. CASE HasLeft(clip, r) /\ HasRight(clip, r)
      <3>1. <<left>> \o <<right(rightId)>> = <<left, right(rightId)>>
        BY TwoJoined
      <3>2. rightId = op.right[clip.id]
        BY <2>1 DEF rightId
      <3>3. QED
        BY <1>6, <1>8, <2>1, <3>1, <3>2 DEF Reached
    <2>2. CASE HasLeft(clip, r) /\ ~ HasRight(clip, r)
      <3>1. <<left>> \o <<>> = <<left>>
        OBVIOUS
      <3>2. QED
        BY <1>6, <1>8, <2>2, <3>1 DEF Reached
    <2>3. CASE ~ HasLeft(clip, r) /\ HasRight(clip, r)
      <3>1. <<>> \o <<right(rightId)>> = <<right(rightId)>>
        OBVIOUS
      <3>2. rightId = clip.id
        BY <2>3 DEF rightId
      <3>3. QED
        BY <1>6, <1>8, <2>3, <3>1, <3>2 DEF Reached
    <2>4. CASE ~ HasLeft(clip, r) /\ ~ HasRight(clip, r)
      <3>1. <<>> \o <<>> = <<>>
        OBVIOUS
      <3>2. QED
        BY <1>6, <1>8, <2>4, <3>1 DEF Reached
    <2>5. QED
      BY <2>1, <2>2, <2>3, <2>4
  <1>9. QED
    BY <1>7, <1>8

\* The elements of a sequence of one or two.
LEMMA OneElement ==
  ASSUME NEW a, NEW s, s = <<a>>
  PROVE  IsSequence(s) /\ ToSet(s) = {a} /\ a \in ToSet(s) /\ Len(s) = 1 /\ s[1] = a /\ DOMAIN s = {1}
  <1>1. s \in Seq({a}) /\ Len(s) = 1 /\ s[1] = a
    OBVIOUS
  <1>2. IsSequence(s) /\ DOMAIN s = 1 .. 1
    BY <1>1, SequenceOfElements
  <1>3. DOMAIN s = {1}
    BY <1>2
  <1>4. ToSet(s) = {a}
    BY <1>1, <1>3 DEF ToSet
  <1>5. QED
    BY <1>1, <1>2, <1>3, <1>4

\* The elements of a sequence of two.
LEMMA TwoElements ==
  ASSUME NEW a, NEW b, NEW s, s = <<a, b>>
  PROVE  IsSequence(s) /\ ToSet(s) = {a, b} /\ a \in ToSet(s) /\ b \in ToSet(s)
  <1>1. s \in Seq({a, b}) /\ Len(s) = 2 /\ s[1] = a /\ s[2] = b
    OBVIOUS
  <1>2. IsSequence(s) /\ DOMAIN s = 1 .. 2
    BY <1>1, SequenceOfElements
  <1>3. DOMAIN s = {1, 2}
    BY <1>2
  <1>4. ToSet(s) = {a, b}
    BY <1>1, <1>3 DEF ToSet
  <1>5. QED
    BY <1>2, <1>4

\* The pieces are clips; a new id is that of a right-hand piece.
PieceOf(p, clip, op) ==
  /\ IsClip(p) /\ p.asset = clip.asset /\ p.look = clip.look /\ p.enabled = clip.enabled
  /\ \/ p.id = clip.id
     \/ /\ RangesOverlap(clip.range, op.range) /\ HasLeft(clip, op.range) /\ HasRight(clip, op.range)
        /\ p.id = op.right[clip.id]

\* Every piece a ripple leaves of a clip is a well-formed clip.
LEMMA PiecesAreClips ==
  ASSUME NEW clip, IsClip(clip), NEW op, op.range \in TimeRange
  PROVE  IsSequence(RipplePieces(clip, op)) /\ \A p \in ToSet(RipplePieces(clip, op)) : PieceOf(p, clip, op)
  <1> DEFINE r == op.range
             ps == RipplePieces(clip, op)
             left == LeftOf(clip, r)
             right(id) == RightOf(clip, r, id)
             moved == MovedTo(clip, clip.range.start - r.dur)
  <1>1. clip.range.start \in Int /\ clip.range.dur \in Int /\ r.start \in Int /\ r.dur \in Int
    BY RangeFacts DEF IsClip
  <1>2. PieceOf(left, clip, op)
    BY LeftFacts DEF PieceOf
  <1>3. PieceOf(right(clip.id), clip, op)
    BY RightFacts DEF PieceOf
  <1>4. HasLeft(clip, r) /\ HasRight(clip, r) /\ RangesOverlap(clip.range, r) => PieceOf(right(op.right[clip.id]), clip, op)
    BY RightFacts DEF PieceOf
  <1>5. PieceOf(moved, clip, op)
    <2> DEFINE start == clip.range.start - r.dur
    <2>1. start \in Int
      BY <1>1
    <2> HIDE DEF start
    <2>2. IsClip(MovedTo(clip, start)) /\ MovedTo(clip, start).id = clip.id
          /\ MovedTo(clip, start).asset = clip.asset /\ MovedTo(clip, start).look = clip.look
          /\ MovedTo(clip, start).enabled = clip.enabled
      BY <2>1, MovedClip
    <2>3. QED
      BY <2>2 DEF start, PieceOf
  <1>6. PieceOf(clip, clip, op)
    BY DEF PieceOf
  <1>7. /\ ~ Reached(clip, r) => ps = <<clip>>
        /\ ~ RangesOverlap(clip.range, r) /\ Reached(clip, r) => ps = <<moved>>
        /\ RangesOverlap(clip.range, r) =>
             /\ HasLeft(clip, r) /\ HasRight(clip, r) => ps = <<left, right(op.right[clip.id])>>
             /\ HasLeft(clip, r) /\ ~ HasRight(clip, r) => ps = <<left>>
             /\ ~ HasLeft(clip, r) /\ HasRight(clip, r) => ps = <<right(clip.id)>>
             /\ ~ HasLeft(clip, r) /\ ~ HasRight(clip, r) => ps = <<>>
    BY PiecesShape
  <1>8. ~ RangesOverlap(clip.range, r) \/ Reached(clip, r)
    BY DEF Reached
  <1> DEFINE cut == right(op.right[clip.id])
             rest == right(clip.id)
  <1>9. cut = right(op.right[clip.id]) /\ rest = right(clip.id)
    OBVIOUS
  <1> HIDE DEF ps, left, right, moved, cut, rest
  <1>10. ASSUME NEW a, PieceOf(a, clip, op), ps = <<a>>
         PROVE  IsSequence(ps) /\ \A p \in ToSet(ps) : PieceOf(p, clip, op)
    BY <1>10, OneElement
  <1>11. ASSUME HasLeft(clip, r), HasRight(clip, r), RangesOverlap(clip.range, r)
         PROVE  IsSequence(ps) /\ \A p \in ToSet(ps) : PieceOf(p, clip, op)
    <2>1. ps = <<left, cut>> /\ PieceOf(cut, clip, op)
      BY <1>4, <1>7, <1>9, <1>11
    <2>2. QED
      BY <1>2, <2>1, TwoElements
  <1>12. ps = <<>> => IsSequence(ps) /\ ToSet(ps) = {}
    BY EmptySequence
  <1>13. ps = <<rest>> => IsSequence(ps) /\ \A p \in ToSet(ps) : PieceOf(p, clip, op)
    BY <1>3, <1>9, <1>10
  <1>14. QED
    BY <1>2, <1>5, <1>6, <1>7, <1>8, <1>9, <1>10, <1>11, <1>12, <1>13 DEF ps

\* What plays of the source and does not play in the deleted range is in the pieces.
LEMMA PiecesPlayRest ==
  ASSUME NEW clip, IsClip(clip), NEW op, op.range \in TimeRange, NEW i \in Instants(clip.src),
         RangesOverlap(clip.range, op.range) => ~ Warped(clip) /\ i \notin Instants(SourceSlice(clip, op.range))
  PROVE  \E p \in ToSet(RipplePieces(clip, op)) : i \in Instants(p.src)
  <1> DEFINE r == op.range
             ps == RipplePieces(clip, op)
             left == LeftOf(clip, r)
             rightId == IF HasLeft(clip, r) THEN op.right[clip.id] ELSE clip.id
             right == RightOf(clip, r, rightId)
             moved == MovedTo(clip, clip.range.start - r.dur)
  <1>1. clip.range.start \in Int /\ clip.range.dur \in Int /\ r.start \in Int /\ r.dur \in Int
        /\ clip.src.start \in Int /\ clip.src.dur \in Int
    BY RangeFacts DEF IsClip
  <1>2. clip.src # NoRange
    BY DEF NoRange, Instants, RangeEnd
  <1>3. /\ ~ Reached(clip, r) => ps = <<clip>>
        /\ ~ RangesOverlap(clip.range, r) /\ Reached(clip, r) => ps = <<moved>>
        /\ RangesOverlap(clip.range, r) =>
             /\ HasLeft(clip, r) /\ HasRight(clip, r) => ps = <<left, right>>
             /\ HasLeft(clip, r) /\ ~ HasRight(clip, r) => ps = <<left>>
             /\ ~ HasLeft(clip, r) /\ HasRight(clip, r) => ps = <<right>>
    BY PiecesShape
  <1>4. moved.src = clip.src
    BY DEF MovedTo
  <1>5. left.src.start = clip.src.start /\ left.src.dur = r.start - clip.range.start
    BY <1>2, LeftFacts
  <1>6. right.src.start = clip.src.start + (RangeEnd(r) - clip.range.start)
        /\ right.src.dur = RangeEnd(clip.range) - RangeEnd(r)
    BY <1>2, RightFacts
  <1> HIDE DEF ps, left, right, moved
  <1>7. CASE ~ Reached(clip, r)
    BY <1>3, <1>7, OneElement DEF ps
  <1>8. CASE ~ RangesOverlap(clip.range, r) /\ Reached(clip, r)
    BY <1>3, <1>4, <1>8, OneElement DEF ps
  <1>9. CASE RangesOverlap(clip.range, r)
    <2>1. clip.src.dur = clip.range.dur /\ i \notin Instants(SourceSlice(clip, r))
      BY <1>2, <1>9 DEF Warped
    <2> DEFINE from == IF clip.range.start >= r.start THEN clip.range.start ELSE r.start
               to == IF RangeEnd(clip.range) <= RangeEnd(r) THEN RangeEnd(clip.range) ELSE RangeEnd(r)
               first == clip.src.start + (from - clip.range.start)
    <2>2. Instants(SourceSlice(clip, r)) = first .. (first + (to - from)) - 1
      BY DEF SourceSlice, Instants, RangeEnd
    <2>3. Instants(clip.src) = clip.src.start .. (clip.src.start + clip.src.dur) - 1
      BY DEF Instants, RangeEnd
    <2>4. Instants(left.src) = left.src.start .. (left.src.start + left.src.dur) - 1
      BY DEF Instants, RangeEnd
    <2>5. Instants(right.src) = right.src.start .. (right.src.start + right.src.dur) - 1
      BY DEF Instants, RangeEnd
    <2> DEFINE cs == clip.range.start
               ce == clip.range.dur
               rs == r.start
               re == r.dur
               ss == clip.src.start
    <2>6. /\ RangeEnd(r) = rs + re /\ RangeEnd(clip.range) = cs + ce
          /\ HasLeft(clip, r) <=> cs < rs
          /\ HasRight(clip, r) <=> cs + ce > rs + re
          /\ cs < rs + re /\ rs < cs + ce
      BY <1>9 DEF RangeEnd, HasLeft, HasRight, RangesOverlap
    <2>7. /\ from = IF cs >= rs THEN cs ELSE rs
          /\ to = IF cs + ce <= rs + re THEN cs + ce ELSE rs + re
          /\ first = ss + (from - cs)
      BY <2>6
    <2>8. /\ i \in ss .. (ss + ce) - 1
          /\ i \notin first .. (first + (to - from)) - 1
          /\ Instants(left.src) = ss .. (ss + (rs - cs)) - 1
          /\ Instants(right.src) = (ss + ((rs + re) - cs)) .. ((ss + ((rs + re) - cs)) + ((cs + ce) - (rs + re))) - 1
      BY <1>5, <1>6, <2>1, <2>2, <2>3, <2>4, <2>5, <2>6
    <2>9. cs \in Int /\ ce \in Int /\ rs \in Int /\ re \in Int /\ ss \in Int
      BY <1>1
    <2> HIDE DEF from, to, first, cs, ce, rs, re, ss
    <2>10. \/ cs < rs /\ i \in Instants(left.src)
           \/ cs + ce > rs + re /\ i \in Instants(right.src)
      <3>1. from \in Int /\ to \in Int /\ first \in Int /\ i \in Int
        BY <2>7, <2>8, <2>9
      <3>2. i < first \/ i >= first + (to - from)
        BY <2>8, <3>1
      <3>3. CASE i < first
        BY <2>7, <2>8, <2>9, <3>1, <3>3
      <3>4. CASE i >= first + (to - from)
        BY <2>7, <2>8, <2>9, <3>1, <3>4
      <3>5. QED
        BY <3>2, <3>3, <3>4
    <2>11. CASE HasLeft(clip, r) /\ i \in Instants(left.src)
      <3>1. left \in ToSet(ps)
        BY <1>3, <1>9, <2>11, OneElement, TwoElements
      <3>2. QED
        BY <2>11, <3>1 DEF ps
    <2>12. CASE HasRight(clip, r) /\ i \in Instants(right.src)
      <3>1. right \in ToSet(ps)
        BY <1>3, <1>9, <2>12, OneElement, TwoElements
      <3>2. QED
        BY <2>12, <3>1 DEF ps
    <2>13. QED
      BY <2>6, <2>10, <2>11, <2>12
  <1>10. QED
    BY <1>7, <1>8, <1>9 DEF Reached

TracksUnique(d) == \A s, t \in DOMAIN d.tracks : d.tracks[s].id = d.tracks[t].id => s = t

\* A track with other clips, and the tracks after a ripple deletion.
WithTrackClips(track, clips) == [track EXCEPT !.clips = clips]
RippledTracks(d, op) ==
  [t \in DOMAIN d.tracks |-> IF d.tracks[t].id \in ToSet(op.trackIds)
                             THEN WithTrackClips(d.tracks[t], RippleTrack(d.tracks[t].clips, op))
                             ELSE d.tracks[t]]
RippledDoc(d, op) == [d EXCEPT !.tracks = RippledTracks(d, op)]
RippledInverses(d, e, op) ==
  [i \in DOMAIN op.trackIds |->
     RippleInverse(op.trackIds[i], Track(d, op.trackIds[i]).clips, Track(e, op.trackIds[i]).clips)]

\* The new ids of right-hand pieces.
Rights(op) == {op.right[id] : id \in DOMAIN op.right}

\* The clips on the tracks a ripple deletion names.
NamedClips(d, op) == UNION {ToSet(Track(d, id).clips) : id \in ToSet(op.trackIds)}

\* What a successful range.deleteRipple has checked and made of the document.
LEMMA RippleShape ==
  ASSUME NEW d, NEW op, NEW r, r = RippleDelete(d, op), r.ok
  PROVE  /\ r.doc = RippledDoc(d, op)
         /\ r.inverse = FlattenSeq(RippledInverses(d, r.doc, op))
         /\ op.range.dur > 0
         /\ Cardinality(ToSet(op.trackIds)) = Len(op.trackIds)
         /\ Rights(op) \cap SequenceIds(d) = {}
         /\ \A clip \in NamedClips(d, op) :
              RangesOverlap(clip.range, op.range) =>
                /\ HasLeft(clip, op.range) \/ HasRight(clip, op.range) => ~ Warped(clip)
                /\ HasLeft(clip, op.range) /\ HasRight(clip, op.range) => clip.id \in DOMAIN op.right
         /\ Cardinality(Rights(op)) = Cardinality(DOMAIN op.right)
         /\ \A id \in DOMAIN op.right : \E clip \in NamedClips(d, op) :
              clip.id = id /\ RangesOverlap(clip.range, op.range) /\ HasLeft(clip, op.range) /\ HasRight(clip, op.range)
  <1> DEFINE cut == {clip \in NamedClips(d, op) : RangesOverlap(clip.range, op.range)}
             parted == {clip \in cut : HasLeft(clip, op.range) /\ HasRight(clip, op.range)}
             sliced == {clip \in cut : HasLeft(clip, op.range) \/ HasRight(clip, op.range)}
             rights == {op.right[id] : id \in DOMAIN op.right}
             after == [d EXCEPT !.tracks = RippledTracks(d, op)]
             inverse == FlattenSeq(RippledInverses(d, after, op))
             Fits == /\ op.range.dur > 0
                     /\ op.trackIds # <<>> /\ Cardinality(ToSet(op.trackIds)) = Len(op.trackIds)
                     /\ Cardinality(rights) = Cardinality(DOMAIN op.right)
                     /\ rights \cap SequenceIds(d) = {}
                     /\ DOMAIN op.right = {clip.id : clip \in parted}
                     /\ \A clip \in sliced : ~ Warped(clip)
  <1>1. r = IF Fits THEN Done(after, inverse) ELSE Refused
    <2> DEFINE tracks == [t \in DOMAIN d.tracks |-> IF d.tracks[t].id \in ToSet(op.trackIds)
                                                   THEN [d.tracks[t] EXCEPT !.clips = RippleTrack(d.tracks[t].clips, op)]
                                                   ELSE d.tracks[t]]
               e == [d EXCEPT !.tracks = tracks]
               back == FlattenSeq([i \in DOMAIN op.trackIds |->
                         RippleInverse(op.trackIds[i], Track(d, op.trackIds[i]).clips, Track(e, op.trackIds[i]).clips)])
    <2>1. r = IF Fits THEN Done(e, back) ELSE Refused
      BY DEF RippleDelete, NamedClips
    <2>2. tracks = RippledTracks(d, op)
      BY DEF RippledTracks, WithTrackClips
    <2> HIDE DEF tracks
    <2>3. e = after
      BY <2>2
    <2> HIDE DEF e, after
    <2>4. back = inverse
      BY <2>3 DEF RippledInverses
    <2> HIDE DEF back, inverse, Fits
    <2>5. QED
      BY <2>1, <2>3, <2>4
  <1>2. Fits =>
         /\ op.range.dur > 0
         /\ Cardinality(ToSet(op.trackIds)) = Len(op.trackIds)
         /\ rights \cap SequenceIds(d) = {}
         /\ \A clip \in NamedClips(d, op) :
              RangesOverlap(clip.range, op.range) =>
                /\ HasLeft(clip, op.range) \/ HasRight(clip, op.range) => ~ Warped(clip)
                /\ HasLeft(clip, op.range) /\ HasRight(clip, op.range) => clip.id \in DOMAIN op.right
         /\ Cardinality(rights) = Cardinality(DOMAIN op.right)
         /\ \A id \in DOMAIN op.right : \E clip \in NamedClips(d, op) :
              clip.id = id /\ RangesOverlap(clip.range, op.range) /\ HasLeft(clip, op.range) /\ HasRight(clip, op.range)
    <2> HIDE DEF rights
    <2>1. QED
      OBVIOUS
  <1> HIDE DEF Fits, after, inverse
  <1>3. Fits
    BY <1>1 DEF Refused
  <1>4. r.doc = after /\ r.inverse = inverse
    BY <1>1, <1>3 DEF Done
  <1>5. QED
    BY <1>2, <1>3, <1>4 DEF after, inverse, RippledDoc, Rights

\* The clips of a track after the deletion are the pieces of those before.
LEMMA RippledClips ==
  ASSUME NEW s, IsSequence(s), \A c \in ToSet(s) : IsClip(c), NEW op, op.range \in TimeRange
  PROVE  /\ IsSequence(RippleTrack(s, op))
         /\ \A p : p \in ToSet(RippleTrack(s, op)) <=> \E c \in ToSet(s) : p \in ToSet(RipplePieces(c, op))
         /\ \A p \in ToSet(RippleTrack(s, op)) : IsClip(p)
  <1> DEFINE f == [i \in DOMAIN s |-> RipplePieces(s[i], op)]
  <1>1. \A i \in DOMAIN s : IsClip(s[i])
    BY DEF ToSet
  <1>2. \A i \in DOMAIN s : IsSequence(RipplePieces(s[i], op))
    BY <1>1, PiecesAreClips
  <1>3. RippleTrack(s, op) = FlattenSeq(f)
    BY DEF RippleTrack
  <1>4. DOMAIN f = DOMAIN s /\ \A i \in DOMAIN s : f[i] = RipplePieces(s[i], op)
    OBVIOUS
  <1>5. f = [i \in DOMAIN s |-> f[i]]
    OBVIOUS
  <1> HIDE DEF f
  <1>6. IsSequence(f)
    BY <1>4, <1>5, MappedSequence
  <1>7. /\ IsSequence(FlattenSeq(f)) /\ \A x : x \in ToSet(FlattenSeq(f)) <=> \E i \in DOMAIN f : x \in ToSet(f[i])
    BY <1>2, <1>4, <1>6, Flattened
  <1>8. \A p : p \in ToSet(RippleTrack(s, op)) <=> \E c \in ToSet(s) : p \in ToSet(RipplePieces(c, op))
    BY <1>3, <1>4, <1>7 DEF ToSet
  <1>9. \A p \in ToSet(RippleTrack(s, op)) : IsClip(p)
    BY <1>8, PiecesAreClips DEF PieceOf
  <1>10. QED
    BY <1>3, <1>7, <1>8, <1>9

\* The tracks after the deletion.
LEMMA RippledDocument ==
  ASSUME NEW d, IsDocument(d), NEW op, op.range \in TimeRange, NEW e, e = RippledDoc(d, op)
  PROVE  /\ IsDocument(e) /\ e.locks = d.locks /\ e.assets = d.assets /\ e.artifacts = d.artifacts
         /\ DOMAIN e.tracks = DOMAIN d.tracks
         /\ \A t \in DOMAIN d.tracks :
              /\ e.tracks[t].id = d.tracks[t].id /\ e.tracks[t].locked = d.tracks[t].locked
              /\ d.tracks[t].id \in ToSet(op.trackIds) => e.tracks[t].clips = RippleTrack(d.tracks[t].clips, op)
              /\ d.tracks[t].id \notin ToSet(op.trackIds) => e.tracks[t] = d.tracks[t]
  <1> DEFINE T == RippledTracks(d, op)
             Named(t) == d.tracks[t].id \in ToSet(op.trackIds)
  <1>1. IsSequence(d.tracks) /\ \A t \in DOMAIN d.tracks : IsTrack(d.tracks[t])
    BY DocumentFacts
  <1>2. DOMAIN T = DOMAIN d.tracks /\ T = [t \in DOMAIN d.tracks |-> T[t]]
    BY DEF RippledTracks
  <1>3. \A t \in DOMAIN d.tracks :
           T[t] = IF Named(t) THEN WithTrackClips(d.tracks[t], RippleTrack(d.tracks[t].clips, op)) ELSE d.tracks[t]
    BY DEF RippledTracks
  <1> HIDE DEF T
  <1>4. IsSequence(T)
    BY <1>1, <1>2, MappedSequence
  <1>5. ASSUME NEW t \in DOMAIN d.tracks
        PROVE  /\ IsTrack(T[t]) /\ T[t].id = d.tracks[t].id /\ T[t].locked = d.tracks[t].locked
               /\ Named(t) => T[t].clips = RippleTrack(d.tracks[t].clips, op)
               /\ ~ Named(t) => T[t] = d.tracks[t]
    <2> DEFINE old == d.tracks[t]
               clips == RippleTrack(old.clips, op)
               new == WithTrackClips(old, clips)
    <2>1. /\ old = [id |-> old.id, locked |-> old.locked, clips |-> old.clips] /\ old.locked \in BOOLEAN
          /\ IsSequence(old.clips) /\ \A c \in ToSet(old.clips) : IsClip(c)
      BY <1>1 DEF IsTrack
    <2>2. IsSequence(clips) /\ \A p \in ToSet(clips) : IsClip(p)
      BY <2>1, RippledClips
    <2>3. T[t] = IF Named(t) THEN new ELSE old
      BY <1>3
    <2>4. IsTrack(old)
      BY <1>1
    <2> HIDE DEF old, clips
    <2>5. new = [id |-> old.id, locked |-> old.locked, clips |-> clips]
      BY <2>1 DEF WithTrackClips
    <2> HIDE DEF new
    <2>6. new.id = old.id /\ new.locked = old.locked /\ new.clips = clips
      BY <2>5
    <2>7. IsTrack(new)
      BY <2>1, <2>2, <2>5, <2>6 DEF IsTrack
    <2>8. QED
      BY <2>3, <2>4, <2>6, <2>7 DEF old, clips
  <1>6. /\ IsDocument(e) /\ e.tracks = T /\ e.locks = d.locks /\ e.assets = d.assets /\ e.artifacts = d.artifacts
    <2>1. e = [d EXCEPT !.tracks = T]
      BY DEF T, RippledDoc
    <2>2. \A t \in DOMAIN T : IsTrack(T[t])
      BY <1>2, <1>5
    <2>3. IsDocument(d) /\ IsSequence(T)
      BY <1>4
    <2>4. QED
      BY ONLY <2>1, <2>2, <2>3, Retracked
  <1>7. QED
    BY <1>2, <1>5, <1>6

\* What takes a ripple deletion back on one track.
TakeOut(before, clip) ==
  IF \A old \in ToSet(before) : old.id # clip.id THEN <<RemoveClipOp(clip.id)>> ELSE <<>>
MatchIn(after, clip) == Max({0} \cup {j \in DOMAIN after : after[j].id = clip.id})
RestoreOne(id, before, after, i) ==
  IF MatchIn(after, before[i]) = 0
  THEN <<InsertClipOp(id, before[i], i - 1)>>
  ELSE IF after[MatchIn(after, before[i])] = before[i] THEN <<>>
  ELSE <<ReplaceClipOp(before[i].id, before[i])>>
TakeOuts(before, after) == [j \in DOMAIN after |-> TakeOut(before, after[j])]
Restores(id, before, after) == [i \in DOMAIN before |-> RestoreOne(id, before, after, i)]

\* A track's inverse first takes the new pieces out, then puts the old clips back.
LEMMA RippleInverseShape ==
  ASSUME NEW id, NEW before, NEW after
  PROVE  RippleInverse(id, before, after)
           = FlattenSeq(TakeOuts(before, after)) \o FlattenSeq(Restores(id, before, after))
  BY DEF RippleInverse, TakeOuts, Restores, TakeOut, RestoreOne, MatchIn, InsertClipOp, RemoveClipOp, ReplaceClipOp

\* Nothing to take back is a well-typed inverse.
LEMMA EmptyTyped == TypedInverse(<<>>)
  BY EmptySequence DEF TypedInverse

\* Well-typed inverses in a row are a well-typed inverse.
LEMMA FlattenedTyped ==
  ASSUME NEW s, NEW n, IsSequence(n), DOMAIN s = DOMAIN n, s = [i \in DOMAIN n |-> s[i]],
         \A i \in DOMAIN n : TypedInverse(s[i])
  PROVE  TypedInverse(FlattenSeq(s))
  <1>1. IsSequence(s)
    BY MappedSequence
  <1>2. \A i \in DOMAIN s : IsSequence(s[i])
    BY DEF TypedInverse
  <1>3. IsSequence(FlattenSeq(s)) /\ \A x : x \in ToSet(FlattenSeq(s)) <=> \E i \in DOMAIN s : x \in ToSet(s[i])
    BY <1>1, <1>2, Flattened
  <1>4. QED
    BY <1>3 DEF TypedInverse

\* Two well-typed inverses in a row are a well-typed inverse.
LEMMA JoinedTyped ==
  ASSUME NEW a, TypedInverse(a), NEW b, TypedInverse(b), NEW c, c = a \o b
  PROVE  TypedInverse(c)
  <1>1. IsSequence(a) /\ IsSequence(b)
    BY DEF TypedInverse
  <1>2. IsSequence(c) /\ ToSet(c) = ToSet(a) \cup ToSet(b)
    BY <1>1, Concatenated
  <1>3. QED
    BY <1>2 DEF TypedInverse

\* The inverse recorded for one rippled track is well typed.
LEMMA RippleInverseTyped ==
  ASSUME NEW id, NEW before, IsSequence(before), \A c \in ToSet(before) : IsClip(c), NEW after, IsSequence(after)
  PROVE  TypedInverse(RippleInverse(id, before, after))
  <1> DEFINE outs == TakeOuts(before, after)
             back == Restores(id, before, after)
  <1>1. \A i \in DOMAIN before : IsClip(before[i])
    BY DEF ToSet
  <1>2. ASSUME NEW j \in DOMAIN after PROVE TypedInverse(TakeOut(before, after[j]))
    <2> DEFINE op == RemoveClipOp(after[j].id)
    <2>1. IsOperation(op)
      BY DEF IsOperation, OperationTypes, InsertClipOp, RemoveClipOp, ReplaceClipOp
    <2> HIDE DEF op
    <2>2. TypedInverse(<<op>>)
      BY <2>1, OneTyped
    <2>3. QED
      BY <2>2, EmptyTyped DEF TakeOut, op
  <1>3. ASSUME NEW i \in DOMAIN before PROVE TypedInverse(RestoreOne(id, before, after, i))
    <2> DEFINE clip == before[i]
               insert == InsertClipOp(id, clip, i - 1)
               replace == ReplaceClipOp(clip.id, clip)
    <2>1. IsClip(clip)
      BY <1>1
    <2> HIDE DEF clip
    <2>2. IsOperation(insert)
      BY <2>1 DEF IsOperation, OperationTypes, InsertClipOp, RemoveClipOp, ReplaceClipOp
    <2>3. IsOperation(replace)
      BY <2>1 DEF IsOperation, OperationTypes, InsertClipOp, RemoveClipOp, ReplaceClipOp
    <2> HIDE DEF insert, replace
    <2>4. TypedInverse(<<insert>>) /\ TypedInverse(<<replace>>) /\ TypedInverse(<<>>)
      BY <2>2, <2>3, OneTyped, EmptyTyped
    <2>5. \/ RestoreOne(id, before, after, i) = <<insert>> \/ RestoreOne(id, before, after, i) = <<>>
          \/ RestoreOne(id, before, after, i) = <<replace>>
      BY DEF RestoreOne, insert, replace, clip
    <2>6. QED
      BY <2>4, <2>5
  <1>4. TypedInverse(FlattenSeq(outs))
    <2>1. DOMAIN outs = DOMAIN after /\ outs = [j \in DOMAIN after |-> outs[j]]
          /\ \A j \in DOMAIN after : outs[j] = TakeOut(before, after[j])
      BY DEF TakeOuts
    <2> HIDE DEF outs
    <2>2. \A j \in DOMAIN after : TypedInverse(outs[j])
      BY <1>2, <2>1
    <2>3. QED
      BY <2>1, <2>2, FlattenedTyped
  <1>5. TypedInverse(FlattenSeq(back))
    <2>1. DOMAIN back = DOMAIN before /\ back = [i \in DOMAIN before |-> back[i]]
          /\ \A i \in DOMAIN before : back[i] = RestoreOne(id, before, after, i)
      BY DEF Restores
    <2> HIDE DEF back
    <2>2. \A i \in DOMAIN before : TypedInverse(back[i])
      BY <1>3, <2>1
    <2>3. QED
      BY <2>1, <2>2, FlattenedTyped
  <1>6. RippleInverse(id, before, after) = FlattenSeq(outs) \o FlattenSeq(back)
    BY RippleInverseShape
  <1> HIDE DEF outs, back
  <1>7. QED
    BY <1>4, <1>5, <1>6, JoinedTyped

\* The clips of a named track are among those a ripple looks at.
LEMMA NamedClipsStand ==
  ASSUME NEW d, IsDocument(d), TracksUnique(d), NEW op, ToSet(op.trackIds) \subseteq TrackIds(d)
  PROVE  \A t \in DOMAIN d.tracks : d.tracks[t].id \in ToSet(op.trackIds) =>
           ToSet(d.tracks[t].clips) \subseteq NamedClips(d, op)
  <1> SUFFICES ASSUME NEW t \in DOMAIN d.tracks, d.tracks[t].id \in ToSet(op.trackIds)
               PROVE  ToSet(d.tracks[t].clips) \subseteq NamedClips(d, op)
    OBVIOUS
  <1>1. Track(d, d.tracks[t].id) = d.tracks[t]
    <2>1. d.tracks[t].id \in TrackIds(d)
      BY DEF TrackIds, ToSet
    <2>2. QED
      BY <2>1, TrackFound DEF TracksUnique
  <1>2. QED
    BY <1>1 DEF NamedClips

\* range.deleteRipple keeps the document's type and affects what Affected says.
LEMMA RippleDeleteKeeps ==
  ASSUME NEW d, IsDocument(d), TracksUnique(d), NEW op, IsOperation(op), op.type = "range.deleteRipple",
         Resolves(d, op), NEW r, r = RippleDelete(d, op), r.ok
  PROVE  /\ IsDocument(r.doc) /\ r.doc.locks = d.locks /\ TypedInverse(r.inverse)
         /\ Effects(d, r.doc, Affected(d, op)) /\ SourceStays(d, op, r.doc)
  <1> DEFINE e == r.doc
             A == Affected(d, op)
             Named(t) == d.tracks[t].id \in ToSet(op.trackIds)
  <1>1. op.range \in TimeRange /\ IsSequence(op.trackIds)
    BY DEF IsOperation
  <1>2. ToSet(op.trackIds) \subseteq TrackIds(d)
    BY DEF Resolves, OnClip
  <1>3. /\ e = RippledDoc(d, op)
        /\ r.inverse = FlattenSeq(RippledInverses(d, e, op))
        /\ Rights(op) \cap SequenceIds(d) = {}
        /\ \A clip \in NamedClips(d, op) :
              RangesOverlap(clip.range, op.range) =>
                /\ HasLeft(clip, op.range) \/ HasRight(clip, op.range) => ~ Warped(clip)
                /\ HasLeft(clip, op.range) /\ HasRight(clip, op.range) => clip.id \in DOMAIN op.right
    BY RippleShape
  <1> HIDE DEF e
  <1>4. /\ IsDocument(e) /\ e.locks = d.locks
        /\ DOMAIN e.tracks = DOMAIN d.tracks
        /\ \A t \in DOMAIN d.tracks :
              /\ e.tracks[t].id = d.tracks[t].id
              /\ Named(t) => e.tracks[t].clips = RippleTrack(d.tracks[t].clips, op)
              /\ ~ Named(t) => e.tracks[t] = d.tracks[t]
    BY <1>1, <1>3, RippledDocument
  <1>5. \A t \in DOMAIN d.tracks : Named(t) => ToSet(d.tracks[t].clips) \subseteq NamedClips(d, op)
    BY <1>2, NamedClipsStand
  <1>6. \A t \in DOMAIN d.tracks : IsSequence(d.tracks[t].clips) /\ \A c \in ToSet(d.tracks[t].clips) : IsClip(c) /\ c \in ClipsOf(d)
    BY DocumentFacts, ClipIsOnTrack
  <1>7. /\ A.tracks = ToSet(op.trackIds)
        /\ A.clips = {clip.id : clip \in RippleReach(d, op)}
        /\ \A clip \in RippleReach(d, op) : clip.range \in A.ranges
    BY DEF Affected
  <1>8. \A clip \in NamedClips(d, op) : Reached(clip, op.range) => clip \in RippleReach(d, op)
    BY DEF NamedClips, Reached, RippleReach
  <1> HIDE DEF A
  <1>9. \A t \in DOMAIN d.tracks : Named(t) =>
           \A p : p \in ToSet(e.tracks[t].clips) <=>
                    \E c \in ToSet(d.tracks[t].clips) : p \in ToSet(RipplePieces(c, op))
    BY <1>1, <1>4, <1>6, RippledClips
  <1>10. \A c : IsClip(c) => \A p \in ToSet(RipplePieces(c, op)) : PieceOf(p, c, op)
    BY <1>1, PiecesAreClips
  <1>11. \A c : IsClip(c) /\ ~ Reached(c, op.range) => ToSet(RipplePieces(c, op)) = {c}
    <2>1. TAKE c
    <2>2. HAVE IsClip(c) /\ ~ Reached(c, op.range)
    <2>3. RipplePieces(c, op) = <<c>>
      BY <1>1, <2>2, PiecesShape
    <2>4. QED
      BY <2>3, OneElement
  <1>12. ASSUME NEW t \in DOMAIN d.tracks, Named(t), NEW c \in ToSet(d.tracks[t].clips)
         PROVE  c \in ToSet(e.tracks[t].clips) \/ (c.id \in A.clips /\ c.range \in A.ranges)
    <2>1. CASE Reached(c, op.range)
      BY <1>5, <1>7, <1>8, <1>12, <2>1
    <2>2. CASE ~ Reached(c, op.range)
      BY <1>6, <1>9, <1>11, <1>12, <2>2
    <2>3. QED
      BY <2>1, <2>2
  <1>13. ASSUME NEW t \in DOMAIN d.tracks, Named(t), NEW p \in ToSet(e.tracks[t].clips)
         PROVE  p \in ClipsOf(d) \/ p.id \in A.clips \/ p.id \notin ClipIds(d)
    <2>1. PICK c \in ToSet(d.tracks[t].clips) : p \in ToSet(RipplePieces(c, op))
      BY <1>9, <1>13
    <2>2. IsClip(c) /\ c \in ClipsOf(d) /\ c \in NamedClips(d, op)
      BY <1>5, <1>6, <1>13
    <2>3. CASE ~ Reached(c, op.range)
      BY <1>11, <2>1, <2>2, <2>3
    <2>4. CASE Reached(c, op.range)
      <3>1. c.id \in A.clips
        BY <1>7, <1>8, <2>2, <2>4
      <3>2. \/ p.id = c.id
            \/ /\ RangesOverlap(c.range, op.range) /\ HasLeft(c, op.range) /\ HasRight(c, op.range)
               /\ p.id = op.right[c.id]
        BY <1>10, <2>1, <2>2 DEF PieceOf
      <3>3. CASE /\ RangesOverlap(c.range, op.range) /\ HasLeft(c, op.range) /\ HasRight(c, op.range)
                 /\ p.id = op.right[c.id]
        <4>1. c.id \in DOMAIN op.right
          BY <1>3, <2>2, <3>3
        <4>2. p.id \notin SequenceIds(d)
          BY <1>3, <3>3, <4>1 DEF Rights
        <4>3. QED
          BY <4>2 DEF SequenceIds
      <3>4. QED
        BY <3>1, <3>2, <3>3
    <2>5. QED
      BY <2>3, <2>4
  <1>14. Effects(d, e, A)
    <2>1. \A t \in DOMAIN d.tracks :
           /\ e.tracks[t].id = d.tracks[t].id
           /\ e.tracks[t] = d.tracks[t] \/ d.tracks[t].id \in A.tracks
           /\ \A c \in ToSet(d.tracks[t].clips) :
                \/ c \in ToSet(e.tracks[t].clips)
                \/ d.tracks[t].id \in A.tracks /\ c.id \in A.clips /\ c.range \in A.ranges
           /\ \A c \in ToSet(e.tracks[t].clips) :
                c \in ClipsOf(d) \/ c.id \in A.clips \/ c.id \notin ClipIds(d)
      BY <1>4, <1>6, <1>7, <1>12, <1>13
    <2>2. QED
      BY <1>4, <2>1, PointwiseEffects
  <1>15. SourceStays(d, op, e)
    <2> SUFFICES ASSUME NEW assetId, NEW q \in TimeRange, ~ TouchesSource(d, op, assetId, q),
                        NEW clip \in ClipsOf(d), NEW i \in Instants(clip.src) \cap Instants(q),
                        clip.enabled, clip.asset = assetId
                 PROVE  \E other \in ClipsOf(e) : other.enabled /\ other.asset = assetId /\ i \in Instants(other.src)
      BY DEF SourceStays
    <2>1. PICK t \in DOMAIN d.tracks : clip \in ToSet(d.tracks[t].clips)
      BY ClipsStand
    <2>2. CASE ~ Named(t)
      <3>1. clip \in ToSet(e.tracks[t].clips)
        BY <1>4, <2>1, <2>2
      <3>2. QED
        BY <1>4, <3>1, ClipsStand
    <2>3. CASE Named(t)
      <3>1. clip \in NamedClips(d, op) /\ IsClip(clip)
        BY <1>5, <1>6, <2>1, <2>3
      <3>2. clip.src # NoRange
        BY DEF NoRange, Instants, RangeEnd
      <3>3. RangesOverlap(clip.range, op.range) =>
              ~ Warped(clip) /\ ~ RangesOverlap(SourceSlice(clip, op.range), q)
        BY <3>1, <3>2 DEF TouchesSource, NamedClips
      <3>4. RangesOverlap(clip.range, op.range) => i \notin Instants(SourceSlice(clip, op.range))
        <4> SUFFICES ASSUME RangesOverlap(clip.range, op.range), i \in Instants(SourceSlice(clip, op.range))
                     PROVE  FALSE
          OBVIOUS
        <4> DEFINE S == SourceSlice(clip, op.range)
        <4>1. S.start \in Int /\ S.dur \in Int
          <5>1. /\ clip.range.start \in Int /\ clip.range.dur \in Int /\ op.range.start \in Int /\ op.range.dur \in Int
                /\ clip.src.start \in Int
            BY <1>1, <3>1, RangeFacts DEF IsClip
          <5>2. QED
            BY <5>1 DEF SourceSlice, RangeEnd
        <4>2. q.start \in Int /\ q.dur \in Int
          BY RangeFacts
        <4>3. ~ RangesOverlap(S, q)
          BY <3>3
        <4> HIDE DEF S
        <4>4. i \in S.start .. (S.start + S.dur) - 1 /\ i \in q.start .. (q.start + q.dur) - 1
          BY DEF S, Instants, RangeEnd
        <4>5. QED
          BY <4>1, <4>2, <4>3, <4>4 DEF RangesOverlap, RangeEnd
      <3>5. PICK p \in ToSet(RipplePieces(clip, op)) : i \in Instants(p.src)
        BY <1>1, <3>1, <3>3, <3>4, PiecesPlayRest
      <3>6. p.asset = assetId /\ p.enabled
        BY <1>10, <3>1 DEF PieceOf
      <3>7. p \in ToSet(e.tracks[t].clips)
        BY <1>9, <2>1, <2>3
      <3>8. p \in ClipsOf(e)
        BY <1>4, <3>7, ClipsStand
      <3>9. QED
        BY <3>5, <3>6, <3>8
    <2>4. QED
      BY <2>2, <2>3
  <1>16. TypedInverse(r.inverse)
    <2> DEFINE back == RippledInverses(d, e, op)
    <2>1. DOMAIN back = DOMAIN op.trackIds /\ back = [i \in DOMAIN op.trackIds |-> back[i]]
          /\ \A i \in DOMAIN op.trackIds :
               back[i] = RippleInverse(op.trackIds[i], Track(d, op.trackIds[i]).clips, Track(e, op.trackIds[i]).clips)
      BY DEF RippledInverses
    <2> HIDE DEF back
    <2>2. ASSUME NEW i \in DOMAIN op.trackIds PROVE TypedInverse(back[i])
      <3>1. op.trackIds[i] \in TrackIds(d)
        BY <1>2 DEF ToSet
      <3>2. op.trackIds[i] \in TrackIds(e)
        <4>1. PICK u \in DOMAIN d.tracks : d.tracks[u].id = op.trackIds[i]
          BY <3>1 DEF TrackIds, ToSet
        <4>2. u \in DOMAIN e.tracks /\ e.tracks[u].id = op.trackIds[i]
          BY <1>4, <4>1
        <4>3. QED
          BY <4>2 DEF TrackIds, ToSet
      <3> DEFINE before == Track(d, op.trackIds[i]).clips
                 after == Track(e, op.trackIds[i]).clips
      <3>3. IsSequence(before) /\ \A c \in ToSet(before) : IsClip(c)
        BY <1>6, <3>1, TrackFound
      <3>4. IsSequence(after)
        BY <1>4, <3>2, TrackFound, DocumentFacts
      <3>5. back[i] = RippleInverse(op.trackIds[i], before, after)
        BY <2>1
      <3> HIDE DEF before, after
      <3>6. QED
        BY <3>3, <3>4, <3>5, RippleInverseTyped
    <2>3. TypedInverse(FlattenSeq(back))
      BY <1>1, <2>1, <2>2, FlattenedTyped
    <2>4. QED
      BY <1>3, <2>3 DEF back
  <1>17. QED
    BY <1>4, <1>14, <1>15, <1>16 DEF e, A

-----------------------------------------------------------------------------
(***************************************************************************)
(* What locks keep.                                                        *)
(***************************************************************************)
\* A prefix of two parts and of one part.
LEMMA PathsMeet ==
  /\ PathsIntersect(<<"range", "start">>, <<"range">>)
  /\ PathsIntersect(<<"range", "start">>, <<"range", "start">>)
  /\ PathsIntersect(<<"range">>, <<"range">>)
  /\ PathsIntersect(<<"range">>, <<"range", "start">>)
  /\ PathsIntersect(<<"range">>, <<"range", "dur">>)
  /\ PathsIntersect(<<"src">>, <<"src">>)
  /\ PathsIntersect(<<"look">>, <<"look">>)
  /\ PathsIntersect(<<"enabled">>, <<"enabled">>)
  <1>1. ASSUME NEW a, NEW b PROVE SubSeq(<<a, b>>, 1, 1) = <<a>>
    <2> DEFINE s == SubSeq(<<a, b>>, 1, 1)
    <2>1. s \in Seq({a, b}) /\ Len(s) = 1 /\ s[1] = a
      OBVIOUS
    <2>2. <<a>> \in Seq({a, b}) /\ Len(<<a>>) = 1 /\ <<a>>[1] = a
      OBVIOUS
    <2> HIDE DEF s
    <2>3. s = <<a>>
      BY <2>1, <2>2, SeqEqual
    <2>4. QED
      BY <2>3 DEF s
  <1>2. ASSUME NEW a PROVE SubSeq(<<a>>, 1, 1) = <<a>>
    <2> DEFINE s == SubSeq(<<a>>, 1, 1)
    <2>1. s \in Seq({a}) /\ Len(s) = 1 /\ s[1] = a
      OBVIOUS
    <2>2. <<a>> \in Seq({a}) /\ Len(<<a>>) = 1 /\ <<a>>[1] = a
      OBVIOUS
    <2> HIDE DEF s
    <2>3. s = <<a>>
      BY <2>1, <2>2, SeqEqual
    <2>4. QED
      BY <2>3 DEF s
  <1>4. ASSUME NEW s PROVE IsPrefix(s, s)
    BY DEF IsPrefix
  <1>5. ASSUME NEW a, NEW b PROVE IsPrefix(<<a>>, <<a, b>>)
    BY <1>1, <1>2 DEF IsPrefix
  <1>6. QED
    BY <1>4, <1>5 DEF PathsIntersect

\* The four ways a lock protects, from one document to a later one.
Blocks(lock, actor) == LockBlocksActor(lock, actor) /\ lock.owner # actor.id

TracksOfId(d, id) == {track \in ToSet(d.tracks) : track.id = id}
ClipsOfId(d, id) == {clip \in ClipsOf(d) : clip.id = id}
PropertyStands(d, e, id, path) ==
  ClipsOfId(d, id) # {} =>
    /\ ClipsOfId(e, id) # {}
    /\ \A new \in ClipsOfId(e, id) : \E old \in ClipsOfId(d, id) : Property(new, path) = Property(old, path)
ShownOf(d, assetId, r) == SourceShown(d, assetId) \cap Instants(r)

Protected(d, e, scope) ==
  /\ scope.kind = "track" => TracksOfId(e, scope.trackId) = TracksOfId(d, scope.trackId)
  /\ scope.kind = "clip" => ClipsOfId(d, scope.clipId) \subseteq ClipsOfId(e, scope.clipId)
  /\ scope.kind = "property" => PropertyStands(d, e, scope.objectId, scope.path)
  /\ scope.kind = "range" => Within(d, scope) \subseteq Within(e, scope)
  /\ scope.kind = "source_range" => ShownOf(d, scope.assetId, scope.range) \subseteq ShownOf(e, scope.assetId, scope.range)

\* What is left by the operations `ops` of an actor: its locks, and what they
\* protect against operations that do not escape them.
Keeps(d, e, actor, ops) ==
  /\ \A track \in ToSet(d.tracks) : track.locked => track \in ToSet(e.tracks)
  /\ \A lock \in ToSet(d.locks) : Blocks(lock, actor) =>
       /\ lock \in ToSet(e.locks)
       /\ (\A op \in ops : ~ Escapes(op, lock.scope)) => Protected(d, e, lock.scope)

\* A property that two steps leave alone is left alone by both.
LEMMA PropertyStandsOn ==
  ASSUME NEW b, NEW d, NEW e, NEW id, NEW path, PropertyStands(b, d, id, path), PropertyStands(d, e, id, path)
  PROVE  PropertyStands(b, e, id, path)
  <1> SUFFICES ASSUME ClipsOfId(b, id) # {}
               PROVE  /\ ClipsOfId(e, id) # {}
                      /\ \A new \in ClipsOfId(e, id) : \E old \in ClipsOfId(b, id) : Property(new, path) = Property(old, path)
    BY DEF PropertyStands
  <1>1. /\ ClipsOfId(d, id) # {}
        /\ \A new \in ClipsOfId(d, id) : \E old \in ClipsOfId(b, id) : Property(new, path) = Property(old, path)
    BY DEF PropertyStands
  <1>2. /\ ClipsOfId(e, id) # {}
        /\ \A new \in ClipsOfId(e, id) : \E old \in ClipsOfId(d, id) : Property(new, path) = Property(old, path)
    BY <1>1 DEF PropertyStands
  <1>3. ASSUME NEW new \in ClipsOfId(e, id)
        PROVE  \E old \in ClipsOfId(b, id) : Property(new, path) = Property(old, path)
    <2>1. PICK mid \in ClipsOfId(d, id) : Property(new, path) = Property(mid, path)
      BY <1>2
    <2>2. PICK old \in ClipsOfId(b, id) : Property(mid, path) = Property(old, path)
      BY <1>1
    <2>3. QED
      BY <2>1, <2>2
  <1>4. QED
    BY <1>2, <1>3

\* A scope that two steps protect is protected by both.
LEMMA ProtectedOn ==
  ASSUME NEW b, NEW d, NEW e, NEW scope, Protected(b, d, scope), Protected(d, e, scope)
  PROVE  Protected(b, e, scope)
  BY PropertyStandsOn DEF Protected

\* Locks go on protecting what they protected.
LEMMA KeepsOn ==
  ASSUME NEW b, NEW d, NEW e, NEW actor, NEW ops, NEW op \in ops,
         Keeps(b, d, actor, ops), Keeps(d, e, actor, {op})
  PROVE  Keeps(b, e, actor, ops)
  <1>1. \A track \in ToSet(b.tracks) : track.locked => track \in ToSet(e.tracks)
    BY DEF Keeps
  <1>2. ASSUME NEW lock \in ToSet(b.locks), Blocks(lock, actor)
        PROVE  /\ lock \in ToSet(e.locks)
               /\ (\A o \in ops : ~ Escapes(o, lock.scope)) => Protected(b, e, lock.scope)
    <2>1. lock \in ToSet(d.locks) /\ ((\A o \in ops : ~ Escapes(o, lock.scope)) => Protected(b, d, lock.scope))
      BY <1>2 DEF Keeps
    <2>2. lock \in ToSet(e.locks) /\ (~ Escapes(op, lock.scope) => Protected(d, e, lock.scope))
      BY <1>2, <2>1 DEF Keeps
    <2>3. QED
      BY <2>1, <2>2, ProtectedOn
  <1>3. QED
    BY <1>1, <1>2 DEF Keeps

\* A step that leaves the tracks and the blocking locks keeps what they protect.
LEMMA KeepsItself ==
  ASSUME NEW d, NEW e, e.tracks = d.tracks, NEW actor,
         \A lock \in ToSet(d.locks) : Blocks(lock, actor) => lock \in ToSet(e.locks), NEW ops
  PROVE  Keeps(d, e, actor, ops)
  <1>1. ClipsOf(e) = ClipsOf(d)
    BY DEF ClipsOf
  <1>2. ASSUME NEW scope PROVE Protected(d, e, scope)
    <2>1. \A id : TracksOfId(e, id) = TracksOfId(d, id) /\ ClipsOfId(e, id) = ClipsOfId(d, id)
      BY <1>1 DEF TracksOfId, ClipsOfId
    <2>2. \A id, path : PropertyStands(d, e, id, path)
      BY <2>1 DEF PropertyStands
    <2>3. Within(e, scope) = Within(d, scope)
      BY <1>1 DEF Within
    <2>4. \A assetId, r : ShownOf(e, assetId, r) = ShownOf(d, assetId, r)
      BY <1>1 DEF ShownOf, SourceShown
    <2>5. QED
      BY <2>1, <2>2, <2>3, <2>4 DEF Protected
  <1>3. QED
    BY <1>2 DEF Keeps

\* The clips that stand in a locked range.
LEMMA WithinStands ==
  ASSUME NEW d, NEW scope, NEW pair
  PROVE  pair \in Within(d, scope) <=>
           \E id, clip : /\ pair = <<id, clip>> /\ On(d, id, clip)
                         /\ scope.trackIds = {} \/ id \in scope.trackIds
                         /\ RangesOverlap(clip.range, scope.range)
  <1>1. ASSUME pair \in Within(d, scope)
        PROVE  \E id, clip : /\ pair = <<id, clip>> /\ On(d, id, clip)
                             /\ scope.trackIds = {} \/ id \in scope.trackIds
                             /\ RangesOverlap(clip.range, scope.range)
    <2>1. PICK track \in {t \in ToSet(d.tracks) : scope.trackIds = {} \/ t.id \in scope.trackIds},
               clip \in {c \in ClipsOf(d) : RangesOverlap(c.range, scope.range)} : pair = <<track.id, clip>>
      BY <1>1 DEF Within
    <2>2. PICK other \in ToSet(d.tracks) : pair \in {<<other.id, c>> : c \in ToSet(other.clips)}
      BY <1>1 DEF Within
    <2>6. PICK c \in ToSet(other.clips) : pair = <<other.id, c>>
      BY <2>2
    <2>3. other.id = track.id /\ c = clip
      BY <2>1, <2>6
    <2>4. On(d, track.id, clip)
      BY <2>3, <2>6 DEF On
    <2>5. QED
      BY <2>1, <2>4
  <1>2. ASSUME NEW id, NEW clip, pair = <<id, clip>>, On(d, id, clip),
               scope.trackIds = {} \/ id \in scope.trackIds, RangesOverlap(clip.range, scope.range)
        PROVE  pair \in Within(d, scope)
    <2>1. PICK track \in ToSet(d.tracks) : track.id = id /\ clip \in ToSet(track.clips)
      BY <1>2 DEF On
    <2>2. clip \in ClipsOf(d)
      BY <2>1 DEF ClipsOf
    <2> DEFINE P == {<<t.id, c>> : t \in {t \in ToSet(d.tracks) : scope.trackIds = {} \/ t.id \in scope.trackIds},
                                  c \in {c \in ClipsOf(d) : RangesOverlap(c.range, scope.range)}}
               Q == UNION {{<<t.id, c>> : c \in ToSet(t.clips)} : t \in ToSet(d.tracks)}
    <2>3. pair \in P
      BY <1>2, <2>1, <2>2
    <2>4. pair \in Q
      BY <1>2, <2>1
    <2>5. QED
      BY <2>3, <2>4 DEF Within
  <1>3. QED
    BY <1>1, <1>2

\* A property of a clip that is not counted as affected stands.
LEMMA UnaffectedStands ==
  ASSUME NEW d, NEW e, NEW A, Effects(d, e, A), NEW id, id \notin A.clips, NEW path
  PROVE  PropertyStands(d, e, id, path)
  <1> SUFFICES ASSUME ClipsOfId(d, id) # {} PROVE ClipsOfId(e, id) = ClipsOfId(d, id)
    BY DEF PropertyStands
  <1>1. id \in ClipIds(d)
    BY DEF ClipsOfId, ClipIds
  <1>2. ASSUME NEW c \in ClipsOfId(d, id) PROVE c \in ClipsOfId(e, id)
    <2>1. c \in ClipsOf(d) /\ c.id = id
      BY DEF ClipsOfId
    <2>2. PICK u : On(d, u, c)
      BY <2>1, ClipsStand
    <2>3. On(e, u, c)
      BY <2>1, <2>2 DEF Effects, Changes
    <2>4. c \in ClipsOf(e)
      BY <2>3, ClipsStand
    <2>5. QED
      BY <2>1, <2>4 DEF ClipsOfId
  <1>3. ASSUME NEW c \in ClipsOfId(e, id) PROVE c \in ClipsOfId(d, id)
    BY <1>1 DEF ClipsOfId, Effects, Unborrowed
  <1>4. QED
    BY <1>2, <1>3

\* What a lock lets through, and does not escape it, does not touch what it protects.
LEMMA EffectsProtect ==
  ASSUME NEW d, IsDocument(d), NEW e, NEW op, NEW lock, IsLock(lock),
         NEW A, Changes(d, e, A), SourceStays(d, op, e), ~ LockRefuses(d, lock, op, A), ~ Escapes(op, lock.scope),
         lock.scope.kind = "property" => PropertyStands(d, e, lock.scope.objectId, lock.scope.path)
  PROVE  Protected(d, e, lock.scope)
  <1> DEFINE scope == lock.scope
  <1>1. /\ \A track \in ToSet(d.tracks) : track \in ToSet(e.tracks) \/ track.id \in A.tracks
        /\ \A track \in ToSet(e.tracks) : track \in ToSet(d.tracks) \/ track.id \in A.tracks
        /\ \A id, clip : On(d, id, clip) =>
             \/ On(e, id, clip)
             \/ id \in A.tracks /\ clip.id \in A.clips /\ clip.range \in A.ranges
    BY DEF Changes
  <1>2. \A id : id \notin A.clips => ClipsOfId(d, id) \subseteq ClipsOfId(e, id)
    <2> SUFFICES ASSUME NEW id, id \notin A.clips, NEW c \in ClipsOfId(d, id) PROVE c \in ClipsOfId(e, id)
      OBVIOUS
    <2>1. c \in ClipsOf(d) /\ c.id = id
      BY DEF ClipsOfId
    <2>2. PICK u : On(d, u, c)
      BY <2>1, ClipsStand
    <2>3. On(e, u, c)
      BY <1>1, <2>1, <2>2
    <2>4. c \in ClipsOf(e)
      BY <2>3, ClipsStand
    <2>5. QED
      BY <2>1, <2>4 DEF ClipsOfId
  <1>3. CASE scope.kind = "track"
    <2>1. scope.trackId \notin A.tracks
      BY <1>3 DEF LockRefuses
    <2>2. TracksOfId(e, scope.trackId) = TracksOfId(d, scope.trackId)
      BY <1>1, <2>1 DEF TracksOfId
    <2>3. QED
      BY <1>3, <2>2 DEF Protected
  <1>4. CASE scope.kind = "clip"
    <2>1. scope.clipId \notin A.clips
      BY <1>4 DEF LockRefuses
    <2>2. QED
      BY <1>2, <1>4, <2>1 DEF Protected
  <1>5. CASE scope.kind = "property"
    BY <1>5 DEF Protected
  <1>6. CASE scope.kind = "range"
    <2>1. scope.trackIds = {} \/ A.tracks \cap scope.trackIds # {} => \A r \in A.ranges : ~ RangesOverlap(scope.range, r)
      BY <1>6 DEF LockRefuses
    <2>2. ASSUME NEW pair \in Within(d, scope) PROVE pair \in Within(e, scope)
      <3>1. PICK id, clip : /\ pair = <<id, clip>> /\ On(d, id, clip)
                            /\ scope.trackIds = {} \/ id \in scope.trackIds
                            /\ RangesOverlap(clip.range, scope.range)
        BY <2>2, WithinStands
      <3>2. RangesOverlap(scope.range, clip.range)
        BY <3>1 DEF RangesOverlap
      <3>3. On(e, id, clip)
        BY <1>1, <2>1, <3>1, <3>2
      <3>4. QED
        BY <3>1, <3>3, WithinStands
    <2>3. QED
      BY <1>6, <2>2 DEF Protected
  <1>7. CASE scope.kind = "source_range"
    <2>1. ~ TouchesSource(d, op, scope.assetId, scope.range)
      BY <1>7 DEF LockRefuses
    <2>2. scope.range \in TimeRange /\ ~ TakesSource(op)
      BY <1>7, EscapesByKind DEF IsLock
    <2>3. ASSUME NEW i \in ShownOf(d, scope.assetId, scope.range) PROVE i \in ShownOf(e, scope.assetId, scope.range)
      <3>1. i \in Instants(scope.range) /\ i \in SourceShown(d, scope.assetId)
        BY DEF ShownOf
      <3>2. PICK clip \in ClipsOf(d) : clip.enabled /\ clip.asset = scope.assetId /\ i \in Instants(clip.src)
        BY <3>1 DEF SourceShown
      <3>3. PICK other \in ClipsOf(e) : other.enabled /\ other.asset = scope.assetId /\ i \in Instants(other.src)
        BY <2>1, <2>2, <3>1, <3>2 DEF SourceStays
      <3>4. i \in SourceShown(e, scope.assetId)
        BY <3>3 DEF SourceShown
      <3>5. QED
        BY <3>1, <3>4 DEF ShownOf
    <2>4. QED
      BY <1>7, <2>3 DEF Protected
  <1>8. scope.kind \in {"track", "clip", "property", "range", "source_range"}
    BY DEF IsLock, ScopeKinds
  <1>9. QED
    BY <1>3, <1>4, <1>5, <1>6, <1>7, <1>8

\* An operation no lock refuses.
LEMMA EffectsKeep ==
  ASSUME NEW d, IsDocument(d), NEW e, e.locks = d.locks, NEW actor, NEW op,
         op.type \notin OnLibrary \cup {"lock.add", "lock.remove"}, OperationUnlocked(d, actor, op),
         Changes(d, e, Affected(d, op)), SourceStays(d, op, e),
         ~ Renames(op) =>
           /\ Effects(d, e, Affected(d, op))
           /\ \A id : \A path \in LockPaths : id \in Affected(d, op).clips /\ ~ TouchesProperty(op, id, path) =>
                PropertyStands(d, e, id, path)
  PROVE  Keeps(d, e, actor, {op})
  <1> DEFINE A == Affected(d, op)
  <1>1. /\ \A track \in ToSet(d.tracks) : track.id \in A.tracks => ~ track.locked
        /\ \A lock \in ToSet(d.locks) : LockBlocksActor(lock, actor) => ~ LockRefuses(d, lock, op, A)
    BY DEF OperationUnlocked
  <1> HIDE DEF A
  <1>2. \A track \in ToSet(d.tracks) : track.locked => track \in ToSet(e.tracks)
    BY <1>1 DEF Changes, A
  <1>3. ASSUME NEW lock \in ToSet(d.locks), Blocks(lock, actor), ~ Escapes(op, lock.scope)
        PROVE  Protected(d, e, lock.scope)
    <2>1. ~ LockRefuses(d, lock, op, A)
      BY <1>1, <1>3 DEF Blocks
    <2>2. IsLock(lock)
      BY DEF IsDocument
    <2>3. lock.scope.kind = "property" => PropertyStands(d, e, lock.scope.objectId, lock.scope.path)
      <3>1. HAVE lock.scope.kind = "property"
      <3>2. lock.scope.objectId \in A.clips => ~ TouchesProperty(op, lock.scope.objectId, lock.scope.path)
        BY <2>1, <3>1 DEF LockRefuses
      <3>3. lock.scope.path \in LockPaths
        BY <2>2, <3>1 DEF IsLock
      <3>4. ~ Renames(op)
        BY <1>3, <3>1, EscapesByKind
      <3>5. CASE lock.scope.objectId \in A.clips
        BY <3>2, <3>3, <3>4, <3>5 DEF A
      <3>6. CASE lock.scope.objectId \notin A.clips
        BY <3>4, <3>6, UnaffectedStands DEF A
      <3>7. QED
        BY <3>5, <3>6
    <2>4. Changes(d, e, A)
      BY DEF A
    <2>5. QED
      BY <1>3, <2>1, <2>2, <2>3, <2>4, EffectsProtect
  <1>4. QED
    BY <1>2, <1>3 DEF Keeps

\* The property of a clip that changes in other properties.
LEMMA OtherPropertyStands ==
  ASSUME NEW d, NEW e, NEW clip, NEW new, OneChanged(d, e, clip, new), new.id = clip.id,
         NEW path, Property(new, path) = Property(clip, path)
  PROVE  PropertyStands(d, e, clip.id, path)
  <1>1. new \in ClipsOfId(e, clip.id) /\ clip \in ClipsOfId(d, clip.id)
    BY DEF OneChanged, ClipsOfId
  <1>2. ASSUME NEW c \in ClipsOfId(e, clip.id)
        PROVE  \E old \in ClipsOfId(d, clip.id) : Property(c, path) = Property(old, path)
    <2>1. c = new \/ c \in ClipsOfId(d, clip.id)
      BY DEF OneChanged, ClipsOfId
    <2>2. QED
      BY <1>1, <2>1
  <1>3. QED
    BY <1>1, <1>2 DEF PropertyStands

\* Other clips on a track leave the tracks' ids.
LEMMA ReclippedIds ==
  ASSUME NEW d, IsDocument(d), NEW t \in DOMAIN d.tracks, NEW s
  PROVE  /\ DOMAIN WithClips(d, t, s).tracks = DOMAIN d.tracks
         /\ \A u \in DOMAIN d.tracks : WithClips(d, t, s).tracks[u].id = d.tracks[u].id
         /\ TracksUnique(d) => TracksUnique(WithClips(d, t, s))
  <1> DEFINE e == WithClips(d, t, s)
             track == [d.tracks[t] EXCEPT !.clips = s]
             T == [d.tracks EXCEPT ![t] = track]
  <1>1. /\ d = [tracks |-> d.tracks, locks |-> d.locks, assets |-> d.assets, artifacts |-> d.artifacts]
        /\ IsTrack(d.tracks[t]) /\ IsSequence(d.tracks)
    BY DocumentFacts
  <1>2. d.tracks[t] = [id |-> d.tracks[t].id, locked |-> d.tracks[t].locked, clips |-> d.tracks[t].clips]
    BY <1>1 DEF IsTrack
  <1>3. track.id = d.tracks[t].id
    BY <1>2
  <1>4. e = [d EXCEPT !.tracks = T]
    BY <1>1 DEF WithClips
  <1> HIDE DEF track
  <1>5. DOMAIN T = DOMAIN d.tracks /\ \A u \in DOMAIN d.tracks : T[u] = IF u = t THEN track ELSE d.tracks[u]
    <2>1. d.tracks = [u \in DOMAIN d.tracks |-> d.tracks[u]]
      BY <1>1, SequenceFacts
    <2>2. QED
      BY <2>1
  <1> HIDE DEF T
  <1>6. e = [tracks |-> T, locks |-> d.locks, assets |-> d.assets, artifacts |-> d.artifacts]
    BY <1>1, <1>4
  <1> HIDE DEF e
  <1>7. e.tracks = T
    BY <1>6
  <1>8. DOMAIN e.tracks = DOMAIN d.tracks /\ \A u \in DOMAIN d.tracks : e.tracks[u].id = d.tracks[u].id
    BY <1>3, <1>5, <1>7
  <1>9. TracksUnique(d) => TracksUnique(e)
    BY <1>8 DEF TracksUnique
  <1>10. QED
    BY <1>8, <1>9 DEF e

\* The identifiers of tracks that come and go stay unique.
LEMMA SplicedTracksUnique ==
  ASSUME NEW d, IsDocument(d), TracksUnique(d), NEW k \in 0 .. Len(d.tracks), NEW track, track.id \notin TrackIds(d),
         NEW e, e.tracks = Splice(d.tracks, k, track)
  PROVE  TracksUnique(e)
  <1> DEFINE n == Len(d.tracks)
  <1>1. IsSequence(d.tracks) /\ DOMAIN d.tracks = 1 .. n /\ n \in Nat
    BY DocumentFacts
  <1>2. /\ IsSequence(e.tracks) /\ Len(e.tracks) = n + 1
        /\ \A i \in 1 .. n + 1 : e.tracks[i] = IF i <= k THEN d.tracks[i] ELSE IF i = k + 1 THEN track ELSE d.tracks[i - 1]
    BY <1>1, Spliced
  <1>3. DOMAIN e.tracks = 1 .. n + 1
    BY <1>2, SequenceFacts
  <1>4. \A i \in 1 .. n : d.tracks[i].id # track.id
    BY <1>1 DEF TrackIds, ToSet
  <1>5. \A i, j \in 1 .. n : d.tracks[i].id = d.tracks[j].id => i = j
    BY <1>1 DEF TracksUnique
  <1> HIDE DEF n
  <1>6. ASSUME NEW i \in 1 .. n + 1, NEW j \in 1 .. n + 1, e.tracks[i].id = e.tracks[j].id PROVE i = j
    <2> DEFINE p(x) == IF x <= k THEN x ELSE x - 1
    <2>1. \A x \in 1 .. n + 1 : x # k + 1 => p(x) \in 1 .. n /\ e.tracks[x] = d.tracks[p(x)]
      BY <1>1, <1>2
    <2>2. CASE i = k + 1
      <3>1. e.tracks[i] = track
        BY <1>2, <2>2
      <3>2. j = k + 1
        BY <1>4, <1>6, <2>1, <3>1
      <3>3. QED
        BY <2>2, <3>2
    <2>3. CASE j = k + 1
      <3>1. e.tracks[j] = track
        BY <1>2, <2>3
      <3>2. i = k + 1
        BY <1>4, <1>6, <2>1, <3>1
      <3>3. QED
        BY <2>3, <3>2
    <2>4. CASE i # k + 1 /\ j # k + 1
      <3>1. p(i) = p(j)
        <4> HIDE DEF p
        <4>1. QED
          BY <1>5, <1>6, <2>1, <2>4
      <3>2. QED
        BY <1>1, <2>4, <3>1
    <2>5. QED
      BY <2>2, <2>3, <2>4
  <1>7. QED
    BY <1>3, <1>6 DEF TracksUnique

\* Taking a track out leaves the track ids distinct.
LEMMA TakenTracksUnique ==
  ASSUME NEW d, IsDocument(d), TracksUnique(d), NEW k \in DOMAIN d.tracks, NEW e, e.tracks = RemoveAt(d.tracks, k)
  PROVE  TracksUnique(e)
  <1> DEFINE n == Len(d.tracks)
  <1>1. IsSequence(d.tracks) /\ DOMAIN d.tracks = 1 .. n /\ n \in Nat
    BY DocumentFacts
  <1>2. /\ IsSequence(e.tracks) /\ Len(e.tracks) = n - 1
        /\ \A i \in 1 .. n - 1 : e.tracks[i] = IF i < k THEN d.tracks[i] ELSE d.tracks[i + 1]
    <2> DEFINE a == d.tracks
               u == RemoveAt(a, k)
    <2>1. IsSequence(a) /\ k \in DOMAIN a /\ e.tracks = u
      BY <1>1
    <2> HIDE DEF a
    <2>2. /\ IsSequence(u) /\ Len(u) = Len(a) - 1
          /\ \A i \in 1 .. Len(a) - 1 : u[i] = IF i < k THEN a[i] ELSE a[i + 1]
      BY ONLY <2>1, Taken
    <2> HIDE DEF u
    <2>3. QED
      BY <2>1, <2>2 DEF a
  <1>3. DOMAIN e.tracks = 1 .. n - 1
    BY <1>2, SequenceFacts
  <1>5. \A i, j \in 1 .. n : d.tracks[i].id = d.tracks[j].id => i = j
    BY <1>1 DEF TracksUnique
  <1> HIDE DEF n
  <1>6. ASSUME NEW i \in 1 .. n - 1, NEW j \in 1 .. n - 1, e.tracks[i].id = e.tracks[j].id PROVE i = j
    <2> DEFINE p(x) == IF x < k THEN x ELSE x + 1
    <2>1. \A x \in 1 .. n - 1 : p(x) \in 1 .. n /\ e.tracks[x] = d.tracks[p(x)]
      BY <1>1, <1>2
    <2>2. p(i) = p(j)
      <3> HIDE DEF p
      <3>1. QED
        BY <1>5, <1>6, <2>1
    <2>3. QED
      BY <1>1, <2>2
  <1>7. QED
    BY <1>3, <1>6 DEF TracksUnique

\* What a resolved, unlocked operation leaves behind.
StepHolds(d, actor, op, r) ==
  /\ IsDocument(r.doc) /\ TracksUnique(r.doc) /\ TypedInverse(r.inverse) /\ Keeps(d, r.doc, actor, {op})

\* The library operations hold what every step must.
LEMMA LibraryStep ==
  ASSUME NEW d, IsDocument(d), TracksUnique(d), NEW op, IsOperation(op), op.type \in OnLibrary,
         NEW actor, NEW r, r = ApplyOperation(d, op), r.ok
  PROVE  StepHolds(d, actor, op, r)
  <1>1. CASE op.type = "library.put"
    <2>1. r = PutObject(d, op)
      BY <1>1 DEF ApplyOperation
    <2>2. IsDocument(r.doc) /\ r.doc.tracks = d.tracks /\ r.doc.locks = d.locks /\ TypedInverse(r.inverse)
      <3>1. IsDocument(d) /\ IsOperation(op) /\ op.type = "library.put" /\ r = PutObject(d, op) /\ r.ok
        BY <1>1, <2>1
      <3>2. QED
        BY ONLY <3>1, PutObjectKeeps
    <2>3. QED
      BY <2>2, KeepsItself DEF StepHolds, TracksUnique
  <1>2. CASE op.type = "library.remove"
    <2>1. r = RemoveObject(d, op)
      BY <1>2 DEF ApplyOperation
    <2>2. IsDocument(r.doc) /\ r.doc.tracks = d.tracks /\ r.doc.locks = d.locks /\ TypedInverse(r.inverse)
      BY <1>2, <2>1, RemoveObjectKeeps
    <2>3. QED
      BY <2>2, KeepsItself DEF StepHolds, TracksUnique
  <1>3. QED
    BY <1>1, <1>2 DEF OnLibrary

\* Adding and removing locks holds what every step must.
LEMMA LockStep ==
  ASSUME NEW d, IsDocument(d), TracksUnique(d), NEW op, IsOperation(op), op.type \in {"lock.add", "lock.remove"},
         Resolves(d, op), NEW actor, OperationUnlocked(d, actor, op), NEW r, r = ApplyOperation(d, op), r.ok
  PROVE  StepHolds(d, actor, op, r)
  <1>0. IsSequence(d.locks)
    BY DocumentFacts
  <1>1. CASE op.type = "lock.add"
    <2>1. r = AddLock(d, op)
      BY <1>1 DEF ApplyOperation
    <2>2. /\ IsDocument(r.doc) /\ r.doc.tracks = d.tracks /\ TypedInverse(r.inverse)
          /\ CanInsert(op.index, d.locks) /\ r.doc.locks = Splice(d.locks, op.index, op.lock)
      <3>1. IsDocument(d) /\ IsOperation(op) /\ op.type = "lock.add" /\ r = AddLock(d, op) /\ r.ok
        BY <1>1, <2>1
      <3>2. QED
        BY ONLY <3>1, AddLockKeeps
    <2> DEFINE k == op.index
               e == r.doc
    <2>3. k \in 0 .. Len(d.locks) /\ e.locks = Splice(d.locks, k, op.lock)
      BY <2>2 DEF CanInsert
    <2> HIDE DEF k
    <2>4. ToSet(Splice(d.locks, k, op.lock)) = ToSet(d.locks) \cup {op.lock}
      BY <1>0, <2>3, Spliced
    <2>5. \A lock \in ToSet(d.locks) : lock \in ToSet(e.locks)
      BY <2>3, <2>4
    <2>6. QED
      BY <2>2, <2>5, KeepsItself DEF StepHolds, TracksUnique
  <1>2. CASE op.type = "lock.remove"
    <2>1. r = RemoveLock(d, op)
      BY <1>2 DEF ApplyOperation
    <2>2. /\ IsDocument(r.doc) /\ r.doc.tracks = d.tracks /\ TypedInverse(r.inverse)
      BY <1>2, <2>1, RemoveLockKeeps
    <2>3. PICK i \in DOMAIN d.locks : i = FindLock(d, op.lockId) /\ r.doc.locks = RemoveAt(d.locks, i)
      BY <1>2, <2>1, RemoveLockKeeps
    <2>4. d.locks[i].owner = actor.id
      BY <1>2, <2>3 DEF OperationUnlocked, OnLibrary
    <2>5. ToSet(d.locks) = ToSet(RemoveAt(d.locks, i)) \cup {d.locks[i]}
      <3> DEFINE a == d.locks
      <3>1. IsSequence(a) /\ i \in DOMAIN a
        BY <1>0
      <3> HIDE DEF a
      <3>2. ToSet(a) = ToSet(RemoveAt(a, i)) \cup {a[i]}
        BY ONLY <3>1, Taken
      <3>3. QED
        BY <3>2 DEF a
    <2>6. \A lock \in ToSet(d.locks) : Blocks(lock, actor) => lock \in ToSet(r.doc.locks)
      BY <2>3, <2>4, <2>5 DEF Blocks
    <2>7. QED
      BY <2>2, <2>6, KeepsItself DEF StepHolds, TracksUnique
  <1>3. QED
    BY <1>1, <1>2

\* Only move, trim and update can spare a property of a clip.
LEMMA TouchedOtherwise ==
  ASSUME NEW op, op.type \notin {"clip.move", "clip.trim", "clip.update"}, NEW id, NEW path
  PROVE  TouchesProperty(op, id, path)
  BY DEF TouchesProperty

\* The operations on clips and tracks that are taken to touch every property.
LEMMA CoarseStep ==
  ASSUME NEW d, IsDocument(d), NEW e, IsDocument(e), TracksUnique(e), e.locks = d.locks, NEW op, IsOperation(op),
         op.type \in {"track.add", "track.remove", "clip.insert", "clip.remove", "clip.split", "clip.replace",
                      "range.deleteRipple"},
         NEW actor, OperationUnlocked(d, actor, op), NEW r, r.doc = e, TypedInverse(r.inverse),
         Effects(d, e, Affected(d, op)), SourceStays(d, op, e)
  PROVE  StepHolds(d, actor, op, r)
  <1>1. op.type \notin OnLibrary \cup {"lock.add", "lock.remove"}
    BY DEF OnLibrary
  <1>2. \A id : \A path \in LockPaths : id \in Affected(d, op).clips /\ ~ TouchesProperty(op, id, path) =>
          PropertyStands(d, e, id, path)
    BY TouchedOtherwise
  <1>3. Keeps(d, e, actor, {op})
    BY <1>1, <1>2, EffectsKeep DEF Effects
  <1>4. QED
    BY <1>3 DEF StepHolds

\* The operations that change one clip in some properties.
LEMMA FineStep ==
  ASSUME NEW d, IsDocument(d), NEW e, IsDocument(e), TracksUnique(e), e.locks = d.locks, NEW op, IsOperation(op),
         op.type \in {"clip.move", "clip.trim", "clip.update"}, Resolves(d, op),
         NEW actor, OperationUnlocked(d, actor, op), NEW r, r.doc = e, TypedInverse(r.inverse),
         Changes(d, e, Affected(d, op)), SourceStays(d, op, e),
         NEW clip, clip = Clip(d, op.clipId), NEW new, OneChanged(d, e, clip, new),
         ~ Renames(op) => Effects(d, e, Affected(d, op)) /\ new.id = clip.id,
         op.type = "clip.move" =>
           new.src = clip.src /\ new.look = clip.look /\ new.enabled = clip.enabled /\ new.range.dur = clip.range.dur,
         op.type = "clip.trim" => new.look = clip.look /\ new.enabled = clip.enabled,
         op.type = "clip.update" => new = Patched(clip, op.patch)
  PROVE  StepHolds(d, actor, op, r)
  <1>1. op.type \notin OnLibrary \cup {"lock.add", "lock.remove"} /\ op.type \in OnClip
    BY DEF OnLibrary, OnClip
  <1>2. Affected(d, op).clips = {op.clipId} /\ clip.id = op.clipId /\ IsClip(clip)
    <2> DEFINE at == FindClip(d, op.clipId)
               old == ClipAt(d, at)
    <2>1. at = FindClip(d, op.clipId) /\ old = ClipAt(d, at)
      OBVIOUS
    <2> HIDE DEF at, old
    <2>2. Affected(d, op).clips = {op.clipId} /\ old.id = op.clipId /\ old = Clip(d, op.clipId) /\ IsClip(old)
      BY <1>1, <2>1, AffectedByClip
    <2>3. QED
      BY <2>2
  <1>3. ASSUME NEW path \in LockPaths, ~ TouchesProperty(op, op.clipId, path) PROVE Property(new, path) = Property(clip, path)
    <2>1. /\ op.type = "clip.move" => ~ PathsIntersect(<<"range", "start">>, path)
          /\ op.type = "clip.trim" => ~ PathsIntersect(<<"range">>, path) /\ ~ PathsIntersect(<<"src">>, path)
          /\ op.type = "clip.update" => \A key \in DOMAIN op.patch : ~ PathsIntersect(<<key>>, path)
      BY <1>3 DEF TouchesProperty
    <2>2. \/ path = <<"range">> \/ path = <<"range", "start">> \/ path = <<"range", "dur">>
          \/ path = <<"src">> \/ path = <<"look">> \/ path = <<"enabled">>
      BY DEF LockPaths
    <2>3. CASE op.type = "clip.move"
      <3>1. path = <<"range", "dur">> \/ path = <<"src">> \/ path = <<"look">> \/ path = <<"enabled">>
        BY <2>1, <2>2, <2>3, PathsMeet
      <3>2. QED
        BY <2>3, <3>1 DEF Property
    <2>4. CASE op.type = "clip.trim"
      <3>1. path = <<"look">> \/ path = <<"enabled">>
        BY <2>1, <2>2, <2>4, PathsMeet
      <3>2. QED
        BY <2>4, <3>1 DEF Property
    <2>5. CASE op.type = "clip.update"
      <3>1. /\ path \in {<<"range">>, <<"range", "start">>, <<"range", "dur">>} => "range" \notin DOMAIN op.patch
            /\ path = <<"src">> => "src" \notin DOMAIN op.patch
            /\ path = <<"look">> => "look" \notin DOMAIN op.patch
            /\ path = <<"enabled">> => "enabled" \notin DOMAIN op.patch
        BY <2>1, <2>5, PathsMeet
      <3>2. new = [id |-> Or(op.patch, "id", clip.id), asset |-> Or(op.patch, "asset", clip.asset),
                   range |-> Or(op.patch, "range", clip.range), src |-> Or(op.patch, "src", clip.src),
                   look |-> Or(op.patch, "look", clip.look), enabled |-> Or(op.patch, "enabled", clip.enabled)]
        BY <1>2, <2>5, PatchedClip DEF IsOperation
      <3>3. /\ path \in {<<"range">>, <<"range", "start">>, <<"range", "dur">>} => new.range = clip.range
            /\ path = <<"src">> => new.src = clip.src
            /\ path = <<"look">> => new.look = clip.look
            /\ path = <<"enabled">> => new.enabled = clip.enabled
        BY <3>1, <3>2 DEF Or
      <3>4. QED
        BY <2>2, <3>3 DEF Property
    <2>6. QED
      BY <2>3, <2>4, <2>5
  <1>4. ASSUME ~ Renames(op), NEW id, NEW path \in LockPaths, id \in Affected(d, op).clips, ~ TouchesProperty(op, id, path)
        PROVE  PropertyStands(d, e, id, path)
    BY <1>2, <1>3, <1>4, OtherPropertyStands
  <1>5. Keeps(d, e, actor, {op})
    BY <1>1, <1>4, EffectsKeep
  <1>6. QED
    BY <1>5 DEF StepHolds

\* Adding and removing tracks holds what every step must.
LEMMA TracksOperationStep ==
  ASSUME NEW d, IsDocument(d), TracksUnique(d), NEW op, IsOperation(op), op.type \in {"track.add", "track.remove"},
         Resolves(d, op), NEW actor, OperationUnlocked(d, actor, op), NEW r, r = ApplyOperation(d, op), r.ok
  PROVE  StepHolds(d, actor, op, r)
  <1> DEFINE e == r.doc
  <1>1. CASE op.type = "track.add"
    <2>1. r = AddTrack(d, op)
      BY <1>1 DEF ApplyOperation
    <2>2. /\ IsDocument(e) /\ e.locks = d.locks /\ TypedInverse(r.inverse)
          /\ Effects(d, e, Affected(d, op)) /\ SourceStays(d, op, e)
          /\ op.track.id \notin SequenceIds(d) /\ CanInsert(op.index, d.tracks)
          /\ e.tracks = Splice(d.tracks, op.index, op.track)
      BY <1>1, <2>1, AddTrackKeeps
    <2>3. TracksUnique(e)
      <3> DEFINE k == op.index
                 track == op.track
      <3>1. k \in 0 .. Len(d.tracks) /\ track.id \notin TrackIds(d) /\ e.tracks = Splice(d.tracks, k, track)
        BY <2>2 DEF CanInsert, SequenceIds
      <3> HIDE DEF k, track, e
      <3>2. QED
        BY <3>1, SplicedTracksUnique
    <2>4. QED
      BY <1>1, <2>2, <2>3, CoarseStep
  <1>2. CASE op.type = "track.remove"
    <2>1. r = RemoveTrack(d, op)
      BY <1>2 DEF ApplyOperation
    <2>2. /\ IsDocument(e) /\ e.locks = d.locks /\ TypedInverse(r.inverse)
          /\ Effects(d, e, Affected(d, op)) /\ SourceStays(d, op, e)
          /\ \E t \in DOMAIN d.tracks : e.tracks = RemoveAt(d.tracks, t)
      BY <1>2, <2>1, RemoveTrackKeeps
    <2>3. TracksUnique(e)
      <3>1. PICK t \in DOMAIN d.tracks : e.tracks = RemoveAt(d.tracks, t)
        BY <2>2
      <3> HIDE DEF e
      <3>2. QED
        BY <3>1, TakenTracksUnique
    <2>4. QED
      BY <1>2, <2>2, <2>3, CoarseStep
  <1>3. QED
    BY <1>1, <1>2

\* The operations that insert, remove, split, replace or ripple clips do too.
LEMMA ClipOperationStep ==
  ASSUME NEW d, IsDocument(d), TracksUnique(d), NEW op, IsOperation(op),
         op.type \in {"clip.insert", "clip.remove", "clip.split", "clip.replace", "range.deleteRipple"},
         Resolves(d, op), NEW actor, OperationUnlocked(d, actor, op), NEW r, r = ApplyOperation(d, op), r.ok
  PROVE  StepHolds(d, actor, op, r)
  <1> DEFINE e == r.doc
             at == FindClip(d, op.clipId)
             clip == ClipAt(d, at)
  <1>1. CASE op.type = "clip.insert"
    <2>1. r = InsertClip(d, op)
      BY <1>1 DEF ApplyOperation
    <2>2. /\ IsDocument(e) /\ e.locks = d.locks /\ TypedInverse(r.inverse)
          /\ Effects(d, e, Affected(d, op)) /\ SourceStays(d, op, e)
          /\ \E t \in DOMAIN d.tracks : e = WithClips(d, t, Splice(d.tracks[t].clips, op.index, op.clip))
      BY <1>1, <2>1, InsertClipKeeps
    <2>3. TracksUnique(e)
      BY <2>2, ReclippedIds
    <2>4. QED
      BY <1>1, <2>2, <2>3, CoarseStep
  <1>2. CASE op.type = "clip.remove"
    <2>1. r = RemoveClip(d, op) /\ op.type \in OnClip /\ at = FindClip(d, op.clipId) /\ clip = ClipAt(d, at)
      BY <1>2 DEF ApplyOperation, OnClip
    <2> HIDE DEF at, clip
    <2>2. /\ IsDocument(e) /\ e.locks = d.locks /\ TypedInverse(r.inverse)
          /\ Effects(d, e, Affected(d, op)) /\ SourceStays(d, op, e)
          /\ e = WithClips(d, at.track, RemoveAt(d.tracks[at.track].clips, at.index))
      BY <1>2, <2>1, RemoveClipKeeps
    <2>3. at.track \in DOMAIN d.tracks
      BY <2>1, AffectedByClip
    <2>4. TracksUnique(e)
      BY <2>2, <2>3, ReclippedIds
    <2>5. QED
      BY <1>2, <2>2, <2>4, CoarseStep
  <1>3. CASE op.type = "clip.split"
    <2>1. r = SplitClip(d, op) /\ op.type \in OnClip /\ at = FindClip(d, op.clipId) /\ clip = ClipAt(d, at)
      BY <1>3 DEF ApplyOperation, OnClip
    <2> HIDE DEF at, clip
    <2>2. /\ IsDocument(e) /\ e.locks = d.locks /\ TypedInverse(r.inverse)
          /\ Effects(d, e, Affected(d, op)) /\ SourceStays(d, op, e)
      BY <1>3, <2>1, SplitClipKeeps
    <2>3. at.track \in DOMAIN d.tracks /\ IsClip(clip)
      BY <2>1, AffectedByClip
    <2> DEFINE cut == op.at - clip.range.start
               s == Splice(PutAt(d.tracks[at.track].clips, at.index, LeftPart(clip, cut)), at.index,
                             RightPart(clip, cut, op.rightClipId))
    <2>4. e = WithClips(d, at.track, s)
      <3>1. cut = op.at - clip.range.start
        OBVIOUS
      <3> HIDE DEF cut
      <3>2. QED
        BY <2>1, <2>3, <3>1, SplitShape
    <2> HIDE DEF s
    <2>5. TracksUnique(e)
      BY <2>3, <2>4, ReclippedIds
    <2>6. QED
      BY <1>3, <2>2, <2>5, CoarseStep
  <1>4. CASE op.type = "clip.replace"
    <2> DEFINE new == op.clip
    <2>1. r = ReplaceClip(d, op) /\ op.type \in OnClip /\ at = FindClip(d, op.clipId) /\ clip = ClipAt(d, at)
      BY <1>4 DEF ApplyOperation, OnClip
    <2> HIDE DEF at, clip
    <2>2. /\ IsDocument(e) /\ e.locks = d.locks /\ TypedInverse(r.inverse)
          /\ Effects(d, e, Affected(d, op)) /\ SourceStays(d, op, e)
          /\ e = WithClips(d, at.track, PutAt(d.tracks[at.track].clips, at.index, new))
      BY <1>4, <2>1, ReplaceClipKeeps
    <2> HIDE DEF new
    <2>3. at.track \in DOMAIN d.tracks
      BY <2>1, AffectedByClip
    <2> DEFINE s == PutAt(d.tracks[at.track].clips, at.index, new)
    <2>4. TracksUnique(e)
      <3>1. e = WithClips(d, at.track, s)
        BY <2>2
      <3> HIDE DEF s
      <3>2. QED
        BY <2>3, <3>1, ReclippedIds
    <2>5. QED
      BY <1>4, <2>2, <2>4, CoarseStep
  <1>5. CASE op.type = "range.deleteRipple"
    <2>1. r = RippleDelete(d, op)
      BY <1>5 DEF ApplyOperation
    <2>2. /\ IsDocument(e) /\ e.locks = d.locks /\ TypedInverse(r.inverse)
          /\ Effects(d, e, Affected(d, op)) /\ SourceStays(d, op, e)
      BY <1>5, <2>1, RippleDeleteKeeps
    <2>3. e = RippledDoc(d, op) /\ op.range \in TimeRange
      BY <1>5, <2>1, RippleShape DEF IsOperation
    <2> HIDE DEF e
    <2>4. DOMAIN e.tracks = DOMAIN d.tracks /\ \A t \in DOMAIN d.tracks : e.tracks[t].id = d.tracks[t].id
      BY <2>3, RippledDocument
    <2>5. TracksUnique(e)
      BY <2>4 DEF TracksUnique
    <2>6. QED
      BY <1>5, <2>2, <2>5, CoarseStep DEF e
  <1>6. QED
    BY <1>1, <1>2, <1>3, <1>4, <1>5

\* So do the operations that change part of a clip.
LEMMA ClipChangeStep ==
  ASSUME NEW d, IsDocument(d), TracksUnique(d), NEW op, IsOperation(op),
         op.type \in {"clip.move", "clip.trim", "clip.update"},
         Resolves(d, op), NEW actor, OperationUnlocked(d, actor, op), NEW r, r = ApplyOperation(d, op), r.ok
  PROVE  StepHolds(d, actor, op, r)
  <1> DEFINE e == r.doc
             at == FindClip(d, op.clipId)
             clip == ClipAt(d, at)
  <1>0. op.type \in OnClip /\ at = FindClip(d, op.clipId) /\ clip = ClipAt(d, at)
    BY DEF OnClip
  <1> HIDE DEF at, clip
  <1>9. clip = Clip(d, op.clipId) /\ at.track \in DOMAIN d.tracks /\ IsClip(clip) /\ clip.id = op.clipId
    BY <1>0, AffectedByClip
  <1>1. CASE op.type = "clip.move"
    <2> DEFINE new == MovedTo(clip, op.start)
               from == RemoveAt(d.tracks[at.track].clips, at.index)
               lifted == WithClips(d, at.track, from)
               to == FindTrack(d, op.toTrackId)
               s == Splice(lifted.tracks[to].clips, op.toIndex, new)
    <2>1. r = MoveClip(d, op) /\ new = MovedTo(clip, op.start) /\ op.start \in Int
          /\ lifted = WithClips(d, at.track, RemoveAt(d.tracks[at.track].clips, at.index)) /\ to = FindTrack(d, op.toTrackId)
      BY <1>1 DEF ApplyOperation, IsOperation
    <2>8. TracksUnique(lifted)
      <3> HIDE DEF from
      <3>1. QED
        BY <1>9, ReclippedIds
    <2> HIDE DEF new, lifted, to
    <2>2. /\ IsDocument(e) /\ e.locks = d.locks /\ TypedInverse(r.inverse)
          /\ Effects(d, e, Affected(d, op)) /\ SourceStays(d, op, e)
          /\ OneChanged(d, e, clip, new)
          /\ to \in DOMAIN d.tracks /\ IsDocument(lifted) /\ DOMAIN lifted.tracks = DOMAIN d.tracks
          /\ e = WithClips(lifted, to, s)
      <3>1. IsDocument(d) /\ IsOperation(op) /\ op.type = "clip.move" /\ Resolves(d, op) /\ r.ok
        BY <1>1
      <3>2. QED
        BY ONLY <1>0, <2>1, <3>1, MoveClipKeeps
    <2>3. /\ new.src = clip.src /\ new.look = clip.look
          /\ new.enabled = clip.enabled /\ new.range.dur = clip.range.dur /\ new.id = clip.id
      BY <1>9, <2>1, MovedClip
    <2> HIDE DEF s
    <2>4. TracksUnique(e)
      BY <2>2, <2>8, ReclippedIds
    <2>5. QED
      BY <1>1, <1>9, <2>2, <2>3, <2>4, FineStep DEF Effects
  <1>2. CASE op.type = "clip.trim"
    <2>1. r = TrimClip(d, op)
      BY <1>2 DEF ApplyOperation
    <2>2. /\ IsDocument(e) /\ e.locks = d.locks /\ TypedInverse(r.inverse)
          /\ Effects(d, e, Affected(d, op)) /\ SourceStays(d, op, e)
      BY <1>0, <1>2, <2>1, TrimClipKeeps
    <2>3. PICK new : /\ new.id = clip.id /\ OneChanged(d, e, clip, new) /\ new.look = clip.look
                     /\ new.enabled = clip.enabled
                     /\ e = WithClips(d, at.track, PutAt(d.tracks[at.track].clips, at.index, new))
      BY <1>0, <1>2, <2>1, TrimClipKeeps
    <2> DEFINE s == PutAt(d.tracks[at.track].clips, at.index, new)
    <2>4. TracksUnique(e)
      <3>1. e = WithClips(d, at.track, s)
        BY <2>3
      <3> HIDE DEF s
      <3>2. QED
        BY <1>9, <3>1, ReclippedIds
    <2>5. QED
      BY <1>2, <1>9, <2>2, <2>3, <2>4, FineStep DEF Effects
  <1>3. CASE op.type = "clip.update"
    <2> DEFINE new == Patched(clip, op.patch)
    <2>1. r = UpdateClip(d, op) /\ new = Patched(clip, op.patch)
      BY <1>3 DEF ApplyOperation
    <2> HIDE DEF new
    <2>2. /\ IsDocument(e) /\ e.locks = d.locks /\ TypedInverse(r.inverse)
          /\ Changes(d, e, Affected(d, op)) /\ SourceStays(d, op, e)
          /\ ~ Renames(op) => new.id = op.clipId /\ Effects(d, e, Affected(d, op))
          /\ OneChanged(d, e, clip, new)
          /\ e = WithClips(d, at.track, PutAt(d.tracks[at.track].clips, at.index, new))
      BY <1>0, <1>3, <2>1, UpdateClipKeeps
    <2> DEFINE s == PutAt(d.tracks[at.track].clips, at.index, new)
    <2>4. TracksUnique(e)
      <3>1. e = WithClips(d, at.track, s)
        BY <2>2
      <3> HIDE DEF s
      <3>2. QED
        BY <1>9, <3>1, ReclippedIds
    <2>5. QED
      BY <1>3, <1>9, <2>1, <2>2, <2>4, FineStep
  <1>4. QED
    BY <1>1, <1>2, <1>3

\* Every operation that resolves, and that no lock refuses, leaves a document of
\* the schema, keeps what locks protect and records operations of the schema.
LEMMA OperationStep ==
  ASSUME NEW d, IsDocument(d), TracksUnique(d), NEW op, IsOperation(op), Resolves(d, op),
         NEW actor, OperationUnlocked(d, actor, op), NEW r, r = ApplyOperation(d, op), r.ok
  PROVE  StepHolds(d, actor, op, r)
  <1>1. op.type \in OperationTypes
    BY DEF IsOperation
  <1>2. CASE op.type \in {"library.put", "library.remove"}
    BY <1>2, LibraryStep DEF OnLibrary
  <1>3. CASE op.type \in {"lock.add", "lock.remove"}
    BY <1>3, LockStep
  <1>4. CASE op.type \in {"track.add", "track.remove"}
    BY <1>4, TracksOperationStep
  <1>5. CASE op.type \in {"clip.insert", "clip.remove", "clip.split", "clip.replace", "range.deleteRipple"}
    BY <1>5, ClipOperationStep
  <1>6. CASE op.type \in {"clip.move", "clip.trim", "clip.update"}
    BY <1>6, ClipChangeStep
  <1>7. QED
    BY <1>1, <1>2, <1>3, <1>4, <1>5, <1>6 DEF OperationTypes

-----------------------------------------------------------------------------
(***************************************************************************)
(* Transactions.                                                           *)
(***************************************************************************)
\* What a transaction of operations of a set, applied to b, has reached.
RunHolds(b, actor, ops, result) ==
  /\ IsDocument(result.doc) /\ TracksUnique(result.doc) /\ TypedInverse(result.inverse)
  /\ Keeps(b, result.doc, actor, ops)

\* A transaction that has run no operation holds what every run must.
LEMMA RunBegins ==
  ASSUME NEW d, IsDocument(d), TracksUnique(d), NEW actor, NEW ops
  PROVE  Done(d, <<>>).ok /\ RunHolds(d, actor, ops, Done(d, <<>>))
  <1>1. Keeps(d, d, actor, ops)
    BY KeepsItself
  <1>2. QED
    BY <1>1, EmptyTyped DEF RunHolds, Done

\* One more operation keeps what every run must.
LEMMA RunContinues ==
  ASSUME NEW b, NEW actor, NEW ops, NEW result, result.ok => RunHolds(b, actor, ops, result),
         NEW op \in ops, IsOperation(op), NEW new, new = ApplyNext(result, actor, op), new.ok
  PROVE  RunHolds(b, actor, ops, new)
  <1> DEFINE d == result.doc
             one == ApplyOperation(d, op)
  <1>0. ~ Refused.ok
    BY DEF Refused
  <1>1. result.ok /\ Resolves(d, op) /\ OperationUnlocked(d, actor, op) /\ one.ok
    BY <1>0 DEF ApplyNext
  <1>2. new = Done(one.doc, one.inverse \o result.inverse)
    BY <1>1 DEF ApplyNext
  <1>3. RunHolds(b, actor, ops, result)
    BY <1>1
  <1> DEFINE inverse == one.inverse \o result.inverse
  <1>4. StepHolds(d, actor, op, one)
    <2>1. IsDocument(d) /\ TracksUnique(d) /\ one = ApplyOperation(d, op)
      BY <1>3 DEF RunHolds
    <2> HIDE DEF one, d
    <2>2. QED
      BY <1>1, <2>1, OperationStep
  <1> HIDE DEF one
  <1>5. TypedInverse(inverse)
    BY <1>3, <1>4, JoinedTyped DEF RunHolds, StepHolds
  <1>6. new.doc = one.doc /\ new.inverse = inverse
    <2> HIDE DEF inverse
    <2>1. new = Done(one.doc, inverse)
      BY <1>2 DEF inverse
    <2>2. QED
      BY <2>1 DEF Done
  <1>7. Keeps(b, one.doc, actor, ops)
    BY <1>3, <1>4, KeepsOn DEF RunHolds, StepHolds
  <1> HIDE DEF inverse
  <1>8. QED
    BY <1>4, <1>5, <1>6, <1>7 DEF RunHolds, StepHolds

\* All the operations of a transaction together.
LEMMA RunHoldsThroughout ==
  ASSUME NEW b, IsDocument(b), TracksUnique(b), NEW actor, NEW ops, TypedInverse(ops)
  PROVE  ApplyAll(b, actor, ops).ok => RunHolds(b, actor, ToSet(ops), ApplyAll(b, actor, ops))
  <1> DEFINE E == ToSet(ops)
             Bad == {s \in Seq(E) : ~ (ApplyAll(b, actor, s).ok => RunHolds(b, actor, E, ApplyAll(b, actor, s)))}
  <1>1. ops \in Seq(E) /\ \A op \in E : IsOperation(op)
    BY DEF TypedInverse, IsSequence
  <1> HIDE DEF E
  <1>2. ASSUME NEW s \in Seq(E), NEW e \in E
        PROVE  /\ ApplyAll(b, actor, <<>>) = Done(b, <<>>)
               /\ ApplyAll(b, actor, Append(s, e)) = ApplyNext(ApplyAll(b, actor, s), actor, e)
    BY ApplyAppend
  <1>3. <<>> \notin Bad
    <2>1. ASSUME E # {} PROVE ApplyAll(b, actor, <<>>) = Done(b, <<>>)
      <3>1. PICK e : e \in E
        BY <2>1
      <3>2. <<>> \in Seq(E)
        OBVIOUS
      <3>3. QED
        BY <1>2, <3>1, <3>2
    <2>2. ApplyAll(b, actor, <<>>) = Done(b, <<>>)
      <3>1. <<>> \in Seq({0}) /\ 0 \in {0}
        OBVIOUS
      <3>2. QED
        BY <3>1, ApplyAppend
    <2>3. QED
      BY <2>2, RunBegins
  <1>4. \A s \in Seq(E), e \in E : s \notin Bad => Append(s, e) \notin Bad
    <2> SUFFICES ASSUME NEW s \in Seq(E), NEW e \in E, s \notin Bad, ApplyAll(b, actor, Append(s, e)).ok
                 PROVE  RunHolds(b, actor, E, ApplyAll(b, actor, Append(s, e)))
      OBVIOUS
    <2> DEFINE result == ApplyAll(b, actor, s)
               new == ApplyAll(b, actor, Append(s, e))
    <2>1. new = ApplyNext(result, actor, e) /\ new.ok /\ IsOperation(e) /\ (result.ok => RunHolds(b, actor, E, result))
      BY <1>1, <1>2
    <2> HIDE DEF result, new
    <2>2. RunHolds(b, actor, E, new)
      BY <2>1, RunContinues
    <2>3. QED
      BY <2>2 DEF new
  <1>5. Bad \in SUBSET Seq(E)
    OBVIOUS
  <1>6. Bad = {}
    <2> HIDE DEF Bad
    <2>1. QED
      BY <1>3, <1>4, <1>5, SequenceInduction
  <1>7. QED
    BY <1>1, <1>6 DEF E

-----------------------------------------------------------------------------
(***************************************************************************)
(* In a document that validates every object has an id of its own.         *)
(***************************************************************************)
NoRepeat(clips) == \A i, j \in DOMAIN clips : clips[i].id = clips[j].id => i = j
NoRepeatIn(lists) ==
  \A s, t \in DOMAIN lists : \A i \in DOMAIN lists[s], j \in DOMAIN lists[t] :
    lists[s][i].id = lists[t][j].id => s = t /\ i = j

\* Lists of which none repeats an id when strung together repeat none.
LEMMA StrungTogether ==
  ASSUME NEW T, NEW Q \in Seq(Seq(T)), NoRepeat(FlattenSeq(Q))
  PROVE  NoRepeatIn(Q)
  <1> DEFINE L == Seq(T)
             Bad == {s \in Seq(L) : ~ (NoRepeat(FlattenSeq(s)) => NoRepeatIn(s))}
  <1>1. <<>> \notin Bad
    BY DEF NoRepeatIn
  <1>2. ASSUME NEW s \in Seq(L), NEW e \in L, s \notin Bad PROVE Append(s, e) \notin Bad
    <2> DEFINE u == Append(s, e)
               n == Len(s)
               F == FlattenSeq(s)
               G == FlattenSeq(u)
    <2>1. n \in Nat /\ Len(u) = n + 1 /\ DOMAIN u = 1 .. n + 1 /\ DOMAIN s = 1 .. n
          /\ u[n + 1] = e /\ \A k \in 1 .. n : u[k] = s[k]
      OBVIOUS
    <2> SUFFICES ASSUME NoRepeat(G) PROVE NoRepeatIn(u)
      OBVIOUS
    <2>2. G = IF s = <<>> THEN e ELSE F \o e
      BY FlattenAppend
    <2>3. F \in Seq(T) /\ ToSet(F) = UNION {ToSet(s[k]) : k \in 1 .. n} /\ (s = <<>> => F = <<>>)
      BY FlattenElements, FlattenAppend
    <2> HIDE DEF u, F, G
    <2>4. e \in Seq(T) /\ Len(e) \in Nat /\ DOMAIN e = 1 .. Len(e) /\ Len(F) \in Nat /\ DOMAIN F = 1 .. Len(F)
      BY <2>3
    <2>5. /\ DOMAIN G = 1 .. Len(F) + Len(e)
          /\ \A k \in 1 .. Len(F) : G[k] = F[k]
          /\ \A k \in 1 .. Len(e) : G[Len(F) + k] = e[k]
      <3>1. CASE s = <<>>
        <4>1. F = <<>> /\ Len(F) = 0
          BY <2>3, <3>1
        <4>2. G = e
          BY <2>2, <3>1
        <4>3. QED
          BY <2>4, <4>1, <4>2
      <3>2. CASE s # <<>>
        <4>1. G = F \o e
          BY <2>2, <3>2
        <4>2. QED
          BY <2>3, <2>4, <4>1
      <3>3. QED
        BY <3>1, <3>2
    <2>6. NoRepeat(F)
      <3>1. ASSUME NEW i \in DOMAIN F, NEW j \in DOMAIN F, F[i].id = F[j].id PROVE i = j
        <4>1. i \in DOMAIN G /\ j \in DOMAIN G /\ G[i] = F[i] /\ G[j] = F[j]
          BY <2>4, <2>5
        <4>2. QED
          BY <3>1, <4>1 DEF NoRepeat
      <3>2. QED
        BY <3>1 DEF NoRepeat
    <2>7. NoRepeat(e)
      <3>1. ASSUME NEW i \in DOMAIN e, NEW j \in DOMAIN e, e[i].id = e[j].id PROVE i = j
        <4>1. /\ Len(F) + i \in DOMAIN G /\ Len(F) + j \in DOMAIN G
              /\ G[Len(F) + i] = e[i] /\ G[Len(F) + j] = e[j]
          BY <2>4, <2>5
        <4>2. Len(F) + i = Len(F) + j
          BY <3>1, <4>1 DEF NoRepeat
        <4>3. QED
          BY <2>4, <4>2
      <3>2. QED
        BY <3>1 DEF NoRepeat
    <2>8. NoRepeatIn(s)
      BY <1>2, <2>6 DEF F
    <2>9. ASSUME NEW t \in 1 .. n, NEW i \in DOMAIN s[t], NEW j \in DOMAIN e PROVE s[t][i].id # e[j].id
      <3>0. s[t][i] \in ToSet(s[t])
        BY DEF ToSet
      <3>1. s[t][i] \in ToSet(F)
        BY <2>3, <3>0
      <3>2. PICK k \in DOMAIN F : F[k] = s[t][i]
        BY <3>1 DEF ToSet
      <3>3. k \in DOMAIN G /\ Len(F) + j \in DOMAIN G /\ G[k] = s[t][i] /\ G[Len(F) + j] = e[j] /\ k # Len(F) + j
        BY <2>4, <2>5, <3>2
      <3>4. QED
        BY <3>3 DEF NoRepeat
    <2>10. ASSUME NEW a \in DOMAIN u, NEW b \in DOMAIN u, NEW i \in DOMAIN u[a], NEW j \in DOMAIN u[b],
                  u[a][i].id = u[b][j].id
           PROVE  a = b /\ i = j
      <3>1. CASE a \in 1 .. n /\ b \in 1 .. n
        BY <2>1, <2>8, <2>10, <3>1 DEF NoRepeatIn
      <3>2. CASE a = n + 1 /\ b = n + 1
        <4>1. u[a] = e /\ u[b] = e
          BY <2>1, <3>2
        <4>2. QED
          BY <2>7, <2>10, <3>2, <4>1 DEF NoRepeat
      <3>3. CASE a \in 1 .. n /\ b = n + 1
        <4>1. u[a] = s[a] /\ u[b] = e
          BY <2>1, <3>3
        <4>2. QED
          BY <2>9, <2>10, <3>3, <4>1
      <3>4. CASE a = n + 1 /\ b \in 1 .. n
        <4>1. u[a] = e /\ u[b] = s[b]
          BY <2>1, <3>4
        <4>2. QED
          BY <2>9, <2>10, <3>4, <4>1
      <3>5. QED
        BY <2>1, <3>1, <3>2, <3>3, <3>4
    <2>11. QED
      BY <2>10 DEF NoRepeatIn
  <1>3. Bad \in SUBSET Seq(L)
    OBVIOUS
  <1>4. Bad = {}
    <2> HIDE DEF Bad, L
    <2>1. QED
      BY <1>1, <1>2, <1>3, SequenceInduction
  <1>5. QED
    BY <1>4

\* The clips of all tracks, in order.
ClipLists(d) == [t \in DOMAIN d.tracks |-> d.tracks[t].clips]
AllClips(d) == FlattenSeq(ClipLists(d))

\* The clips of all tracks, counted together.
LEMMA AllClipsFacts ==
  ASSUME NEW d, IsDocument(d)
  PROVE  /\ ClipLists(d) \in Seq(Seq(ClipsOf(d))) /\ IsSequence(AllClips(d))
         /\ ToSet(AllClips(d)) = ClipsOf(d)
  <1> DEFINE Q == ClipLists(d)
             C == ClipsOf(d)
             n == Len(d.tracks)
  <1>1. DOMAIN d.tracks = 1 .. n /\ n \in Nat /\ \A t \in 1 .. n : IsSequence(d.tracks[t].clips)
    BY DocumentFacts
  <1>2. \A t \in 1 .. n : ToSet(d.tracks[t].clips) \subseteq C
    BY <1>1, ClipIsOnTrack
  <1> HIDE DEF C, n
  <1>3. \A t \in 1 .. n : d.tracks[t].clips \in Seq(C)
    BY <1>1, <1>2, SequencesGrow
  <1>4. Q = [t \in 1 .. n |-> d.tracks[t].clips]
    BY <1>1 DEF ClipLists
  <1>5. Q \in Seq(Seq(C)) /\ Len(Q) = n /\ \A t \in 1 .. n : Q[t] = d.tracks[t].clips
    BY <1>1, <1>3, <1>4
  <1> HIDE DEF Q
  <1>6. FlattenSeq(Q) \in Seq(C) /\ ToSet(FlattenSeq(Q)) = UNION {ToSet(Q[t]) : t \in 1 .. Len(Q)}
    BY <1>5, FlattenElements
  <1>7. ToSet(FlattenSeq(Q)) = C
    <2>1. ASSUME NEW c \in C PROVE c \in ToSet(FlattenSeq(Q))
      <3>1. PICK t \in DOMAIN d.tracks : c \in ToSet(d.tracks[t].clips)
        BY ClipsStand DEF C
      <3>2. QED
        BY <1>1, <1>5, <1>6, <3>1
    <2>2. ASSUME NEW c \in ToSet(FlattenSeq(Q)) PROVE c \in C
      BY <1>2, <1>5, <1>6
    <2>3. QED
      BY <2>1, <2>2
  <1>8. IsSequence(FlattenSeq(Q))
    BY <1>6, SequenceOfElements
  <1>9. QED
    BY <1>5, <1>7, <1>8 DEF Q, C, AllClips

ObjectCount(d) == Len(d.tracks) + Len(AllClips(d)) + Len(d.locks) + Len(d.assets) + Len(d.artifacts)

\* As many ids as objects, kind by kind.
LEMMA DistinctCounts ==
  ASSUME NEW d, DistinctIds(d)
  PROVE  Cardinality(ObjectIds(d)) = ObjectCount(d)
  BY DEF DistinctIds, ObjectCount, AllClips, ClipLists

\* As many ids as objects: no id is given twice.
Numbering(n1, n2, n3, n4, n5, a, b, c, e, f, T) ==
  /\ n1 \in Nat /\ n2 \in Nat /\ n3 \in Nat /\ n4 \in Nat /\ n5 \in Nat
  /\ Cardinality(T) = n1 + n2 + n3 + n4 + n5
  /\ \A i \in 1 .. n1 : a[i] \in T
  /\ \A i \in 1 .. n2 : b[i] \in T
  /\ \A i \in 1 .. n3 : c[i] \in T
  /\ \A i \in 1 .. n4 : e[i] \in T
  /\ \A i \in 1 .. n5 : f[i] \in T
  /\ \A x \in T : \/ \E i \in 1 .. n1 : a[i] = x
                  \/ \E i \in 1 .. n2 : b[i] = x
                  \/ \E i \in 1 .. n3 : c[i] = x
                  \/ \E i \in 1 .. n4 : e[i] = x
                  \/ \E i \in 1 .. n5 : f[i] = x

\* Where ids are as many as objects, no id is used twice.
LEMMA CountedOnce ==
  ASSUME NEW n1, NEW n2, NEW n3, NEW n4, NEW n5, NEW a, NEW b, NEW c, NEW e, NEW f, NEW T,
         Numbering(n1, n2, n3, n4, n5, a, b, c, e, f, T)
  PROVE  /\ \A i, j \in 1 .. n1 : a[i] = a[j] => i = j
         /\ \A i, j \in 1 .. n2 : b[i] = b[j] => i = j
         /\ \A i, j \in 1 .. n3 : c[i] = c[j] => i = j
         /\ \A i \in 1 .. n1 : \A j \in 1 .. n2 : a[i] # b[j]
         /\ \A i \in 1 .. n1 : \A j \in 1 .. n3 : a[i] # c[j]
         /\ \A i \in 1 .. n2 : \A j \in 1 .. n3 : b[i] # c[j]
         /\ \A i, j \in 1 .. n4 : e[i] = e[j] => i = j
         /\ \A i, j \in 1 .. n5 : f[i] = f[j] => i = j
         /\ \A i \in 1 .. n1 : (\A j \in 1 .. n4 : a[i] # e[j]) /\ (\A j \in 1 .. n5 : a[i] # f[j])
         /\ \A i \in 1 .. n2 : (\A j \in 1 .. n4 : b[i] # e[j]) /\ (\A j \in 1 .. n5 : b[i] # f[j])
         /\ \A i \in 1 .. n3 : (\A j \in 1 .. n4 : c[i] # e[j]) /\ (\A j \in 1 .. n5 : c[i] # f[j])
         /\ \A i \in 1 .. n4 : \A j \in 1 .. n5 : e[i] # f[j]
  <1> USE DEF Numbering
  <1> DEFINE n == n1 + n2 + n3 + n4 + n5
             g == [i \in 1 .. n |-> IF i <= n1 THEN a[i]
                                    ELSE IF i <= n1 + n2 THEN b[i - n1]
                                    ELSE IF i <= n1 + n2 + n3 THEN c[i - n1 - n2]
                                    ELSE IF i <= n1 + n2 + n3 + n4 THEN e[i - n1 - n2 - n3]
                                    ELSE f[i - n1 - n2 - n3 - n4]]
  <1>1. n \in Nat
    OBVIOUS
  <1>2. /\ \A i \in 1 .. n1 : i \in 1 .. n /\ g[i] = a[i]
        /\ \A i \in 1 .. n2 : n1 + i \in 1 .. n /\ g[n1 + i] = b[i]
        /\ \A i \in 1 .. n3 : n1 + n2 + i \in 1 .. n /\ g[n1 + n2 + i] = c[i]
        /\ \A i \in 1 .. n4 : n1 + n2 + n3 + i \in 1 .. n /\ g[n1 + n2 + n3 + i] = e[i]
        /\ \A i \in 1 .. n5 : n1 + n2 + n3 + n4 + i \in 1 .. n /\ g[n1 + n2 + n3 + n4 + i] = f[i]
    <2>1. \A i \in 1 .. n1 : i \in 1 .. n /\ g[i] = a[i]
      OBVIOUS
    <2>2. \A i \in 1 .. n2 : n1 + i \in 1 .. n /\ g[n1 + i] = b[i]
      OBVIOUS
    <2>3. \A i \in 1 .. n3 : n1 + n2 + i \in 1 .. n /\ g[n1 + n2 + i] = c[i]
      OBVIOUS
    <2>4. \A i \in 1 .. n4 : n1 + n2 + n3 + i \in 1 .. n /\ g[n1 + n2 + n3 + i] = e[i]
      OBVIOUS
    <2>5. \A i \in 1 .. n5 : n1 + n2 + n3 + n4 + i \in 1 .. n /\ g[n1 + n2 + n3 + n4 + i] = f[i]
      OBVIOUS
    <2>6. QED
      BY <2>1, <2>2, <2>3, <2>4, <2>5
  <1>3. \A i \in 1 .. n : g[i] \in T
    <2>1. TAKE i \in 1 .. n
    <2>2. CASE i <= n1
      BY <2>2
    <2>3. CASE i > n1 /\ i <= n1 + n2
      BY <2>3
    <2>4. CASE i > n1 + n2 /\ i <= n1 + n2 + n3
      BY <2>4
    <2>5. CASE i > n1 + n2 + n3 /\ i <= n1 + n2 + n3 + n4
      BY <2>5
    <2>6. CASE i > n1 + n2 + n3 + n4
      BY <2>6
    <2>7. QED
      BY <2>2, <2>3, <2>4, <2>5, <2>6
  <1>4. g \in [1 .. n -> T]
    BY <1>3
  <1> HIDE DEF g
  <1>5. \A x \in T : \E i \in 1 .. n : g[i] = x
    <2> HIDE DEF n
    <2>1. TAKE x \in T
    <2>2. CASE \E i \in 1 .. n1 : a[i] = x
      BY <1>2, <2>2
    <2>3. CASE \E i \in 1 .. n2 : b[i] = x
      BY <1>2, <2>3
    <2>4. CASE \E i \in 1 .. n3 : c[i] = x
      BY <1>2, <2>4
    <2>5. CASE \E i \in 1 .. n4 : e[i] = x
      BY <1>2, <2>5
    <2>6. CASE \E i \in 1 .. n5 : f[i] = x
      BY <1>2, <2>6
    <2>7. QED
      BY <2>2, <2>3, <2>4, <2>5, <2>6
  <1>6. g \in Surjection(1 .. n, T)
    BY <1>4, <1>5 DEF Surjection
  <1>7. IsFiniteSet(1 .. n) /\ Cardinality(1 .. n) = n
    <2> HIDE DEF n
    <2>1. 1 \in Int /\ n \in Int
      BY <1>1
    <2>2. IsFiniteSet(1 .. n) /\ Cardinality(1 .. n) = IF 1 > n THEN 0 ELSE n - 1 + 1
      BY ONLY <2>1, FS_Interval
    <2>3. QED
      BY <1>1, <2>2
  <1>8. Cardinality(1 .. n) = Cardinality(T)
    BY <1>7
  <1>9. \A i, j \in 1 .. n : g[i] = g[j] => i = j
    <2> HIDE DEF n
    <2>1. g \in Injection(1 .. n, T)
      BY ONLY <1>6, <1>7, <1>8, FS_SurjSameCardinalityImpliesInj
    <2>2. QED
      BY <1>4, <2>1 DEF Injection, IsInjective
  <1> HIDE DEF n
  <1>10. \A i, j \in 1 .. n1 : a[i] = a[j] => i = j
    BY <1>2, <1>9
  <1>11. ASSUME NEW i \in 1 .. n2, NEW j \in 1 .. n2, b[i] = b[j] PROVE i = j
    <2>1. n1 + i = n1 + j
      BY <1>2, <1>9, <1>11
    <2>2. QED
      BY <2>1
  <1>12. ASSUME NEW i \in 1 .. n3, NEW j \in 1 .. n3, c[i] = c[j] PROVE i = j
    <2>1. n1 + n2 + i = n1 + n2 + j
      BY <1>2, <1>9, <1>12
    <2>2. QED
      BY <2>1
  <1>13. ASSUME NEW i \in 1 .. n1, NEW j \in 1 .. n2, a[i] = b[j] PROVE FALSE
    <2>1. i = n1 + j
      BY <1>2, <1>9, <1>13
    <2>2. QED
      BY <2>1
  <1>14. ASSUME NEW i \in 1 .. n1, NEW j \in 1 .. n3, a[i] = c[j] PROVE FALSE
    <2>1. i = n1 + n2 + j
      BY <1>2, <1>9, <1>14
    <2>2. QED
      BY <2>1
  <1>15. ASSUME NEW i \in 1 .. n2, NEW j \in 1 .. n3, b[i] = c[j] PROVE FALSE
    <2>1. n1 + i = n1 + n2 + j
      BY <1>2, <1>9, <1>15
    <2>2. QED
      BY <2>1
  <1>16. ASSUME NEW i \in 1 .. n4, NEW j \in 1 .. n4, e[i] = e[j] PROVE i = j
    <2>1. n1 + n2 + n3 + i = n1 + n2 + n3 + j
      BY <1>2, <1>9, <1>16
    <2>2. QED
      BY <2>1
  <1>17. ASSUME NEW i \in 1 .. n5, NEW j \in 1 .. n5, f[i] = f[j] PROVE i = j
    <2>1. n1 + n2 + n3 + n4 + i = n1 + n2 + n3 + n4 + j
      BY <1>2, <1>9, <1>17
    <2>2. QED
      BY <2>1
  <1>18. ASSUME NEW i \in 1 .. n1, NEW j \in 1 .. n4, a[i] = e[j] PROVE FALSE
    <2>1. i = n1 + n2 + n3 + j
      BY <1>2, <1>9, <1>18
    <2>2. QED
      BY <2>1
  <1>19. ASSUME NEW i \in 1 .. n1, NEW j \in 1 .. n5, a[i] = f[j] PROVE FALSE
    <2>1. i = n1 + n2 + n3 + n4 + j
      BY <1>2, <1>9, <1>19
    <2>2. QED
      BY <2>1
  <1>20. ASSUME NEW i \in 1 .. n2, NEW j \in 1 .. n4, b[i] = e[j] PROVE FALSE
    <2>1. n1 + i = n1 + n2 + n3 + j
      BY <1>2, <1>9, <1>20
    <2>2. QED
      BY <2>1
  <1>21. ASSUME NEW i \in 1 .. n2, NEW j \in 1 .. n5, b[i] = f[j] PROVE FALSE
    <2>1. n1 + i = n1 + n2 + n3 + n4 + j
      BY <1>2, <1>9, <1>21
    <2>2. QED
      BY <2>1
  <1>22. ASSUME NEW i \in 1 .. n3, NEW j \in 1 .. n4, c[i] = e[j] PROVE FALSE
    <2>1. n1 + n2 + i = n1 + n2 + n3 + j
      BY <1>2, <1>9, <1>22
    <2>2. QED
      BY <2>1
  <1>23. ASSUME NEW i \in 1 .. n3, NEW j \in 1 .. n5, c[i] = f[j] PROVE FALSE
    <2>1. n1 + n2 + i = n1 + n2 + n3 + n4 + j
      BY <1>2, <1>9, <1>23
    <2>2. QED
      BY <2>1
  <1>24. ASSUME NEW i \in 1 .. n4, NEW j \in 1 .. n5, e[i] = f[j] PROVE FALSE
    <2>1. n1 + n2 + n3 + i = n1 + n2 + n3 + n4 + j
      BY <1>2, <1>9, <1>24
    <2>2. QED
      BY <2>1
  <1>25. QED
    BY <1>10, <1>11, <1>12, <1>13, <1>14, <1>15, <1>16, <1>17, <1>18, <1>19, <1>20, <1>21, <1>22, <1>23, <1>24

\* No id is shared by objects of two kinds, or by two objects of a library list.
IdsApart(d) ==
  /\ TrackIds(d) \cap ClipIds(d) = {} /\ TrackIds(d) \cap LockIds(d) = {} /\ ClipIds(d) \cap LockIds(d) = {}
  /\ SequenceIds(d) \cap (ToSet(d.assets) \cup ToSet(d.artifacts)) = {}
  /\ ToSet(d.assets) \cap ToSet(d.artifacts) = {}
  /\ \A list \in {"assets", "artifacts"} : \A i, j \in DOMAIN d[list] : d[list][i] = d[list][j] => i = j

\* When there are as many ids as objects, no two objects have the same.
LEMMA DistinctAreUnique ==
  ASSUME NEW d, IsDocument(d), DistinctIds(d)
  PROVE  IdsUnique(d) /\ TracksUnique(d) /\ IdsApart(d)
  <1> DEFINE clips == AllClips(d)
             n1 == Len(d.tracks)
             n2 == Len(clips)
             n3 == Len(d.locks)
             n4 == Len(d.assets)
             n5 == Len(d.artifacts)
             a == [i \in 1 .. n1 |-> d.tracks[i].id]
             b == [i \in 1 .. n2 |-> clips[i].id]
             c == [i \in 1 .. n3 |-> d.locks[i].id]
             T == ObjectIds(d)
  <1>1. IsSequence(d.tracks) /\ IsSequence(clips) /\ IsSequence(d.locks) /\ IsSequence(d.assets) /\ IsSequence(d.artifacts)
    BY DocumentFacts, AllClipsFacts
  <1>2. ToSet(clips) = ClipsOf(d) /\ ClipLists(d) \in Seq(Seq(ClipsOf(d)))
    BY AllClipsFacts
  <1> HIDE DEF clips
  <1>3. /\ n1 \in Nat /\ n2 \in Nat /\ n3 \in Nat /\ n4 \in Nat /\ n5 \in Nat
        /\ DOMAIN d.tracks = 1 .. n1 /\ DOMAIN clips = 1 .. n2 /\ DOMAIN d.locks = 1 .. n3
        /\ DOMAIN d.assets = 1 .. n4 /\ DOMAIN d.artifacts = 1 .. n5
    BY <1>1, SequenceFacts
  <1>4. Cardinality(T) = n1 + n2 + n3 + n4 + n5
    BY <1>2, DistinctCounts DEF ObjectCount, clips
  <1>5. T = TrackIds(d) \cup ClipIds(d) \cup LockIds(d) \cup ToSet(d.assets) \cup ToSet(d.artifacts)
    BY DEF ObjectIds, SequenceIds, AssetIds
  <1>6. /\ TrackIds(d) = {a[i] : i \in 1 .. n1} /\ ClipIds(d) = {b[i] : i \in 1 .. n2}
        /\ LockIds(d) = {c[i] : i \in 1 .. n3}
    <2>1. TrackIds(d) = {d.tracks[i].id : i \in 1 .. n1}
      BY <1>3 DEF TrackIds, ToSet
    <2>2. LockIds(d) = {d.locks[i].id : i \in 1 .. n3}
      BY <1>3 DEF LockIds, ToSet
    <2>3. ClipIds(d) = {clips[i].id : i \in 1 .. n2}
      <3>1. ToSet(clips) = {clips[i] : i \in 1 .. n2}
        BY <1>3 DEF ToSet
      <3>2. ClipIds(d) = {clip.id : clip \in ToSet(clips)}
        BY <1>2 DEF ClipIds
      <3>3. QED
        BY <3>1, <3>2
    <2>4. QED
      BY <2>1, <2>2, <2>3
  <1>7. ToSet(d.assets) = {d.assets[i] : i \in 1 .. n4} /\ ToSet(d.artifacts) = {d.artifacts[i] : i \in 1 .. n5}
    BY <1>3 DEF ToSet
  <1>8. /\ \A i, j \in 1 .. n1 : a[i] = a[j] => i = j
        /\ \A i, j \in 1 .. n2 : b[i] = b[j] => i = j
        /\ \A i, j \in 1 .. n3 : c[i] = c[j] => i = j
        /\ \A i \in 1 .. n1 : \A j \in 1 .. n2 : a[i] # b[j]
        /\ \A i \in 1 .. n1 : \A j \in 1 .. n3 : a[i] # c[j]
        /\ \A i \in 1 .. n2 : \A j \in 1 .. n3 : b[i] # c[j]
        /\ \A i, j \in 1 .. n4 : d.assets[i] = d.assets[j] => i = j
        /\ \A i, j \in 1 .. n5 : d.artifacts[i] = d.artifacts[j] => i = j
        /\ \A i \in 1 .. n1 : (\A j \in 1 .. n4 : a[i] # d.assets[j]) /\ (\A j \in 1 .. n5 : a[i] # d.artifacts[j])
        /\ \A i \in 1 .. n2 : (\A j \in 1 .. n4 : b[i] # d.assets[j]) /\ (\A j \in 1 .. n5 : b[i] # d.artifacts[j])
        /\ \A i \in 1 .. n3 : (\A j \in 1 .. n4 : c[i] # d.assets[j]) /\ (\A j \in 1 .. n5 : c[i] # d.artifacts[j])
        /\ \A i \in 1 .. n4 : \A j \in 1 .. n5 : d.assets[i] # d.artifacts[j]
    <2> DEFINE e == d.assets
               f == d.artifacts
    <2>1. /\ \A i \in 1 .. n1 : a[i] \in T
          /\ \A i \in 1 .. n2 : b[i] \in T
          /\ \A i \in 1 .. n3 : c[i] \in T
          /\ \A i \in 1 .. n4 : e[i] \in T
          /\ \A i \in 1 .. n5 : f[i] \in T
      <3> HIDE DEF a, b, c, n1, n2, n3, n4, n5, T
      <3>1. QED
        BY <1>5, <1>6, <1>7
    <2>2. \A x \in T : \/ \E i \in 1 .. n1 : a[i] = x
                       \/ \E i \in 1 .. n2 : b[i] = x
                       \/ \E i \in 1 .. n3 : c[i] = x
                       \/ \E i \in 1 .. n4 : e[i] = x
                       \/ \E i \in 1 .. n5 : f[i] = x
      <3> HIDE DEF a, b, c, n1, n2, n3, n4, n5, T
      <3>1. TAKE x \in T
      <3>2. CASE x \in TrackIds(d)
        BY <1>6, <3>2
      <3>3. CASE x \in ClipIds(d)
        BY <1>6, <3>3
      <3>4. CASE x \in LockIds(d)
        BY <1>6, <3>4
      <3>5. CASE x \in ToSet(d.assets)
        BY <1>7, <3>5
      <3>6. CASE x \in ToSet(d.artifacts)
        BY <1>7, <3>6
      <3>7. QED
        BY <1>5, <3>2, <3>3, <3>4, <3>5, <3>6
    <2> HIDE DEF a, b, c, e, f, n1, n2, n3, n4, n5, T
    <2>3. Numbering(n1, n2, n3, n4, n5, a, b, c, e, f, T)
      BY ONLY <1>3, <1>4, <2>1, <2>2 DEF Numbering
    <2>4. QED
      BY ONLY <2>3, CountedOnce DEF e, f
  <1>9. TracksUnique(d)
    <2>1. \A i \in 1 .. n1 : a[i] = d.tracks[i].id
      OBVIOUS
    <2> HIDE DEF a
    <2>2. QED
      BY <1>3, <1>8, <2>1 DEF TracksUnique
  <1>10. \A i, j \in DOMAIN d.locks : d.locks[i].id = d.locks[j].id => i = j
    <2>1. \A i \in 1 .. n3 : c[i] = d.locks[i].id
      OBVIOUS
    <2> HIDE DEF c
    <2>2. QED
      BY <1>3, <1>8, <2>1
  <1>11. NoRepeatIn(ClipLists(d))
    <2>1. \A i \in 1 .. n2 : b[i] = clips[i].id
      OBVIOUS
    <2> HIDE DEF b
    <2>2. NoRepeat(clips)
      BY <1>3, <1>8, <2>1 DEF NoRepeat
    <2>3. NoRepeat(FlattenSeq(ClipLists(d)))
      BY <2>2 DEF clips, AllClips
    <2>4. QED
      BY <1>2, <2>3, StrungTogether
  <1>12. \A s, t \in DOMAIN d.tracks : \A i \in DOMAIN d.tracks[s].clips, j \in DOMAIN d.tracks[t].clips :
           d.tracks[s].clips[i].id = d.tracks[t].clips[j].id => s = t /\ i = j
    <2>1. DOMAIN ClipLists(d) = DOMAIN d.tracks /\ \A t \in DOMAIN d.tracks : ClipLists(d)[t] = d.tracks[t].clips
      BY DEF ClipLists
    <2>2. QED
      BY <1>11, <2>1 DEF NoRepeatIn
  <1>13. IdsApart(d)
    <2> HIDE DEF a, b, c, n1, n2, n3, n4, n5, T
    <2>1. /\ TrackIds(d) \cap ClipIds(d) = {} /\ TrackIds(d) \cap LockIds(d) = {}
          /\ ClipIds(d) \cap LockIds(d) = {} /\ ToSet(d.assets) \cap ToSet(d.artifacts) = {}
      BY <1>6, <1>7, <1>8
    <2>2. /\ TrackIds(d) \cap ToSet(d.assets) = {} /\ TrackIds(d) \cap ToSet(d.artifacts) = {}
          /\ ClipIds(d) \cap ToSet(d.assets) = {} /\ ClipIds(d) \cap ToSet(d.artifacts) = {}
          /\ LockIds(d) \cap ToSet(d.assets) = {} /\ LockIds(d) \cap ToSet(d.artifacts) = {}
      BY <1>6, <1>7, <1>8
    <2>3. SequenceIds(d) \cap (ToSet(d.assets) \cup ToSet(d.artifacts)) = {}
      BY <2>2 DEF SequenceIds
    <2>4. \A i, j \in DOMAIN d["assets"] : d["assets"][i] = d["assets"][j] => i = j
      BY <1>3, <1>8
    <2>5. \A i, j \in DOMAIN d["artifacts"] : d["artifacts"][i] = d["artifacts"][j] => i = j
      BY <1>3, <1>8
    <2>6. QED
      BY <2>1, <2>3, <2>4, <2>5 DEF IdsApart
  <1>14. QED
    BY <1>9, <1>10, <1>12, <1>13 DEF IdsUnique, TracksUnique

\* A valid document has distinct ids, of tracks, clips, locks and library objects.
LEMMA ValidUnique ==
  ASSUME NEW d, IsDocument(d), ValidDocument(d)
  PROVE  IdsUnique(d) /\ TracksUnique(d) /\ IdsApart(d) /\ \A clip \in ClipsOf(d) : clip.range.dur > 0
  BY DistinctAreUnique DEF ValidDocument
=============================================================================
