----------------------------- MODULE AlphaProofs -----------------------------
(***************************************************************************)
(* Theorems about the way of a project into the Alpha gate: the trial that *)
(* leaves its evidence (AlphaTrial), for any sessions, baselines, labels,  *)
(* clock and limits, and the registration of what was proved               *)
(* (AlphaCollect), for any processes, projects, cohorts and gate limits.   *)
(***************************************************************************)
EXTENDS AlphaTrial, AlphaCollect, TLAPS, NaturalsInduction, WellFoundedInduction

-----------------------------------------------------------------------------
(***************************************************************************)
(* Induction, of which the provers know only the form with a set: a set    *)
(* of numbers has a least one, and a set of sequences a shortest.          *)
(***************************************************************************)
\* A set of natural numbers has a least one.
LEMMA LeastNumber ==
  ASSUME NEW T \in SUBSET Nat, T # {}
  PROVE  \E n \in T : \A m \in T : n <= m
  <1> DEFINE R == {ss \in Nat \X Nat : ss[1] < ss[2]}
  <1>1. IsWellFoundedOn(OpToRel(<, Nat), Nat)
    BY NatLessThanWellFounded
  <1>2. OpToRel(<, Nat) = R
    BY DEF OpToRel
  <1>3. IsWellFoundedOn(R, Nat)
    BY <1>1, <1>2
  <1>4. \A m, n \in Nat : <<m, n>> \in R <=> m < n
    OBVIOUS
  <1> HIDE DEF R
  <1>5. PICK n \in T : \A m \in T : ~ (<<m, n>> \in R)
    BY <1>3, WFMin
  <1>6. ASSUME NEW m \in T PROVE n <= m
    <2>1. m \in Nat /\ n \in Nat
      OBVIOUS
    <2>2. ~ (m < n)
      BY <1>4, <1>5, <2>1
    <2>3. QED
      BY <2>1, <2>2
  <1>7. QED
    BY <1>6

\* What holds of the empty sequence, and of a sequence with one more element if
\* it holds of the sequence, holds of all: no sequence is bad.
LEMMA SequenceInduction ==
  ASSUME NEW E, NEW Bad \in SUBSET Seq(E), <<>> \notin Bad,
         \A s \in Seq(E), e \in E : s \notin Bad => Append(s, e) \notin Bad
  PROVE  Bad = {}
  <1> SUFFICES ASSUME Bad # {} PROVE FALSE
    OBVIOUS
  <1> DEFINE T == {Len(s) : s \in Bad}
  <1>1. T \in SUBSET Nat /\ T # {}
    <2>1. \A s \in Bad : s \in Seq(E) /\ Len(s) \in Nat
      OBVIOUS
    <2>2. QED
      BY <2>1
  <1>2. PICK n \in T : \A m \in T : n <= m
    BY <1>1, LeastNumber
  <1>3. PICK s \in Bad : Len(s) = n
    OBVIOUS
  <1>4. s \in Seq(E) /\ s # <<>> /\ n \in Nat \ {0}
    BY <1>3
  <1> DEFINE front == SubSeq(s, 1, n - 1)
  <1>5. front \in Seq(E) /\ Len(front) = n - 1 /\ s[n] \in E /\ s = Append(front, s[n])
    BY <1>3, <1>4
  <1>6. front \notin Bad
    <2>1. SUFFICES ASSUME front \in Bad PROVE FALSE
      OBVIOUS
    <2>2. n - 1 \in T
      BY <1>5, <2>1
    <2>3. QED
      BY <1>2, <1>4, <2>2
  <1>7. QED
    BY <1>3, <1>5, <1>6

-----------------------------------------------------------------------------
(***************************************************************************)
(* The three loops over events, deriveTiming's, the bundle's and the one   *)
(* that chooses: each has its next turn for one more event.                *)
(***************************************************************************)
\* The loop of deriveTiming over a sequence is a function, and the only one.
DeriveRun(t, s, f) == f = [i \in 0 .. Len(s) |-> IF i = 0 THEN t ELSE OnTiming(f[i - 1], s[i])]

LEMMA DeriveRuns ==
  ASSUME NEW E, NEW t, NEW s \in Seq(E)
  PROVE  /\ \E f : DeriveRun(t, s, f)
         /\ \A f, g : DeriveRun(t, s, f) /\ DeriveRun(t, s, g) => f = g
  <1> DEFINE Bad == {u \in Seq(E) : ~ \E f : DeriveRun(t, u, f)}
  <1>1. <<>> \notin Bad
    <2>1. DeriveRun(t, <<>>, [i \in 0 .. 0 |-> t])
      BY DEF DeriveRun
    <2>2. QED
      BY <2>1
  <1>2. ASSUME NEW u \in Seq(E), NEW e \in E, u \notin Bad
        PROVE  Append(u, e) \notin Bad
    <2> DEFINE n == Len(u)
               v == Append(u, e)
    <2>1. PICK f : DeriveRun(t, u, f)
      BY <1>2
    <2> DEFINE g == [i \in 0 .. n + 1 |-> IF i = n + 1 THEN OnTiming(f[n], e) ELSE f[i]]
    <2>2. n \in Nat /\ Len(v) = n + 1 /\ v[n + 1] = e /\ \A i \in 1 .. n : v[i] = u[i]
      OBVIOUS
    <2> HIDE DEF n, v
    <2>3. f = [i \in 0 .. n |-> IF i = 0 THEN t ELSE OnTiming(f[i - 1], u[i])]
      BY <2>1 DEF DeriveRun, n
    <2>4. ASSUME NEW i \in 0 .. n + 1 PROVE g[i] = IF i = 0 THEN t ELSE OnTiming(g[i - 1], v[i])
      <3>1. CASE i = 0
        BY <2>2, <2>3, <3>1
      <3>2. CASE i = n + 1
        BY <2>2, <3>2
      <3>3. CASE i \in 1 .. n
        <4>1. f[i] = OnTiming(f[i - 1], u[i])
          <5>1. i \in 0 .. n /\ i # 0
            BY <2>2, <3>3
          <5>2. QED
            BY <2>3, <5>1
        <4>2. g[i] = f[i] /\ g[i - 1] = f[i - 1] /\ v[i] = u[i]
          BY <2>2, <3>3
        <4>3. QED
          BY <2>2, <3>3, <4>1, <4>2
      <3>4. QED
        BY <2>2, <3>1, <3>2, <3>3
    <2>5. DeriveRun(t, v, g)
      <3>1. g = [i \in 0 .. n + 1 |-> IF i = 0 THEN t ELSE OnTiming(g[i - 1], v[i])]
        <4>1. g = [i \in 0 .. n + 1 |-> g[i]]
          OBVIOUS
        <4> HIDE DEF g
        <4>2. QED
          BY <2>4, <4>1
      <3> HIDE DEF g
      <3>2. QED
        BY <2>2, <3>1 DEF DeriveRun
    <2>6. QED
      BY <2>5 DEF v
  <1>3. Bad = {}
    <2> HIDE DEF Bad
    <2>1. Bad \in SUBSET Seq(E)
      BY DEF Bad
    <2>2. QED
      BY <1>1, <1>2, <2>1, SequenceInduction
  <1>4. ASSUME NEW f, NEW g, DeriveRun(t, s, f), DeriveRun(t, s, g)
        PROVE  f = g
    <2> DEFINE n == Len(s)
               T == {i \in 0 .. n : f[i] # g[i]}
    <2>0. n \in Nat
      OBVIOUS
    <2>1. /\ n \in Nat
          /\ f = [i \in 0 .. n |-> IF i = 0 THEN t ELSE OnTiming(f[i - 1], s[i])]
          /\ g = [i \in 0 .. n |-> IF i = 0 THEN t ELSE OnTiming(g[i - 1], s[i])]
      <3> HIDE DEF n
      <3>1. QED
        BY <1>4, <2>0 DEF DeriveRun, n
    <2> HIDE DEF n
    <2>2. ASSUME T # {} PROVE FALSE
      <3>1. T \in SUBSET Nat
        BY <2>1
      <3>2. PICK i \in T : \A j \in T : i <= j
        BY <2>2, <3>1, LeastNumber
      <3>3. i \in 1 .. n
        BY <2>1, <3>2
      <3>4. f[i - 1] = g[i - 1]
        BY <2>1, <3>2, <3>3
      <3>5. QED
        BY <2>1, <3>2, <3>3, <3>4
    <2>3. QED
      BY <2>1, <2>2
  <1>5. QED
    BY <1>3, <1>4

\* One more event is one more turn of the loop.
LEMMA DeriveAppend ==
  ASSUME NEW E, NEW t, NEW s \in Seq(E), NEW e \in E
  PROVE  Derive(t, <<>>) = t /\ Derive(t, Append(s, e)) = OnTiming(Derive(t, s), e)
  <1> DEFINE n == Len(s)
             v == Append(s, e)
  <1>1. /\ n \in Nat /\ Len(v) = n + 1 /\ v[n + 1] = e /\ v \in Seq(E) /\ <<>> \in Seq(E)
        /\ \A i \in 1 .. n : v[i] = s[i]
    OBVIOUS
  <1>2. ASSUME NEW u \in Seq(E)
        PROVE  \E f : DeriveRun(t, u, f) /\ Derive(t, u) = f[Len(u)]
    <2> DEFINE F(f) == [i \in 0 .. Len(u) |-> IF i = 0 THEN t ELSE OnTiming(f[i - 1], u[i])]
               upTo == CHOOSE f : f = F(f)
    <2>1. Derive(t, u) = upTo[Len(u)]
      BY DEF Derive
    <2>2. \E f : f = F(f)
      <3>1. PICK f : DeriveRun(t, u, f)
        BY DeriveRuns
      <3>2. f = F(f)
        BY <3>1 DEF DeriveRun
      <3>3. QED
        BY <3>2
    <2>3. upTo = F(upTo)
      <3> HIDE DEF F
      <3>1. QED
        BY <2>2
    <2> HIDE DEF upTo
    <2>4. QED
      BY <2>1, <2>3 DEF DeriveRun
  <1>3. PICK f : DeriveRun(t, s, f) /\ Derive(t, s) = f[n]
    BY <1>2
  <1>4. PICK g : DeriveRun(t, v, g) /\ Derive(t, v) = g[n + 1]
    BY <1>1, <1>2
  <1>5. Derive(t, <<>>) = t
    <2>1. PICK h : DeriveRun(t, <<>>, h) /\ Derive(t, <<>>) = h[Len(<<>>)]
      BY <1>1, <1>2
    <2>2. QED
      BY <2>1 DEF DeriveRun
  <1> HIDE DEF n, v
  <1>6. g = [i \in 0 .. n + 1 |-> IF i = 0 THEN t ELSE OnTiming(g[i - 1], v[i])]
    BY <1>1, <1>4 DEF DeriveRun
  <1> DEFINE h == [i \in 0 .. n |-> g[i]]
  <1>7. DeriveRun(t, s, h)
    <2>1. ASSUME NEW i \in 0 .. n PROVE h[i] = IF i = 0 THEN t ELSE OnTiming(h[i - 1], s[i])
      <3>1. CASE i = 0
        BY <1>1, <1>6, <3>1
      <3>2. CASE i \in 1 .. n
        <4>1. g[i] = OnTiming(g[i - 1], v[i])
          BY <1>1, <1>6, <3>2
        <4>2. h[i] = g[i] /\ h[i - 1] = g[i - 1] /\ v[i] = s[i]
          BY <1>1, <3>2
        <4>3. QED
          BY <1>1, <3>2, <4>1, <4>2
      <3>3. QED
        BY <1>1, <3>1, <3>2
    <2>2. h = [i \in 0 .. n |-> h[i]]
      OBVIOUS
    <2> HIDE DEF h
    <2>3. h = [i \in 0 .. n |-> IF i = 0 THEN t ELSE OnTiming(h[i - 1], s[i])]
      BY <2>1, <2>2
    <2>4. QED
      BY <2>3 DEF DeriveRun, n
  <1>8. h[n] = g[n]
    BY <1>1
  <1> HIDE DEF h
  <1>9. h = f
    BY <1>3, <1>7, DeriveRuns
  <1>10. g[n + 1] = OnTiming(g[n], e)
    BY <1>1, <1>6
  <1>11. QED
    BY <1>3, <1>4, <1>5, <1>8, <1>9, <1>10 DEF v

\* The bundle's loop over a sequence is a function, and the only one.
AccountRun(s, f) == f = [i \in 0 .. Len(s) |-> IF i = 0 THEN NoAccount ELSE OnAccount(f[i - 1], s[i])]

LEMMA AccountRuns ==
  ASSUME NEW E, NEW s \in Seq(E)
  PROVE  /\ \E f : AccountRun(s, f)
         /\ \A f, g : AccountRun(s, f) /\ AccountRun(s, g) => f = g
  <1> DEFINE Bad == {u \in Seq(E) : ~ \E f : AccountRun(u, f)}
  <1>1. <<>> \notin Bad
    <2>1. AccountRun(<<>>, [i \in 0 .. 0 |-> NoAccount])
      BY DEF AccountRun
    <2>2. QED
      BY <2>1
  <1>2. ASSUME NEW u \in Seq(E), NEW e \in E, u \notin Bad
        PROVE  Append(u, e) \notin Bad
    <2> DEFINE n == Len(u)
               v == Append(u, e)
    <2>1. PICK f : AccountRun(u, f)
      BY <1>2
    <2> DEFINE g == [i \in 0 .. n + 1 |-> IF i = n + 1 THEN OnAccount(f[n], e) ELSE f[i]]
    <2>2. n \in Nat /\ Len(v) = n + 1 /\ v[n + 1] = e /\ \A i \in 1 .. n : v[i] = u[i]
      OBVIOUS
    <2> HIDE DEF n, v
    <2>3. f = [i \in 0 .. n |-> IF i = 0 THEN NoAccount ELSE OnAccount(f[i - 1], u[i])]
      BY <2>1 DEF AccountRun, n
    <2>4. ASSUME NEW i \in 0 .. n + 1 PROVE g[i] = IF i = 0 THEN NoAccount ELSE OnAccount(g[i - 1], v[i])
      <3>1. CASE i = 0
        BY <2>2, <2>3, <3>1
      <3>2. CASE i = n + 1
        BY <2>2, <3>2
      <3>3. CASE i \in 1 .. n
        <4>1. f[i] = OnAccount(f[i - 1], u[i])
          <5>1. i \in 0 .. n /\ i # 0
            BY <2>2, <3>3
          <5>2. QED
            BY <2>3, <5>1
        <4>2. g[i] = f[i] /\ g[i - 1] = f[i - 1] /\ v[i] = u[i]
          BY <2>2, <3>3
        <4>3. QED
          BY <2>2, <3>3, <4>1, <4>2
      <3>4. QED
        BY <2>2, <3>1, <3>2, <3>3
    <2>5. AccountRun(v, g)
      <3>1. g = [i \in 0 .. n + 1 |-> IF i = 0 THEN NoAccount ELSE OnAccount(g[i - 1], v[i])]
        <4>1. g = [i \in 0 .. n + 1 |-> g[i]]
          OBVIOUS
        <4> HIDE DEF g
        <4>2. QED
          BY <2>4, <4>1
      <3> HIDE DEF g
      <3>2. QED
        BY <2>2, <3>1 DEF AccountRun
    <2>6. QED
      BY <2>5 DEF v
  <1>3. Bad = {}
    <2> HIDE DEF Bad
    <2>1. Bad \in SUBSET Seq(E)
      BY DEF Bad
    <2>2. QED
      BY <1>1, <1>2, <2>1, SequenceInduction
  <1>4. ASSUME NEW f, NEW g, AccountRun(s, f), AccountRun(s, g)
        PROVE  f = g
    <2> DEFINE n == Len(s)
               T == {i \in 0 .. n : f[i] # g[i]}
    <2>0. n \in Nat
      OBVIOUS
    <2>1. /\ n \in Nat
          /\ f = [i \in 0 .. n |-> IF i = 0 THEN NoAccount ELSE OnAccount(f[i - 1], s[i])]
          /\ g = [i \in 0 .. n |-> IF i = 0 THEN NoAccount ELSE OnAccount(g[i - 1], s[i])]
      <3> HIDE DEF n
      <3>1. QED
        BY <1>4, <2>0 DEF AccountRun, n
    <2> HIDE DEF n
    <2>2. ASSUME T # {} PROVE FALSE
      <3>1. T \in SUBSET Nat
        BY <2>1
      <3>2. PICK i \in T : \A j \in T : i <= j
        BY <2>2, <3>1, LeastNumber
      <3>3. i \in 1 .. n
        BY <2>1, <3>2
      <3>4. f[i - 1] = g[i - 1]
        BY <2>1, <3>2, <3>3
      <3>5. QED
        BY <2>1, <3>2, <3>3, <3>4
    <2>3. QED
      BY <2>1, <2>2
  <1>5. QED
    BY <1>3, <1>4

\* One more event is one more turn of the loop.
LEMMA AccountAppend ==
  ASSUME NEW E, NEW s \in Seq(E), NEW e \in E
  PROVE  Account(<<>>) = NoAccount /\ Account(Append(s, e)) = OnAccount(Account(s), e)
  <1> DEFINE n == Len(s)
             v == Append(s, e)
  <1>1. /\ n \in Nat /\ Len(v) = n + 1 /\ v[n + 1] = e /\ v \in Seq(E) /\ <<>> \in Seq(E)
        /\ \A i \in 1 .. n : v[i] = s[i]
    OBVIOUS
  <1>2. ASSUME NEW u \in Seq(E)
        PROVE  \E f : AccountRun(u, f) /\ Account(u) = f[Len(u)]
    <2> DEFINE F(f) == [i \in 0 .. Len(u) |-> IF i = 0 THEN NoAccount ELSE OnAccount(f[i - 1], u[i])]
               upTo == CHOOSE f : f = F(f)
    <2>1. Account(u) = upTo[Len(u)]
      BY DEF Account
    <2>2. \E f : f = F(f)
      <3>1. PICK f : AccountRun(u, f)
        BY AccountRuns
      <3>2. f = F(f)
        BY <3>1 DEF AccountRun
      <3>3. QED
        BY <3>2
    <2>3. upTo = F(upTo)
      <3> HIDE DEF F
      <3>1. QED
        BY <2>2
    <2> HIDE DEF upTo
    <2>4. QED
      BY <2>1, <2>3 DEF AccountRun
  <1>3. PICK f : AccountRun(s, f) /\ Account(s) = f[n]
    BY <1>2
  <1>4. PICK g : AccountRun(v, g) /\ Account(v) = g[n + 1]
    BY <1>1, <1>2
  <1>5. Account(<<>>) = NoAccount
    <2>1. PICK h : AccountRun(<<>>, h) /\ Account(<<>>) = h[Len(<<>>)]
      BY <1>1, <1>2
    <2>2. QED
      BY <2>1 DEF AccountRun
  <1> HIDE DEF n, v
  <1>6. g = [i \in 0 .. n + 1 |-> IF i = 0 THEN NoAccount ELSE OnAccount(g[i - 1], v[i])]
    BY <1>1, <1>4 DEF AccountRun
  <1> DEFINE h == [i \in 0 .. n |-> g[i]]
  <1>7. AccountRun(s, h)
    <2>1. ASSUME NEW i \in 0 .. n PROVE h[i] = IF i = 0 THEN NoAccount ELSE OnAccount(h[i - 1], s[i])
      <3>1. CASE i = 0
        BY <1>1, <1>6, <3>1
      <3>2. CASE i \in 1 .. n
        <4>1. g[i] = OnAccount(g[i - 1], v[i])
          BY <1>1, <1>6, <3>2
        <4>2. h[i] = g[i] /\ h[i - 1] = g[i - 1] /\ v[i] = s[i]
          BY <1>1, <3>2
        <4>3. QED
          BY <1>1, <3>2, <4>1, <4>2
      <3>3. QED
        BY <1>1, <3>1, <3>2
    <2>2. h = [i \in 0 .. n |-> h[i]]
      OBVIOUS
    <2> HIDE DEF h
    <2>3. h = [i \in 0 .. n |-> IF i = 0 THEN NoAccount ELSE OnAccount(h[i - 1], s[i])]
      BY <2>1, <2>2
    <2>4. QED
      BY <2>3 DEF AccountRun, n
  <1>8. h[n] = g[n]
    BY <1>1
  <1> HIDE DEF h
  <1>9. h = f
    BY <1>3, <1>7, AccountRuns
  <1>10. g[n + 1] = OnAccount(g[n], e)
    BY <1>1, <1>6
  <1>11. QED
    BY <1>3, <1>4, <1>5, <1>8, <1>9, <1>10 DEF v

\* The turn of Chosen's loop.
Taken(these, chosen, e) == IF e \in these THEN Append(chosen, e) ELSE chosen

\* The loop of Chosen over a sequence is a function, and the only one.
ChosenRun(these, s, f) == f = [i \in 0 .. Len(s) |-> IF i = 0 THEN <<>> ELSE Taken(these, f[i - 1], s[i])]

LEMMA ChosenRuns ==
  ASSUME NEW E, NEW these, NEW s \in Seq(E)
  PROVE  /\ \E f : ChosenRun(these, s, f)
         /\ \A f, g : ChosenRun(these, s, f) /\ ChosenRun(these, s, g) => f = g
  <1> DEFINE Bad == {u \in Seq(E) : ~ \E f : ChosenRun(these, u, f)}
  <1>1. <<>> \notin Bad
    <2>1. ChosenRun(these, <<>>, [i \in 0 .. 0 |-> <<>>])
      BY DEF ChosenRun
    <2>2. QED
      BY <2>1
  <1>2. ASSUME NEW u \in Seq(E), NEW e \in E, u \notin Bad
        PROVE  Append(u, e) \notin Bad
    <2> DEFINE n == Len(u)
               v == Append(u, e)
    <2>1. PICK f : ChosenRun(these, u, f)
      BY <1>2
    <2> DEFINE g == [i \in 0 .. n + 1 |-> IF i = n + 1 THEN Taken(these, f[n], e) ELSE f[i]]
    <2>2. n \in Nat /\ Len(v) = n + 1 /\ v[n + 1] = e /\ \A i \in 1 .. n : v[i] = u[i]
      OBVIOUS
    <2> HIDE DEF n, v
    <2>3. f = [i \in 0 .. n |-> IF i = 0 THEN <<>> ELSE Taken(these, f[i - 1], u[i])]
      BY <2>1 DEF ChosenRun, n
    <2>4. ASSUME NEW i \in 0 .. n + 1 PROVE g[i] = IF i = 0 THEN <<>> ELSE Taken(these, g[i - 1], v[i])
      <3>1. CASE i = 0
        BY <2>2, <2>3, <3>1
      <3>2. CASE i = n + 1
        BY <2>2, <3>2
      <3>3. CASE i \in 1 .. n
        <4>1. f[i] = Taken(these, f[i - 1], u[i])
          <5>1. i \in 0 .. n /\ i # 0
            BY <2>2, <3>3
          <5>2. QED
            BY <2>3, <5>1
        <4>2. g[i] = f[i] /\ g[i - 1] = f[i - 1] /\ v[i] = u[i]
          BY <2>2, <3>3
        <4>3. QED
          BY <2>2, <3>3, <4>1, <4>2
      <3>4. QED
        BY <2>2, <3>1, <3>2, <3>3
    <2>5. ChosenRun(these, v, g)
      <3>1. g = [i \in 0 .. n + 1 |-> IF i = 0 THEN <<>> ELSE Taken(these, g[i - 1], v[i])]
        <4>1. g = [i \in 0 .. n + 1 |-> g[i]]
          OBVIOUS
        <4> HIDE DEF g
        <4>2. QED
          BY <2>4, <4>1
      <3> HIDE DEF g
      <3>2. QED
        BY <2>2, <3>1 DEF ChosenRun
    <2>6. QED
      BY <2>5 DEF v
  <1>3. Bad = {}
    <2> HIDE DEF Bad
    <2>1. Bad \in SUBSET Seq(E)
      BY DEF Bad
    <2>2. QED
      BY <1>1, <1>2, <2>1, SequenceInduction
  <1>4. ASSUME NEW f, NEW g, ChosenRun(these, s, f), ChosenRun(these, s, g)
        PROVE  f = g
    <2> DEFINE n == Len(s)
               T == {i \in 0 .. n : f[i] # g[i]}
    <2>0. n \in Nat
      OBVIOUS
    <2>1. /\ n \in Nat
          /\ f = [i \in 0 .. n |-> IF i = 0 THEN <<>> ELSE Taken(these, f[i - 1], s[i])]
          /\ g = [i \in 0 .. n |-> IF i = 0 THEN <<>> ELSE Taken(these, g[i - 1], s[i])]
      <3> HIDE DEF n
      <3>1. QED
        BY <1>4, <2>0 DEF ChosenRun, n
    <2> HIDE DEF n
    <2>2. ASSUME T # {} PROVE FALSE
      <3>1. T \in SUBSET Nat
        BY <2>1
      <3>2. PICK i \in T : \A j \in T : i <= j
        BY <2>2, <3>1, LeastNumber
      <3>3. i \in 1 .. n
        BY <2>1, <3>2
      <3>4. f[i - 1] = g[i - 1]
        BY <2>1, <3>2, <3>3
      <3>5. QED
        BY <2>1, <3>2, <3>3, <3>4
    <2>3. QED
      BY <2>1, <2>2
  <1>5. QED
    BY <1>3, <1>4

\* One more event is one more turn of the loop.
LEMMA ChosenAppend ==
  ASSUME NEW E, NEW these, NEW s \in Seq(E), NEW e \in E
  PROVE  Chosen(<<>>, these) = <<>> /\ Chosen(Append(s, e), these) = Taken(these, Chosen(s, these), e)
  <1> DEFINE n == Len(s)
             v == Append(s, e)
  <1>1. /\ n \in Nat /\ Len(v) = n + 1 /\ v[n + 1] = e /\ v \in Seq(E) /\ <<>> \in Seq(E)
        /\ \A i \in 1 .. n : v[i] = s[i]
    OBVIOUS
  <1>2. ASSUME NEW u \in Seq(E)
        PROVE  \E f : ChosenRun(these, u, f) /\ Chosen(u, these) = f[Len(u)]
    <2> DEFINE F(f) == [i \in 0 .. Len(u) |-> IF i = 0 THEN <<>> ELSE Taken(these, f[i - 1], u[i])]
               upTo == CHOOSE f : f = F(f)
    <2>1. Chosen(u, these) = upTo[Len(u)]
      BY DEF Chosen, Taken
    <2>2. \E f : f = F(f)
      <3>1. PICK f : ChosenRun(these, u, f)
        BY ChosenRuns
      <3>2. f = F(f)
        BY <3>1 DEF ChosenRun
      <3>3. QED
        BY <3>2
    <2>3. upTo = F(upTo)
      <3> HIDE DEF F
      <3>1. QED
        BY <2>2
    <2> HIDE DEF upTo
    <2>4. QED
      BY <2>1, <2>3 DEF ChosenRun
  <1>3. PICK f : ChosenRun(these, s, f) /\ Chosen(s, these) = f[n]
    BY <1>2
  <1>4. PICK g : ChosenRun(these, v, g) /\ Chosen(v, these) = g[n + 1]
    BY <1>1, <1>2
  <1>5. Chosen(<<>>, these) = <<>>
    <2>1. PICK h : ChosenRun(these, <<>>, h) /\ Chosen(<<>>, these) = h[Len(<<>>)]
      BY <1>1, <1>2
    <2>2. QED
      BY <2>1 DEF ChosenRun
  <1> HIDE DEF n, v
  <1>6. g = [i \in 0 .. n + 1 |-> IF i = 0 THEN <<>> ELSE Taken(these, g[i - 1], v[i])]
    BY <1>1, <1>4 DEF ChosenRun
  <1> DEFINE h == [i \in 0 .. n |-> g[i]]
  <1>7. ChosenRun(these, s, h)
    <2>1. ASSUME NEW i \in 0 .. n PROVE h[i] = IF i = 0 THEN <<>> ELSE Taken(these, h[i - 1], s[i])
      <3>1. CASE i = 0
        BY <1>1, <1>6, <3>1
      <3>2. CASE i \in 1 .. n
        <4>1. g[i] = Taken(these, g[i - 1], v[i])
          BY <1>1, <1>6, <3>2
        <4>2. h[i] = g[i] /\ h[i - 1] = g[i - 1] /\ v[i] = s[i]
          BY <1>1, <3>2
        <4>3. QED
          BY <1>1, <3>2, <4>1, <4>2
      <3>3. QED
        BY <1>1, <3>1, <3>2
    <2>2. h = [i \in 0 .. n |-> h[i]]
      OBVIOUS
    <2> HIDE DEF h
    <2>3. h = [i \in 0 .. n |-> IF i = 0 THEN <<>> ELSE Taken(these, h[i - 1], s[i])]
      BY <2>1, <2>2
    <2>4. QED
      BY <2>3 DEF ChosenRun, n
  <1>8. h[n] = g[n]
    BY <1>1
  <1> HIDE DEF h
  <1>9. h = f
    BY <1>3, <1>7, ChosenRuns
  <1>10. g[n + 1] = Taken(these, g[n], e)
    BY <1>1, <1>6
  <1>11. QED
    BY <1>3, <1>4, <1>5, <1>8, <1>9, <1>10 DEF v

\* Nothing is chosen from nothing, and nothing is summed up.
LEMMA Empties ==
  /\ \A these : Chosen(<<>>, these) = <<>>
  /\ \A t : Derive(t, <<>>) = t
  /\ Account(<<>>) = NoAccount
  <1>1. <<>> \in Seq({0}) /\ 0 \in {0}
    OBVIOUS
  <1>2. QED
    BY <1>1, ChosenAppend, DeriveAppend, AccountAppend

\* Where the chosen elements of a sequence stand in it.
Places(s, these, p) ==
  LET c == Chosen(s, these)
  IN /\ p \in [DOMAIN c -> DOMAIN s]
     /\ \A i \in DOMAIN c : c[i] = s[p[i]] /\ s[p[i]] \in these
     /\ \A i, j \in DOMAIN c : i < j => p[i] < p[j]
     /\ \A k \in DOMAIN s : s[k] \in these => \E i \in DOMAIN c : p[i] = k

\* The chosen elements stand in their order, and all of them.
LEMMA ChosenPlaces ==
  ASSUME NEW E, NEW these, NEW s \in Seq(E)
  PROVE  Chosen(s, these) \in Seq(E) /\ \E p : Places(s, these, p)
  <1> DEFINE Good(u) == Chosen(u, these) \in Seq(E) /\ \E p : Places(u, these, p)
             Bad == {u \in Seq(E) : ~ Good(u)}
  <1>1. <<>> \notin Bad
    <2>1. Chosen(<<>>, these) = <<>>
      BY Empties
    <2>2. Places(<<>>, these, <<>>)
      BY <2>1 DEF Places
    <2>3. QED
      BY <2>1, <2>2
  <1>2. ASSUME NEW u \in Seq(E), NEW e \in E, u \notin Bad
        PROVE  Append(u, e) \notin Bad
    <2> DEFINE n == Len(u)
               v == Append(u, e)
               c == Chosen(u, these)
               d == Chosen(v, these)
    <2>1. PICK p : c \in Seq(E) /\ Places(u, these, p)
      BY <1>2
    <2>2. /\ n \in Nat /\ DOMAIN u = 1 .. n /\ DOMAIN v = 1 .. n + 1 /\ v \in Seq(E)
          /\ v[n + 1] = e /\ \A i \in 1 .. n : v[i] = u[i]
      OBVIOUS
    <2>3. d = IF e \in these THEN Append(c, e) ELSE c
      BY ChosenAppend DEF Taken
    <2>4. /\ p \in [DOMAIN c -> DOMAIN u]
          /\ \A i \in DOMAIN c : c[i] = u[p[i]] /\ u[p[i]] \in these
          /\ \A i, j \in DOMAIN c : i < j => p[i] < p[j]
          /\ \A k \in DOMAIN u : u[k] \in these => \E i \in DOMAIN c : p[i] = k
      BY <2>1 DEF Places
    <2>5. CASE e \notin these
      <3>1. d = c
        BY <2>3, <2>5
      <3> HIDE DEF n, v, c, d
      <3>2. /\ p \in [DOMAIN d -> DOMAIN v]
            /\ \A i \in DOMAIN d : d[i] = v[p[i]] /\ v[p[i]] \in these
            /\ \A i, j \in DOMAIN d : i < j => p[i] < p[j]
        BY <2>2, <2>4, <3>1
      <3>3. ASSUME NEW k \in DOMAIN v, v[k] \in these PROVE \E i \in DOMAIN d : p[i] = k
        BY <2>2, <2>4, <2>5, <3>1, <3>3
      <3>4. Places(v, these, p)
        BY <3>2, <3>3 DEF Places, d
      <3>5. QED
        BY <2>1, <3>1, <3>4 DEF v, d
    <2>6. CASE e \in these
      <3> DEFINE m == Len(c)
                 q == [i \in 1 .. m + 1 |-> IF i = m + 1 THEN n + 1 ELSE p[i]]
      <3>1. /\ d = Append(c, e) /\ m \in Nat /\ DOMAIN c = 1 .. m /\ DOMAIN d = 1 .. m + 1
            /\ d[m + 1] = e /\ \A i \in 1 .. m : d[i] = c[i]
        <4> HIDE DEF c, d
        <4>1. d = Append(c, e) /\ c \in Seq(E)
          BY <2>1, <2>3, <2>6
        <4>2. QED
          BY <4>1
      <3>0. d \in Seq(E)
        <4> HIDE DEF c, d, v
        <4>1. QED
          BY <2>1, <2>3
      <3> HIDE DEF n, v, c, d, m
      <3>2. q \in [DOMAIN d -> DOMAIN v]
        BY <2>2, <2>4, <3>1
      <3>3. ASSUME NEW i \in DOMAIN d PROVE d[i] = v[q[i]] /\ v[q[i]] \in these
        <4>1. CASE i = m + 1
          BY <2>2, <2>6, <3>1, <4>1
        <4>2. CASE i \in 1 .. m
          BY <2>2, <2>4, <3>1, <4>2
        <4>3. QED
          BY <3>1, <4>1, <4>2
      <3>4. ASSUME NEW i \in DOMAIN d, NEW j \in DOMAIN d, i < j PROVE q[i] < q[j]
        <4>1. i \in 1 .. m /\ q[i] = p[i] /\ p[i] \in 1 .. n
          BY <2>2, <2>4, <3>1, <3>4
        <4>2. CASE j = m + 1
          BY <2>2, <3>1, <4>1, <4>2
        <4>3. CASE j \in 1 .. m
          BY <2>4, <3>1, <3>4, <4>1, <4>3
        <4>4. QED
          BY <3>1, <4>2, <4>3
      <3>5. ASSUME NEW k \in DOMAIN v, v[k] \in these PROVE \E i \in DOMAIN d : q[i] = k
        <4>1. CASE k = n + 1
          <5>1. m + 1 \in DOMAIN d /\ q[m + 1] = k
            BY <3>1, <4>1
          <5>2. QED
            BY <5>1
        <4>2. CASE k \in 1 .. n
          <5>1. PICK i \in DOMAIN c : p[i] = k
            BY <2>2, <2>4, <3>5, <4>2
          <5>2. i \in DOMAIN d /\ q[i] = k
            BY <3>1, <5>1
          <5>3. QED
            BY <5>2
        <4>3. k \in 1 .. n + 1 /\ n \in Nat
          BY <2>2, <3>5
        <4>4. k = n + 1 \/ k \in 1 .. n
          BY <4>3
        <4>5. QED
          BY <4>1, <4>2, <4>4
      <3> HIDE DEF q
      <3>6. Places(v, these, q)
        BY <3>2, <3>3, <3>4, <3>5 DEF Places, d
      <3>7. QED
        BY <3>0, <3>6 DEF v, d
    <2>7. QED
      BY <2>5, <2>6
  <1>3. Bad = {}
    <2> HIDE DEF Bad
    <2>1. Bad \in SUBSET Seq(E)
      BY DEF Bad
    <2>2. QED
      BY <1>1, <1>2, <2>1, SequenceInduction
  <1>4. QED
    BY <1>3

\* Two sets that agree on the elements choose the same of them.
LEMMA ChosenSame ==
  ASSUME NEW E, NEW A, NEW B, NEW s \in Seq(E), \A i \in DOMAIN s : s[i] \in A <=> s[i] \in B
  PROVE  Chosen(s, A) = Chosen(s, B)
  <1> DEFINE Alike(u) == \A i \in DOMAIN u : u[i] \in A <=> u[i] \in B
             Bad == {u \in Seq(E) : Alike(u) /\ Chosen(u, A) # Chosen(u, B)}
  <1>1. <<>> \notin Bad
    BY Empties
  <1>2. ASSUME NEW u \in Seq(E), NEW e \in E, u \notin Bad
        PROVE  Append(u, e) \notin Bad
    <2> SUFFICES ASSUME Alike(Append(u, e)) PROVE Chosen(Append(u, e), A) = Chosen(Append(u, e), B)
      OBVIOUS
    <2>1. \A i \in DOMAIN u : i \in DOMAIN Append(u, e) /\ Append(u, e)[i] = u[i]
      OBVIOUS
    <2>2. Alike(u)
      BY <2>1
    <2>3. e \in A <=> e \in B
      <3>1. Len(u) + 1 \in DOMAIN Append(u, e) /\ Append(u, e)[Len(u) + 1] = e
        OBVIOUS
      <3>2. QED
        BY <3>1
    <2>4. Chosen(u, A) = Chosen(u, B)
      BY <1>2, <2>2
    <2>5. /\ Chosen(Append(u, e), A) = Taken(A, Chosen(u, A), e)
          /\ Chosen(Append(u, e), B) = Taken(B, Chosen(u, B), e)
      BY ChosenAppend
    <2>6. QED
      BY <2>3, <2>4, <2>5 DEF Taken
  <1>3. Bad = {}
    <2> HIDE DEF Bad
    <2>1. Bad \in SUBSET Seq(E)
      BY DEF Bad
    <2>2. QED
      BY <1>1, <1>2, <2>1, SequenceInduction
  <1>4. QED
    BY <1>3

\* Choosing again from what was chosen more generously.
LEMMA ChosenTwice ==
  ASSUME NEW E, NEW A, NEW B, B \subseteq A, NEW s \in Seq(E)
  PROVE  Chosen(Chosen(s, A), B) = Chosen(s, B)
  <1> DEFINE Bad == {u \in Seq(E) : Chosen(Chosen(u, A), B) # Chosen(u, B)}
  <1>1. <<>> \notin Bad
    BY Empties
  <1>2. ASSUME NEW u \in Seq(E), NEW e \in E, u \notin Bad
        PROVE  Append(u, e) \notin Bad
    <2>1. Chosen(Chosen(u, A), B) = Chosen(u, B) /\ Chosen(u, A) \in Seq(E)
      BY <1>2, ChosenPlaces
    <2>2. /\ Chosen(Append(u, e), A) = Taken(A, Chosen(u, A), e)
          /\ Chosen(Append(u, e), B) = Taken(B, Chosen(u, B), e)
          /\ Chosen(Append(Chosen(u, A), e), B) = Taken(B, Chosen(Chosen(u, A), B), e)
      BY <2>1, ChosenAppend
    <2>3. Chosen(Chosen(Append(u, e), A), B) = Chosen(Append(u, e), B)
      BY <2>1, <2>2 DEF Taken
    <2>4. QED
      BY <2>3
  <1>3. Bad = {}
    <2> HIDE DEF Bad
    <2>1. Bad \in SUBSET Seq(E)
      BY DEF Bad
    <2>2. QED
      BY <1>1, <1>2, <2>1, SequenceInduction
  <1>4. QED
    BY <1>3

\* deriveTiming passes over what is not chosen if that is labels only.
LEMMA DeriveChosen ==
  ASSUME NEW E, NEW these, \A e \in E : e \notin these => e.target # "timing", NEW t, NEW s \in Seq(E)
  PROVE  Derive(t, Chosen(s, these)) = Derive(t, s)
  <1> DEFINE Bad == {u \in Seq(E) : Derive(t, Chosen(u, these)) # Derive(t, u)}
  <1>1. <<>> \notin Bad
    BY Empties
  <1>2. ASSUME NEW u \in Seq(E), NEW e \in E, u \notin Bad
        PROVE  Append(u, e) \notin Bad
    <2>1. Derive(t, Chosen(u, these)) = Derive(t, u) /\ Chosen(u, these) \in Seq(E)
      BY <1>2, ChosenPlaces
    <2>2. /\ Chosen(Append(u, e), these) = Taken(these, Chosen(u, these), e)
          /\ Derive(t, Append(Chosen(u, these), e)) = OnTiming(Derive(t, Chosen(u, these)), e)
          /\ Derive(t, Append(u, e)) = OnTiming(Derive(t, u), e)
      BY <2>1, ChosenAppend, DeriveAppend
    <2>3. e \notin these => OnTiming(Derive(t, u), e) = Derive(t, u)
      BY DEF OnTiming
    <2>4. Derive(t, Chosen(Append(u, e), these)) = Derive(t, Append(u, e))
      BY <2>1, <2>2, <2>3 DEF Taken
    <2>5. QED
      BY <2>4
  <1>3. Bad = {}
    <2> HIDE DEF Bad
    <2>1. Bad \in SUBSET Seq(E)
      BY DEF Bad
    <2>2. QED
      BY <1>1, <1>2, <2>1, SequenceInduction
  <1>4. QED
    BY <1>3

-----------------------------------------------------------------------------
(***************************************************************************)
(* The timing fold, unrolled for the events one step records.              *)
(***************************************************************************)
\* deriveTiming after one more event.
LEMMA DeriveOne ==
  ASSUME NEW t, NEW e
  PROVE  Derive(t, <<e>>) = OnTiming(t, e)
  <1> DEFINE E == {e}
             s == <<>>
  <1>1. s \in Seq(E) /\ e \in E /\ <<e>> = Append(s, e)
    OBVIOUS
  <1>2. Derive(t, s) = t
    BY Empties
  <1> HIDE DEF E, s
  <1>3. Derive(t, Append(s, e)) = OnTiming(Derive(t, s), e)
    BY <1>1, DeriveAppend
  <1>4. QED
    BY <1>1, <1>2, <1>3

\* deriveTiming after the two events of one transaction.
LEMMA DeriveTwo ==
  ASSUME NEW t, NEW d, NEW e
  PROVE  Derive(t, <<d, e>>) = OnTiming(OnTiming(t, d), e)
  <1> DEFINE E == {d, e}
             s == <<d>>
  <1>1. s \in Seq(E) /\ e \in E /\ <<d, e>> = Append(s, e)
    OBVIOUS
  <1>2. Derive(t, s) = OnTiming(t, d)
    BY DeriveOne
  <1> HIDE DEF E, s
  <1>3. Derive(t, Append(s, e)) = OnTiming(Derive(t, s), e)
    BY <1>1, DeriveAppend
  <1>4. QED
    BY <1>1, <1>2, <1>3

-----------------------------------------------------------------------------
(***************************************************************************)
(* Recording.  An event that is recorded is the last of the log, at the    *)
(* present revision and at a moment that may be a tick later.              *)
(***************************************************************************)
\* The next event of the log, of what it says and when.
Entry(n, at, target, id, value) ==
  [seq |-> n, request |-> n, rev |-> Rev, at |-> at, target |-> target, id |-> id, value |-> value]

\* The clock of the trial is shown running and goes on counting.
Counting(at) == Clock.state = "running" /\ Bounded(folded.last, at) # None

\* The session of an activity has gone stale before the activity is recorded.
Late(at, kind) ==
  kind \in {"heartbeat", "pause", "finish"} /\ folded.state = "running" /\ ~Counting(at)

\* What an event leaves alone, and the moment it is recorded at.
Recording(at, kind) ==
  /\ at \in {clock, clock + 1} /\ at <= MaxClock
  /\ clock' = at
  /\ ran' = IF kind = "baseline" THEN 0 ELSE ran + IF at > clock /\ Counting(at) THEN 1 ELSE 0
  /\ overrun' \in BOOLEAN /\ overrun' = (overrun \/ Late(at, kind))
  /\ UNCHANGED <<enrolled, records, exporting, reviewing, back, unclocked>>

LEMMA RecordOne ==
  ASSUME TrialTypeOK, NEW target, NEW id, NEW value, Record(<<Event(target, id, value)>>)
  PROVE  \E at \in {clock, clock + 1} :
           /\ Recording(at, IF target = "timing" THEN id ELSE "label")
           /\ log' = Append(log, Entry(Len(log) + 1, at, target, id, value))
           /\ folded' = OnTiming(folded, Entry(Len(log) + 1, at, target, id, value))
  <1> DEFINE new == <<Event(target, id, value)>>
             entry(at) == Entry(Len(log) + 1, at, target, id, value)
             events(at) == [i \in DOMAIN new |->
                    [seq |-> Len(log) + i, request |-> Len(log) + i, rev |-> Rev, at |-> at,
                     target |-> new[i].target, id |-> new[i].id, value |-> new[i].value]]
  <1>1. /\ Len(new) = 1 /\ DOMAIN new = {1} /\ new[1].id = id /\ new[1].target = target
        /\ new[1].value = value
    BY DEF Event
  <1>2. \A at : events(at) = <<entry(at)>>
    BY <1>1 DEF Entry
  <1>3. PICK at \in {clock, clock + 1} :
          /\ at <= MaxClock
          /\ log' = log \o events(at) /\ folded' = Derive(folded, events(at))
          /\ clock' = at
          /\ ran' = IF (IF new[1].target = "timing" THEN new[1].id ELSE "label") = "baseline" THEN 0
                    ELSE ran + IF at > clock /\ Counting(at) THEN 1 ELSE 0
          /\ overrun' \in BOOLEAN
          /\ overrun' = (overrun \/ Late(at, IF new[1].target = "timing" THEN new[1].id ELSE "label"))
          /\ UNCHANGED <<enrolled, records, exporting, reviewing, back, unclocked>>
    BY DEF Record, Counting, Late, TrialTypeOK
  <1> HIDE DEF events, entry
  <1>4. Recording(at, IF target = "timing" THEN id ELSE "label")
    BY <1>1, <1>3 DEF Recording
  <1>5. log' = log \o <<entry(at)>> /\ folded' = OnTiming(folded, entry(at))
    BY <1>2, <1>3, DeriveOne
  <1>6. log' = Append(log, entry(at))
    BY <1>5 DEF TrialTypeOK
  <1>7. QED
    BY <1>3, <1>4, <1>5, <1>6 DEF entry

LEMMA RecordTwo ==
  ASSUME TrialTypeOK, NEW first, NEW next, NEW value, NEW other,
         Record(<<Event("timing", first, value), Event("timing", next, other)>>)
  PROVE  \E at \in {clock, clock + 1} :
           /\ Recording(at, first)
           /\ log' = log \o <<Entry(Len(log) + 1, at, "timing", first, value),
                              Entry(Len(log) + 2, at, "timing", next, other)>>
           /\ folded' = OnTiming(OnTiming(folded, Entry(Len(log) + 1, at, "timing", first, value)),
                                 Entry(Len(log) + 2, at, "timing", next, other))
  <1> DEFINE new == <<Event("timing", first, value), Event("timing", next, other)>>
             one(at) == Entry(Len(log) + 1, at, "timing", first, value)
             two(at) == Entry(Len(log) + 2, at, "timing", next, other)
             events(at) == [i \in DOMAIN new |->
                    [seq |-> Len(log) + i, request |-> Len(log) + i, rev |-> Rev, at |-> at,
                     target |-> new[i].target, id |-> new[i].id, value |-> new[i].value]]
  <1>1. /\ DOMAIN new = {1, 2}
        /\ new[1].id = first /\ new[1].target = "timing" /\ new[1].value = value
        /\ new[2].id = next /\ new[2].target = "timing" /\ new[2].value = other
    BY DEF Event
  <1>2. \A at : events(at) = <<one(at), two(at)>>
    <2> SUFFICES ASSUME NEW at PROVE events(at) = <<one(at), two(at)>>
      OBVIOUS
    <2>1. DOMAIN events(at) = 1 .. 2 /\ DOMAIN <<one(at), two(at)>> = 1 .. 2
      BY <1>1
    <2>2. events(at)[1] = one(at) /\ events(at)[2] = two(at)
      BY <1>1 DEF Entry
    <2> HIDE DEF events, one, two
    <2>3. events(at) = [i \in 1 .. 2 |-> IF i = 1 THEN one(at) ELSE two(at)]
      BY <2>1, <2>2 DEF events
    <2>4. QED
      BY <2>3
  <1>3. PICK at \in {clock, clock + 1} :
          /\ at <= MaxClock
          /\ log' = log \o events(at) /\ folded' = Derive(folded, events(at))
          /\ clock' = at
          /\ ran' = IF (IF new[1].target = "timing" THEN new[1].id ELSE "label") = "baseline" THEN 0
                    ELSE ran + IF at > clock /\ Counting(at) THEN 1 ELSE 0
          /\ overrun' \in BOOLEAN
          /\ overrun' = (overrun \/ Late(at, IF new[1].target = "timing" THEN new[1].id ELSE "label"))
          /\ UNCHANGED <<enrolled, records, exporting, reviewing, back, unclocked>>
    BY DEF Record, Counting, Late, TrialTypeOK
  <1> HIDE DEF events, one, two
  <1>4. Recording(at, first)
    BY <1>1, <1>3 DEF Recording
  <1>5. log' = log \o <<one(at), two(at)>> /\ folded' = OnTiming(OnTiming(folded, one(at)), two(at))
    <2>1. events(at) = <<one(at), two(at)>>
      BY <1>2
    <2>2. Derive(folded, <<one(at), two(at)>>) = OnTiming(OnTiming(folded, one(at)), two(at))
      BY DeriveTwo
    <2>3. QED
      BY <1>3, <2>1, <2>2
  <1>6. QED
    BY <1>3, <1>4, <1>5 DEF one, two

-----------------------------------------------------------------------------
(***************************************************************************)
(* Time.                                                                   *)
(***************************************************************************)
\* The loop's step, by the kind of the event.
LEMMA OnTimingCases ==
  ASSUME NEW t, NEW e
  PROVE  /\ e.target # "timing" => OnTiming(t, e) = t
         /\ e.target = "timing" /\ e.id = "baseline" =>
              OnTiming(t, e) = [NoTiming EXCEPT !.baseline = e.value, !.last = e.at]
         /\ e.target = "timing" /\ e.id = "start" => OnTiming(t, e) = Started(t, e)
         /\ e.target = "timing" /\ e.id = "heartbeat" => OnTiming(t, e) = Beat(t, e)
         /\ e.target = "timing" /\ e.id = "pause" => OnTiming(t, e) = Paused(t, e)
         /\ e.target = "timing" /\ e.id = "finish" => OnTiming(t, e) = Finished(t, e)
  BY DEF OnTiming

\* A summary that may be shown: a running one has a last activity, a finished
\* one its revision.
Sound(t) ==
  /\ t \in Summaries
  /\ t.state = "running" => t.last \in Nat
  /\ t.state = "finished" => t.finished \in Nat

\* What counts between two moments is a number of ticks, of which there are
\* none when the clock went back and too many when the session is stale.
LEMMA BoundedFacts ==
  ASSUME NEW from \in Nat, NEW to \in Nat
  PROVE  /\ Bounded(from, to) # None <=> from <= to /\ to - from <= StaleAfter
         /\ Bounded(from, to) # None => Bounded(from, to) = to - from
         /\ Counted(from, to) = IF from <= to /\ to - from <= StaleAfter THEN to - from ELSE 0
  <1>1. to - from \in 0 .. StaleAfter <=> from <= to /\ to - from <= StaleAfter
    BY StaleAfterIsNat
  <1>2. to - from # None
    BY NoneIsNoNumber
  <1>3. Bounded(from, to) = IF from <= to /\ to - from <= StaleAfter THEN to - from ELSE None
    BY <1>1 DEF Bounded
  <1>4. QED
    BY <1>2, <1>3 DEF Counted

LEMMA OnTimingSound ==
  ASSUME NEW t, Sound(t), NEW e \in EvidenceEvents, e.target = "timing" => e.id \in Kinds
  PROVE  Sound(OnTiming(t, e))
  <1> USE DEF Sound
  <1>0. e.at \in Nat /\ e.rev \in Nat /\ e.value \in Sessions \cup Baselines \cup Verdicts \cup {None}
    BY DEF EvidenceEvents
  <1>1. CASE e.target # "timing"
    BY <1>1, OnTimingCases
  <1>2. CASE e.target = "timing" /\ e.id = "baseline"
    <2>1. OnTiming(t, e) = [NoTiming EXCEPT !.baseline = e.value, !.last = e.at]
      BY <1>2, OnTimingCases
    <2>2. [NoTiming EXCEPT !.baseline = e.value, !.last = e.at] \in Summaries
      BY <1>0 DEF NoTiming, Summaries
    <2>3. OnTiming(t, e).state = "not_started"
      BY <2>1 DEF NoTiming
    <2>4. QED
      BY <2>1, <2>2, <2>3
  <1>3. CASE e.target = "timing" /\ e.id = "start"
    <2>1. OnTiming(t, e) = t \/ OnTiming(t, e) = [t EXCEPT !.state = "running", !.session = e.value, !.last = e.at]
      BY <1>3, OnTimingCases DEF Started
    <2>2. QED
      BY <1>0, <2>1 DEF Summaries
  <1>4. CASE e.target = "timing" /\ e.id = "heartbeat"
    <2>1. CASE ~Owns(t, e.value)
      BY <1>4, <2>1, OnTimingCases DEF Beat
    <2>2. CASE Owns(t, e.value) /\ Bounded(t.last, e.at) = None
      <3>1. OnTiming(t, e) = [t EXCEPT !.state = "paused", !.session = None]
        BY <1>4, <2>2, OnTimingCases DEF Beat
      <3>2. QED
        BY <3>1 DEF Summaries
    <2>3. CASE Owns(t, e.value) /\ Bounded(t.last, e.at) # None
      <3>1. t.last \in Nat /\ t.active \in Nat
        BY <2>3 DEF Owns, Summaries
      <3>2. t.active + Bounded(t.last, e.at) \in Nat
        BY <1>0, <2>3, <3>1, BoundedFacts
      <3>3. OnTiming(t, e) = [t EXCEPT !.active = t.active + Bounded(t.last, e.at), !.last = e.at]
        BY <1>4, <2>3, OnTimingCases DEF Beat
      <3>4. QED
        BY <1>0, <3>2, <3>3 DEF Summaries
    <2>4. QED
      BY <2>1, <2>2, <2>3
  <1>5. CASE e.target = "timing" /\ e.id = "pause"
    <2>1. CASE ~Owns(t, e.value)
      BY <1>5, <2>1, OnTimingCases DEF Paused
    <2>2. CASE Owns(t, e.value)
      <3>1. t.last \in Nat /\ t.active \in Nat
        BY <2>2 DEF Owns, Summaries
      <3>2. t.active + Counted(t.last, e.at) \in Nat
        BY <1>0, <3>1, StaleAfterIsNat, BoundedFacts
      <3>3. OnTiming(t, e) = [t EXCEPT !.active = t.active + Counted(t.last, e.at), !.state = "paused",
                                       !.session = None, !.last = e.at]
        BY <1>5, <2>2, OnTimingCases DEF Paused
      <3>4. QED
        BY <1>0, <3>2, <3>3 DEF Summaries
    <2>3. QED
      BY <2>1, <2>2
  <1>6. CASE e.target = "timing" /\ e.id = "finish"
    <2> DEFINE more == IF t.state = "running" THEN Counted(t.last, e.at) ELSE 0
    <2>1. t.active \in Nat /\ (t.state = "running" => t.last \in Nat)
      BY DEF Summaries
    <2>2. t.active + more \in Nat
      BY <1>0, <2>1, StaleAfterIsNat, BoundedFacts
    <2>3. OnTiming(t, e) = [t EXCEPT !.active = t.active + more, !.state = "finished", !.session = None,
                                     !.last = e.at, !.finished = e.rev]
      <3>1. OnTiming(t, e) = Finished(t, e)
        BY <1>6, OnTimingCases
      <3>2. QED
        BY <3>1 DEF Finished
    <2> HIDE DEF more
    <2>4. QED
      BY <1>0, <2>2, <2>3 DEF Summaries
  <1>7. QED
    BY <1>1, <1>2, <1>3, <1>4, <1>5, <1>6 DEF Kinds

\* The stretch a summary would count at a moment, as Stretch has it.
StretchOf(t, now) ==
  IF t.state # "running" \/ now < t.last THEN 0
  ELSE IF now - t.last <= StaleAfter THEN now - t.last ELSE StaleAfter

\* A summary that is shown running is one whose last activity still counts.
LEMMA ShownRunning ==
  ASSUME NEW t, Sound(t), NEW now \in Nat, NEW rev
  PROVE  Shown(t, now, rev).state = "running" <=>
           t.state = "running" /\ t.last <= now /\ now - t.last <= StaleAfter
  <1>1. t.state = "running" => t.last \in Nat
    BY DEF Sound
  <1>2. QED
    BY <1>1, BoundedFacts DEF Shown

\* A tick lengthens the stretch only while the clock is shown to count.
LEMMA StretchTick ==
  ASSUME NEW t, Sound(t), NEW now \in Nat, NEW rev, NEW at \in {now, now + 1}
  PROVE  /\ StretchOf(t, at) \in Nat /\ StretchOf(t, now) \in Nat
         /\ StretchOf(t, at) <= StretchOf(t, now)
              + IF at > now /\ Shown(t, now, rev).state = "running" /\ Bounded(t.last, at) # None
                THEN 1 ELSE 0
  <1>1. t.state = "running" => t.last \in Nat
    BY DEF Sound
  <1>2. CASE t.state # "running"
    BY <1>2, ShownRunning DEF StretchOf
  <1>3. CASE t.state = "running"
    <2>1. /\ t.last \in Nat
          /\ Bounded(t.last, at) # None <=> t.last <= at /\ at - t.last <= StaleAfter
          /\ Shown(t, now, rev).state = "running" <=> t.last <= now /\ now - t.last <= StaleAfter
      BY <1>1, <1>3, BoundedFacts, ShownRunning
    <2>2. QED
      BY <1>3, <2>1, StaleAfterIsNat DEF StretchOf
  <1>4. QED
    BY <1>2, <1>3

\* One event adds to the active time no more than the stretch it ends.
LEMMA OnTimingTime ==
  ASSUME NEW t, Sound(t), NEW e \in EvidenceEvents, e.target = "timing" => e.id \in Kinds \ {"baseline"}
  PROVE  OnTiming(t, e).active + StretchOf(OnTiming(t, e), e.at) <= t.active + StretchOf(t, e.at)
  <1>0. /\ e.at \in Nat /\ t.active \in Nat /\ t \in Summaries
        /\ t.state = "running" => t.last \in Nat
        /\ StretchOf(t, e.at) \in Nat
    BY StretchTick DEF EvidenceEvents, Sound, Summaries
  <1>1. CASE e.target # "timing"
    <2>1. OnTiming(t, e) = t
      BY <1>1, OnTimingCases
    <2>2. QED
      BY <1>0, <2>1
  <1>2. CASE e.target = "timing" /\ e.id = "start"
    <2>1. OnTiming(t, e) = t \/ OnTiming(t, e) = [t EXCEPT !.state = "running", !.session = e.value, !.last = e.at]
      BY <1>2, OnTimingCases DEF Started
    <2>2. CASE OnTiming(t, e) # t
      <3>1. OnTiming(t, e).active = t.active /\ OnTiming(t, e).last = e.at
        BY <1>0, <2>1, <2>2 DEF Summaries
      <3>2. StretchOf(OnTiming(t, e), e.at) = 0
        BY <1>0, <3>1, StaleAfterIsNat DEF StretchOf
      <3>3. QED
        BY <1>0, <3>1, <3>2
    <2>3. QED
      BY <1>0, <2>2
  <1>3. CASE e.target = "timing" /\ e.id \in {"heartbeat", "pause"} /\ ~Owns(t, e.value)
    <2>1. OnTiming(t, e) = t
      BY <1>3, OnTimingCases DEF Beat, Paused
    <2>2. QED
      BY <1>0, <2>1
  <1>4. CASE e.target = "timing" /\ e.id \in {"heartbeat", "pause"} /\ Owns(t, e.value)
    <2>1. /\ t.state = "running" /\ t.last \in Nat
          /\ Bounded(t.last, e.at) # None => StretchOf(t, e.at) = Bounded(t.last, e.at)
          /\ Counted(t.last, e.at) <= StretchOf(t, e.at)
          /\ Bounded(t.last, e.at) # None => Bounded(t.last, e.at) \in Nat
          /\ Counted(t.last, e.at) \in Nat
      BY <1>0, <1>4, BoundedFacts, StaleAfterIsNat DEF Owns, StretchOf
    <2>2. CASE e.id = "heartbeat" /\ Bounded(t.last, e.at) = None
      <3>1. OnTiming(t, e) = [t EXCEPT !.state = "paused", !.session = None]
        BY <1>4, <2>2, OnTimingCases DEF Beat
      <3>2. QED
        BY <1>0, <3>1 DEF Summaries, StretchOf
    <2>3. CASE e.id = "heartbeat" /\ Bounded(t.last, e.at) # None
      <3>1. OnTiming(t, e) = [t EXCEPT !.active = t.active + Bounded(t.last, e.at), !.last = e.at]
        BY <1>4, <2>3, OnTimingCases DEF Beat
      <3>2. OnTiming(t, e).active = t.active + Bounded(t.last, e.at) /\ OnTiming(t, e).last = e.at
        BY <1>0, <3>1 DEF Summaries
      <3>3. StretchOf(OnTiming(t, e), e.at) = 0
        BY <1>0, <3>2, StaleAfterIsNat DEF StretchOf
      <3>4. QED
        BY <1>0, <2>1, <2>3, <3>2, <3>3
    <2>4. CASE e.id = "pause"
      <3>1. OnTiming(t, e) = [t EXCEPT !.active = t.active + Counted(t.last, e.at), !.state = "paused",
                                       !.session = None, !.last = e.at]
        BY <1>4, <2>4, OnTimingCases DEF Paused
      <3>2. OnTiming(t, e).active = t.active + Counted(t.last, e.at) /\ OnTiming(t, e).state = "paused"
        BY <1>0, <3>1 DEF Summaries
      <3>3. QED
        BY <1>0, <2>1, <3>2 DEF StretchOf
    <2>5. QED
      BY <1>4, <2>2, <2>3, <2>4
  <1>5. CASE e.target = "timing" /\ e.id = "finish"
    <2> DEFINE more == IF t.state = "running" THEN Counted(t.last, e.at) ELSE 0
    <2>1. more \in Nat /\ more <= StretchOf(t, e.at)
      BY <1>0, BoundedFacts, StaleAfterIsNat DEF StretchOf
    <2>2. OnTiming(t, e) = [t EXCEPT !.active = t.active + more, !.state = "finished", !.session = None,
                                     !.last = e.at, !.finished = e.rev]
      <3>1. OnTiming(t, e) = Finished(t, e)
        BY <1>5, OnTimingCases
      <3>2. QED
        BY <3>1 DEF Finished
    <2> HIDE DEF more
    <2>3. OnTiming(t, e).active = t.active + more /\ OnTiming(t, e).state = "finished"
      BY <1>0, <2>2 DEF Summaries
    <2>4. QED
      BY <1>0, <2>1, <2>3 DEF StretchOf
  <1>6. QED
    BY <1>1, <1>2, <1>3, <1>4, <1>5 DEF Kinds

-----------------------------------------------------------------------------
(***************************************************************************)
(* Type correctness and TimeInv, first for what is recorded.               *)
(***************************************************************************)
\* The values an event may carry.
Values == Sessions \cup Baselines \cup Verdicts \cup {None}

LEMMA RevFacts ==
  ASSUME TrialTypeOK
  PROVE  /\ Rev \in Nat /\ Len(log) \in Nat /\ clock \in Nat /\ ran \in Nat
         /\ DOMAIN log = 1 .. Len(log) /\ DOMAIN records = 1 .. Rev
         /\ Sound(folded) /\ folded.active \in Nat
         /\ StretchOf(folded, clock) = Stretch
         /\ UNCHANGED records => Rev' = Rev
  BY TrialBounds DEF TrialTypeOK, Rev, Sound, Summaries, Stretch, StretchOf

\* One more event leaves everything well-formed.
LEMMA RecordOneType ==
  ASSUME TrialTypeOK, NEW target \in {"timing", "candidate", "boundary"},
         NEW id \in Kinds \cup Candidates, target = "timing" => id \in Kinds, NEW value \in Values,
         Record(<<Event(target, id, value)>>)
  PROVE  TrialTypeOK'
  <1> DEFINE entry(at) == Entry(Len(log) + 1, at, target, id, value)
  <1>1. PICK at \in {clock, clock + 1} :
          /\ Recording(at, IF target = "timing" THEN id ELSE "label")
          /\ log' = Append(log, entry(at)) /\ folded' = OnTiming(folded, entry(at))
    BY RecordOne
  <1>2. at \in 0 .. MaxClock /\ at \in Nat /\ Rev \in Nat /\ Rev' = Rev
    BY <1>1, RevFacts, TrialBounds DEF Recording, TrialTypeOK
  <1>3. /\ entry(at) \in EvidenceEvents
        /\ entry(at).seq = Len(log) + 1 /\ entry(at).rev = Rev /\ entry(at).at = at
        /\ entry(at).target = target /\ entry(at).id = id
    BY <1>2, RevFacts DEF Entry, EvidenceEvents, Values
  <1> HIDE DEF entry
  <1>4. Sound(folded')
    BY <1>1, <1>3, OnTimingSound, RevFacts
  <1>5. /\ log' \in Seq(EvidenceEvents) /\ DOMAIN log' = 1 .. (Len(log) + 1)
        /\ log'[Len(log) + 1] = entry(at)
        /\ \A i \in DOMAIN log : log'[i] = log[i]
    BY <1>1, <1>3 DEF TrialTypeOK
  <1>6. \A i \in DOMAIN log' :
          /\ log'[i].seq = i /\ log'[i].rev \in 0 .. Rev' /\ log'[i].at \in 0 .. MaxClock
          /\ log'[i].target = "timing" => log'[i].id \in Kinds
    BY <1>2, <1>3, <1>5, RevFacts DEF TrialTypeOK
  <1>7. ran' \in Nat /\ clock' \in 0 .. MaxClock
    BY <1>1, <1>2, RevFacts DEF Recording
  <1>8. QED
    BY <1>1, <1>2, <1>4, <1>5, <1>6, <1>7 DEF TrialTypeOK, Recording, Sound

\* The active time grows with the time the clock was shown running.
LEMMA RecordOneTime ==
  ASSUME TrialTypeOK, TimeInv, NEW target \in {"timing", "candidate", "boundary"},
         NEW id \in Kinds \cup Candidates, target = "timing" => id \in Kinds, NEW value \in Values,
         Record(<<Event(target, id, value)>>)
  PROVE  TimeInv'
  <1> DEFINE entry(at) == Entry(Len(log) + 1, at, target, id, value)
             kind == IF target = "timing" THEN id ELSE "label"
  <1>1. PICK at \in {clock, clock + 1} :
          Recording(at, kind) /\ folded' = OnTiming(folded, entry(at))
    BY RecordOne
  <1>2. at \in Nat /\ Rev \in Nat /\ clock' = at
    BY <1>1, RevFacts, TrialBounds DEF Recording
  <1>3. /\ entry(at) \in EvidenceEvents /\ entry(at).at = at
        /\ entry(at).target = target /\ entry(at).id = id
    BY <1>2, RevFacts DEF Entry, EvidenceEvents, Values
  <1> HIDE DEF entry
  <1>4. Sound(folded') /\ Stretch' = StretchOf(folded', at) /\ folded'.active \in Nat
        /\ StretchOf(folded', at) \in Nat
    <2>1. Sound(folded')
      BY <1>1, <1>3, OnTimingSound, RevFacts
    <2>2. QED
      BY <1>2, <2>1, StretchTick DEF Stretch, StretchOf, Sound, Summaries
  <1>5. CASE target = "timing" /\ id = "baseline"
    <2>1. ran' = 0
      BY <1>1, <1>5 DEF Recording
    <2>2. folded' = [NoTiming EXCEPT !.baseline = entry(at).value, !.last = entry(at).at]
      BY <1>1, <1>3, <1>5, OnTimingCases
    <2>3. folded'.active = 0 /\ folded'.state = "not_started"
      BY <2>2 DEF NoTiming
    <2>4. QED
      BY <1>4, <2>1, <2>3 DEF TimeInv, StretchOf
  <1>6. CASE ~(target = "timing" /\ id = "baseline")
    <2> DEFINE tick == IF at > clock /\ Counting(at) THEN 1 ELSE 0
    <2>1. ran' = ran + tick /\ tick \in Nat
      BY <1>1, <1>6 DEF Recording
    <2>2. folded'.active + StretchOf(folded', at) <= folded.active + StretchOf(folded, at)
      BY <1>1, <1>3, <1>6, OnTimingTime, RevFacts
    <2>3. /\ StretchOf(folded, at) \in Nat /\ StretchOf(folded, clock) \in Nat
          /\ StretchOf(folded, at) <= StretchOf(folded, clock) + tick
      BY <1>1, StretchTick, RevFacts DEF Counting, Clock
    <2> HIDE DEF tick
    <2>4. /\ folded.active + StretchOf(folded, clock) <= ran
          /\ folded.active \in Nat /\ ran \in Nat
      BY RevFacts DEF TimeInv
    <2>5. folded'.active + StretchOf(folded', at) <= ran'
      BY <1>4, <2>1, <2>2, <2>3, <2>4
    <2>6. QED
      BY <1>4, <2>5 DEF TimeInv
  <1>7. QED
    BY <1>5, <1>6

\* The measurement and the first start, recorded together.
LEMMA BeginRecords ==
  ASSUME TrialTypeOK, NEW session \in Sessions, NEW baseline \in Baselines,
         BeginTiming(session, baseline)
  PROVE  /\ TrialTypeOK' /\ TimeInv'
         /\ UNCHANGED <<enrolled, records>>
         /\ Len(log') = Len(log) + 2 /\ \A i \in DOMAIN log : log'[i] = log[i]
         /\ \A i \in {Len(log) + 1, Len(log) + 2} : log'[i].target = "timing" /\ log'[i].rev = Rev
         /\ log'[Len(log) + 2].id = "start"
  <1> DEFINE one(at) == Entry(Len(log) + 1, at, "timing", "baseline", baseline)
             two(at) == Entry(Len(log) + 2, at, "timing", "start", session)
  <1>1. PICK at \in {clock, clock + 1} :
          /\ Recording(at, "baseline") /\ log' = log \o <<one(at), two(at)>>
          /\ folded' = OnTiming(OnTiming(folded, one(at)), two(at))
    <2>1. Record(<<Event("timing", "baseline", baseline), Event("timing", "start", session)>>)
      BY DEF BeginTiming
    <2>2. QED
      BY <2>1, RecordTwo
  <1>2. at \in 0 .. MaxClock /\ at \in Nat /\ Rev \in Nat /\ Rev' = Rev /\ Len(log) \in Nat
    BY <1>1, RevFacts, TrialBounds DEF Recording, TrialTypeOK
  <1>3. /\ one(at) \in EvidenceEvents /\ one(at).seq = Len(log) + 1 /\ one(at).rev = Rev
        /\ one(at).at = at /\ one(at).target = "timing" /\ one(at).id = "baseline"
    BY <1>2 DEF Entry, EvidenceEvents, Kinds
  <1>4. /\ two(at) \in EvidenceEvents /\ two(at).seq = Len(log) + 2 /\ two(at).rev = Rev
        /\ two(at).at = at /\ two(at).target = "timing" /\ two(at).id = "start"
    BY <1>2 DEF Entry, EvidenceEvents, Kinds
  <1> HIDE DEF one, two
  <1>5. /\ log' \in Seq(EvidenceEvents) /\ Len(log') = Len(log) + 2
        /\ log'[Len(log) + 1] = one(at) /\ log'[Len(log) + 2] = two(at)
        /\ \A i \in DOMAIN log : log'[i] = log[i]
    BY <1>1, <1>2, <1>3, <1>4 DEF TrialTypeOK
  <1> DEFINE begun == OnTiming(folded, one(at))
  <1>6. Sound(begun) /\ begun.active = 0 /\ begun.state = "not_started"
    <2>1. Sound(begun)
      BY <1>3, OnTimingSound, RevFacts DEF Kinds
    <2>2. begun = [NoTiming EXCEPT !.baseline = one(at).value, !.last = one(at).at]
      BY <1>3, OnTimingCases
    <2>3. QED
      BY <2>1, <2>2 DEF NoTiming
  <1> HIDE DEF begun
  <1>7. Sound(folded') /\ folded'.active = 0 /\ Stretch' = 0
    <2>1. Sound(folded') /\ folded' = OnTiming(begun, two(at))
      BY <1>1, <1>4, <1>6, OnTimingSound DEF Kinds, begun
    <2>2. folded' = [begun EXCEPT !.state = "running", !.session = two(at).value, !.last = two(at).at]
      BY <1>4, <1>6, <2>1, OnTimingCases DEF Started
    <2>3. folded'.active = 0 /\ folded'.last = at
      BY <1>4, <1>6, <2>2 DEF Sound, Summaries
    <2>4. QED
      BY <1>1, <1>2, <2>1, <2>3, StaleAfterIsNat DEF Recording, Stretch
  <1>8. \A i \in DOMAIN log' :
          /\ log'[i].seq = i /\ log'[i].rev \in 0 .. Rev' /\ log'[i].at \in 0 .. MaxClock
          /\ log'[i].target = "timing" => log'[i].id \in Kinds
    <2>1. \A i \in DOMAIN log' : i \in DOMAIN log \/ i = Len(log) + 1 \/ i = Len(log) + 2
      BY <1>2, <1>5, RevFacts
    <2>2. \A i \in DOMAIN log :
            /\ log[i].seq = i /\ log[i].rev \in 0 .. Rev /\ log[i].at \in 0 .. MaxClock
            /\ log[i].target = "timing" => log[i].id \in Kinds
      BY DEF TrialTypeOK
    <2>3. "baseline" \in Kinds /\ "start" \in Kinds
      BY DEF Kinds
    <2>4. QED
      BY <1>2, <1>3, <1>4, <1>5, <2>1, <2>2, <2>3
  <1>9. TimeInv'
    BY <1>1, <1>7 DEF TimeInv, Recording
  <1>10. TrialTypeOK'
    BY <1>1, <1>2, <1>5, <1>7, <1>8 DEF TrialTypeOK, Recording, Sound
  <1>11. QED
    BY <1>1, <1>3, <1>4, <1>5, <1>9, <1>10 DEF Recording

-----------------------------------------------------------------------------
(***************************************************************************)
(* The steps, by what they do to the records, the log and the clock.       *)
(***************************************************************************)
\* A request that records one event, with what it checked first.
Noting(target, id, value) ==
  /\ target \in {"timing", "candidate", "boundary"} /\ id \in Kinds \cup Candidates /\ value \in Values
  /\ Record(<<Event(target, id, value)>>)
  /\ target # "timing" => Labelling
  /\ target = "timing" =>
       /\ id \in Kinds
       /\ id \in {"baseline", "start", "finish"} => enrolled
       /\ id \in {"baseline", "start"} => Clock.state \notin {"running", "finished"}
       /\ id = "baseline" => OriginOpen(Draft)
       /\ id = "start" => value \in Sessions /\ (Starts # {} \/ OriginOpen(Draft))
       /\ id \in {"heartbeat", "pause"} => Clock.state = "running" /\ Clock.session = value
       /\ id = "finish" => Clock.state \notin {"not_started", "finished"}

\* A request or a job in the background that commits a command record.
Committing(kind, of) ==
  /\ kind \in Decisions \cup {"machine", "export"} /\ of \in SUBSET Candidates
  /\ Commit(kind, of)
  /\ kind \in Decisions => EditingActive
  /\ exporting' \in {exporting, None} /\ reviewing' \in {reviewing, None}

\* The rest: nothing is recorded or committed.
Passing ==
  /\ UNCHANGED <<enrolled, records, log, folded, overrun, unclocked>>
  /\ exporting' \in {exporting, Rev, None} /\ reviewing' \in {reviewing, Rev, None}
  /\ UNCHANGED <<clock, ran, back>> \/ Tick \/ SetBack

LEMMA TrialSteps ==
  ASSUME [TrialNext]_trialVars
  PROVE  \/ \E target, id, value : Noting(target, id, value)
         \/ \E session \in Sessions, baseline \in Baselines : BeginTiming(session, baseline)
         \/ \E kind, of : Committing(kind, of)
         \/ Passing
  <1>1. CASE UNCHANGED trialVars
    BY <1>1 DEF trialVars, Passing
  <1>2. ASSUME NEW b \in Baselines, SetBaseline(b) PROVE Noting("timing", "baseline", b)
    BY <1>2 DEF SetBaseline, TimingEvent, Noting, Values, Kinds
  <1>3. ASSUME NEW s \in Sessions, StartTiming(s) PROVE Noting("timing", "start", s)
    BY <1>3 DEF StartTiming, TimingEvent, Noting, Values, Kinds
  <1>4. ASSUME NEW s \in Sessions, Heartbeat(s) PROVE Noting("timing", "heartbeat", s)
    BY <1>4 DEF Heartbeat, Active, TimingEvent, Noting, Values, Kinds
  <1>5. ASSUME NEW s \in Sessions, PauseTiming(s) PROVE Noting("timing", "pause", s)
    BY <1>5 DEF PauseTiming, Active, TimingEvent, Noting, Values, Kinds
  <1>6. CASE FinishTiming
    <2>1. Noting("timing", "finish", None)
      BY <1>6 DEF FinishTiming, TimingEvent, Noting, Values, Kinds
    <2>2. QED
      BY <2>1
  <1>7. ASSUME NEW c \in Candidates, NEW v \in Verdicts, LabelCandidate(c, v)
        PROVE  Noting("candidate", c, v)
    BY <1>7 DEF LabelCandidate, Noting, Values
  <1>8. ASSUME NEW b \in Candidates, NEW v \in Verdicts, LabelBoundary(b, v)
        PROVE  Noting("boundary", b, v)
    BY <1>8 DEF LabelBoundary, Noting, Values
  <1>9. ASSUME NEW c \in Candidates, NEW kind \in Decisions, Decide(c, kind)
        PROVE  Committing(kind, {c})
    BY <1>9 DEF Decide, Committing
  <1>10. CASE AgentEdit
    <2>1. Committing("machine", {})
      BY <1>10 DEF AgentEdit, Committing, Decisions
    <2>2. QED
      BY <2>1
  <1>11. CASE RequestExport
    BY <1>11 DEF RequestExport, Passing
  <1>12. CASE EndExport
    <2>1. CASE exporting = Rev
      <3>1. Committing("export", {})
        BY <1>12, <2>1 DEF EndExport, Committing, Decisions
      <3>2. QED
        BY <3>1
    <2>2. CASE exporting # Rev
      BY <1>12, <2>2 DEF EndExport, Passing
    <2>3. QED
      BY <2>1, <2>2
  <1>13. CASE BeginReview
    BY <1>13 DEF BeginReview, Passing
  <1>14. CASE EndReview
    <2>1. CASE reviewing = Rev
      <3>1. Committing("machine", Suggested)
        BY <1>14, <2>1, TrialBounds DEF EndReview, Committing, Decisions
      <3>2. QED
        BY <3>1
    <2>2. CASE reviewing # Rev
      BY <1>14, <2>2 DEF EndReview, Passing
    <2>3. QED
      BY <2>1, <2>2
  <1>15. CASE Tick
    BY <1>15 DEF Tick, Passing
  <1>16. CASE SetBack
    BY <1>16 DEF SetBack, Passing
  <1>17. QED
    BY <1>1, <1>2, <1>3, <1>4, <1>5, <1>6, <1>7, <1>8, <1>9, <1>10, <1>11, <1>12, <1>13, <1>14,
       <1>15, <1>16 DEF TrialNext

\* A record more is the last one, of the next revision.
LEMMA CommitFacts ==
  ASSUME TrialTypeOK, NEW kind, NEW of, Committing(kind, of)
  PROVE  /\ records' \in Seq(CommandRecords) /\ Rev' = Rev + 1
         /\ DOMAIN records' = 1 .. (Rev + 1)
         /\ \A i \in DOMAIN records : records'[i] = records[i]
         /\ records'[Rev + 1].kind = kind
         /\ UNCHANGED <<enrolled, log, folded, clock, back, ran, overrun>>
         /\ unclocked' \in BOOLEAN
  <1>1. [kind |-> kind, of |-> of] \in CommandRecords
    BY DEF Committing, CommandRecords
  <1>2. records \in Seq(CommandRecords) /\ records' = Append(records, [kind |-> kind, of |-> of])
    BY DEF Committing, Commit, TrialTypeOK
  <1>3. QED
    BY <1>1, <1>2 DEF Committing, Commit, TrialTypeOK, Rev

LEMMA TrialTypeStep ==
  ASSUME TrialTypeOK, [TrialNext]_trialVars
  PROVE  TrialTypeOK'
  <1>1. ASSUME NEW target, NEW id, NEW value, Noting(target, id, value) PROVE TrialTypeOK'
    BY <1>1, RecordOneType DEF Noting
  <1>2. ASSUME NEW s \in Sessions, NEW b \in Baselines, BeginTiming(s, b) PROVE TrialTypeOK'
    BY <1>2, BeginRecords
  <1>3. ASSUME NEW kind, NEW of, Committing(kind, of) PROVE TrialTypeOK'
    <2>1. Rev \in Nat /\ Rev' = Rev + 1 /\ 0 .. Rev \subseteq 0 .. Rev'
      BY <1>3, CommitFacts, RevFacts
    <2>2. exporting' \in {None} \cup 0 .. Rev' /\ reviewing' \in {None} \cup 0 .. Rev'
      BY <1>3, <2>1 DEF Committing, TrialTypeOK
    <2>3. QED
      BY <1>3, <2>1, <2>2, CommitFacts DEF TrialTypeOK
  <1>4. CASE Passing
    <2>1. Rev \in Nat /\ Rev' = Rev
      BY <1>4, RevFacts DEF Passing
    <2>2. exporting' \in {None} \cup 0 .. Rev' /\ reviewing' \in {None} \cup 0 .. Rev'
      BY <1>4, <2>1 DEF Passing, TrialTypeOK
    <2>3. clock' \in 0 .. MaxClock /\ ran' \in Nat /\ back' \in 0 .. MaxBack
      <3>0. /\ clock \in 0 .. MaxClock /\ ran \in Nat /\ back \in 0 .. MaxBack
            /\ MaxClock \in Nat /\ MaxBack \in Nat
        BY TrialBounds DEF TrialTypeOK
      <3>1. CASE UNCHANGED <<clock, ran, back>>
        BY <3>0, <3>1
      <3>2. CASE Tick
        BY <3>0, <3>2 DEF Tick
      <3>3. CASE SetBack
        BY <3>0, <3>3 DEF SetBack
      <3>4. QED
        BY <1>4, <3>1, <3>2, <3>3 DEF Passing
    <2>4. QED
      BY <1>4, <2>1, <2>2, <2>3 DEF Passing, TrialTypeOK
  <1>5. QED
    BY <1>1, <1>2, <1>3, <1>4, TrialSteps

LEMMA TimeStep ==
  ASSUME TrialTypeOK, TimeInv, [TrialNext]_trialVars
  PROVE  TimeInv'
  <1>0. Rev \in Nat /\ clock \in Nat /\ ran \in Nat /\ Sound(folded) /\ folded.active \in Nat
        /\ StretchOf(folded, clock) = Stretch
    BY RevFacts
  <1>1. ASSUME NEW target, NEW id, NEW value, Noting(target, id, value) PROVE TimeInv'
    BY <1>1, RecordOneTime DEF Noting
  <1>2. ASSUME NEW s \in Sessions, NEW b \in Baselines, BeginTiming(s, b) PROVE TimeInv'
    BY <1>2, BeginRecords
  <1>3. ASSUME NEW kind, NEW of, Committing(kind, of) PROVE TimeInv'
    BY <1>3, CommitFacts DEF TimeInv, Stretch
  <1>4. CASE Passing
    <2>1. CASE UNCHANGED <<clock, ran, back>>
      BY <1>4, <2>1 DEF Passing, TimeInv, Stretch
    <2>2. CASE Tick
      <3> DEFINE tick == IF Clock.state = "running" /\ Bounded(folded.last, clock + 1) # None THEN 1 ELSE 0
      <3>1. clock' = clock + 1 /\ ran' = ran + tick /\ UNCHANGED folded /\ tick \in Nat
        BY <2>2 DEF Tick
      <3>2. /\ StretchOf(folded, clock + 1) \in Nat /\ StretchOf(folded, clock) \in Nat
            /\ StretchOf(folded, clock + 1) <= StretchOf(folded, clock) + tick
        BY <1>0, StretchTick DEF Clock
      <3>3. Stretch' = StretchOf(folded, clock + 1)
        BY <3>1 DEF Stretch, StretchOf
      <3> HIDE DEF tick
      <3>4. QED
        BY <1>0, <3>1, <3>2, <3>3 DEF TimeInv
    <2>3. CASE SetBack
      <3>1. clock' = clock - 1 /\ UNCHANGED <<folded, ran>> /\ clock' \in Nat
        BY <1>0, <2>3 DEF SetBack
      <3>2. Stretch' <= Stretch /\ Stretch' \in Nat /\ Stretch \in Nat
        <4>1. folded.state = "running" => folded.last \in Nat
          BY <1>0 DEF Sound
        <4>2. QED
          BY <1>0, <3>1, <4>1, StaleAfterIsNat DEF Stretch
      <3>3. QED
        BY <1>0, <3>1, <3>2 DEF TimeInv
    <2>4. QED
      BY <1>4, <2>1, <2>2, <2>3 DEF Passing
  <1>5. QED
    BY <1>1, <1>2, <1>3, <1>4, TrialSteps

-----------------------------------------------------------------------------
(***************************************************************************)
(* The records, the first start and the labels.                            *)
(***************************************************************************)
\* What the draft says depends on the records alone.
LEMMA SameDraft ==
  ASSUME UNCHANGED <<enrolled, records>>
  PROVE  Draft' = Draft /\ Rev' = Rev /\ HumanRevisions' = HumanRevisions /\ Exports' = Exports
  BY DEF Draft, Rev, HumanRevisions, Exports, Known, StateOf

\* A record more is one of a person's, of an export's, or neither.
LEMMA CommitRevisions ==
  ASSUME TrialTypeOK, NEW kind, NEW of, Committing(kind, of)
  PROVE  /\ HumanRevisions' = IF kind \in Decisions THEN HumanRevisions \cup {Rev + 1} ELSE HumanRevisions
         /\ Exports' = IF kind = "export" THEN Exports \cup {Rev + 1} ELSE Exports
         /\ HumanRevisions \subseteq 1 .. Rev /\ Exports \subseteq 1 .. Rev
  <1>1. /\ DOMAIN records = 1 .. Rev /\ Rev \in Nat /\ DOMAIN records' = 1 .. (Rev + 1)
        /\ \A i \in DOMAIN records : records'[i] = records[i]
        /\ records'[Rev + 1].kind = kind
    BY CommitFacts, RevFacts
  <1>2. \A i \in DOMAIN records' : i \in DOMAIN records \/ i = Rev + 1
    BY <1>1
  <1>3. DOMAIN records' = DOMAIN records \cup {Rev + 1}
    BY <1>1
  <1>4. QED
    BY <1>1, <1>3 DEF HumanRevisions, Exports

LEMMA RecordsStep ==
  ASSUME TrialTypeOK, RecordsInv, [TrialNext]_trialVars
  PROVE  RecordsInv'
  <1>1. CASE UNCHANGED <<enrolled, records>>
    BY <1>1, SameDraft DEF RecordsInv
  <1>2. ASSUME NEW kind, NEW of, Committing(kind, of) PROVE RecordsInv'
    <2>1. /\ HumanRevisions \subseteq 1 .. Rev /\ Exports \subseteq 1 .. Rev /\ Rev \in Nat
          /\ HumanRevisions' = IF kind \in Decisions THEN HumanRevisions \cup {Rev + 1} ELSE HumanRevisions
          /\ Exports' = IF kind = "export" THEN Exports \cup {Rev + 1} ELSE Exports
      BY <1>2, CommitRevisions, RevFacts
    <2>2. HumanRevisions' # {} => \E i \in HumanRevisions' : \A j \in HumanRevisions' : i <= j
      <3>1. CASE HumanRevisions = {}
        BY <2>1, <3>1
      <3>2. CASE HumanRevisions # {}
        <4>1. PICK i \in HumanRevisions : \A j \in HumanRevisions : i <= j
          BY <3>2 DEF RecordsInv
        <4>2. i \in HumanRevisions' /\ \A j \in HumanRevisions' : i <= j
          BY <2>1, <4>1
        <4>3. QED
          BY <4>2
      <3>3. QED
        BY <3>1, <3>2
    <2>3. Exports' # {} => \E i \in Exports' : \A j \in Exports' : j <= i
      <3>1. CASE kind = "export"
        <4>1. Rev + 1 \in Exports' /\ \A j \in Exports' : j <= Rev + 1
          BY <2>1, <3>1
        <4>2. QED
          BY <4>1
      <3>2. CASE kind # "export"
        BY <2>1, <3>2 DEF RecordsInv
      <3>3. QED
        BY <3>1, <3>2
    <2>4. QED
      BY <2>2, <2>3 DEF RecordsInv
  <1>3. ASSUME NEW target, NEW id, NEW value, Noting(target, id, value)
        PROVE  UNCHANGED <<enrolled, records>>
    BY <1>3, RecordOne DEF Noting, Recording
  <1>4. ASSUME NEW s \in Sessions, NEW b \in Baselines, BeginTiming(s, b)
        PROVE  UNCHANGED <<enrolled, records>>
    BY <1>4, BeginRecords
  <1>5. Passing => UNCHANGED <<enrolled, records>>
    BY DEF Passing
  <1>6. QED
    BY <1>1, <1>2, <1>3, <1>4, <1>5, TrialSteps

\* As long as the origin is open nobody has decided anything.
LEMMA OpenOrigin ==
  ASSUME TrialTypeOK, RecordsInv, OriginOpen(Draft)
  PROVE  HumanRevisions = {}
  <1> SUFFICES ASSUME HumanRevisions # {} PROVE FALSE
    OBVIOUS
  <1>1. PICK i \in HumanRevisions : \A j \in HumanRevisions : i <= j
    BY DEF RecordsInv
  <1>2. \A j \in HumanRevisions : j \in Int /\ j <= Rev
    BY RevFacts DEF HumanRevisions
  <1>3. Min(HumanRevisions) \in HumanRevisions
    BY <1>1 DEF Min
  <1>4. Draft.first = Min(HumanRevisions) /\ Draft.rev = Rev
    BY DEF Draft
  <1>5. Min(HumanRevisions) \in Int /\ Min(HumanRevisions) <= Rev
    BY <1>2, <1>3
  <1>6. Draft.first = None \/ Draft.rev < Draft.first
    BY DEF OriginOpen
  <1>7. QED
    BY <1>4, <1>5, <1>6, RevFacts, NoneIsNoNumber

\* The export that counts is the last record.
LEMMA AcceptedIsLast ==
  ASSUME TrialTypeOK, RecordsInv, ExportAccepted(Draft)
  PROVE  Rev \in DOMAIN records /\ records[Rev].kind = "export"
  <1>1. Draft.rev = Rev
    BY DEF Draft
  <1>2. Exports # {}
    BY DEF ExportAccepted, Draft
  <1>3. PICK i \in Exports : \A j \in Exports : j <= i
    BY <1>2 DEF RecordsInv
  <1>4. \A j \in Exports : j \in Int
    BY RevFacts DEF Exports
  <1>5. Max(Exports) \in Exports
    BY <1>3, <1>4 DEF Max
  <1>6. Draft.export.source = Max(Exports) - 1
    BY <1>2 DEF Draft
  <1>7. Max(Exports) = Rev
    <2>1. Max(Exports) \in Int
      BY <1>4, <1>5
    <2>2. Draft.export.source + 1 = Draft.rev
      BY DEF ExportAccepted
    <2>3. QED
      BY <1>1, <1>4, <1>6, <2>1, <2>2
  <1>8. QED
    BY <1>5, <1>7 DEF Exports

\* Where an event goes, and what it changes besides.
Noted(target, id, value, e) ==
  /\ e.target = target /\ e.id = id /\ e.rev = Rev /\ e.value = value /\ e.request = Len(log) + 1
  /\ log' = Append(log, e) /\ Len(log') = Len(log) + 1 /\ log'[Len(log) + 1] = e
  /\ \A i \in DOMAIN log : log'[i] = log[i]
  /\ DOMAIN log' = DOMAIN log \cup {Len(log) + 1}
  /\ folded' = OnTiming(folded, e)
  /\ overrun' = (overrun \/ Late(e.at, IF target = "timing" THEN id ELSE "label"))
  /\ UNCHANGED <<enrolled, records>>

LEMMA NotingFacts ==
  ASSUME TrialTypeOK, NEW target, NEW id, NEW value, Noting(target, id, value)
  PROVE  \E e \in EvidenceEvents : Noted(target, id, value, e)
  <1>1. PICK at \in {clock, clock + 1} :
          /\ Recording(at, IF target = "timing" THEN id ELSE "label")
          /\ log' = Append(log, Entry(Len(log) + 1, at, target, id, value))
          /\ folded' = OnTiming(folded, Entry(Len(log) + 1, at, target, id, value))
    BY RecordOne DEF Noting
  <1> DEFINE e == Entry(Len(log) + 1, at, target, id, value)
  <1>2. /\ e \in EvidenceEvents /\ e.target = target /\ e.id = id /\ e.rev = Rev
        /\ e.value = value /\ e.request = Len(log) + 1 /\ e.at = at
    BY RevFacts DEF Entry, EvidenceEvents, Noting, Values
  <1>3. log' = Append(log, e) /\ folded' = OnTiming(folded, e) /\ log \in Seq(EvidenceEvents)
    BY <1>1 DEF TrialTypeOK
  <1> HIDE DEF e
  <1>4. /\ UNCHANGED <<enrolled, records>>
        /\ overrun' = (overrun \/ Late(e.at, IF target = "timing" THEN id ELSE "label"))
    BY <1>1, <1>2 DEF Recording
  <1>5. /\ Len(log') = Len(log) + 1 /\ log'[Len(log) + 1] = e
        /\ \A i \in DOMAIN log : log'[i] = log[i]
        /\ DOMAIN log' = DOMAIN log \cup {Len(log) + 1}
    BY <1>2, <1>3
  <1>6. QED
    BY <1>2, <1>3, <1>4, <1>5 DEF Noted

\* An earlier start is still the first when events are only added.
LEMMA StartedFirstKept ==
  ASSUME StartedFirst, UNCHANGED <<enrolled, records>>,
         \A i \in DOMAIN log : i \in DOMAIN log' /\ log'[i] = log[i]
  PROVE  StartedFirst'
  <1>1. HumanRevisions' = HumanRevisions
    BY SameDraft
  <1>2. PICK i \in Starts : \A j \in HumanRevisions : log[i].rev < j
    BY DEF StartedFirst
  <1>3. i \in Starts' /\ log'[i].rev = log[i].rev
    BY <1>2 DEF Starts
  <1>4. QED
    BY <1>1, <1>2, <1>3 DEF StartedFirst

LEMMA StartStep ==
  ASSUME TrialTypeOK, RecordsInv, StartInv, [TrialNext]_trialVars
  PROVE  StartInv'
  <1>1. ASSUME NEW target, NEW id, NEW value, Noting(target, id, value), enrolled PROVE StartedFirst' \/ ~enrolled' \/
               (Starts' = {} /\ folded'.state = "not_started")
    <2>0. PICK e \in EvidenceEvents : Noted(target, id, value, e)
      BY <1>1, NotingFacts
    <2>1. /\ e.target = target /\ e.id = id /\ e.rev = Rev
          /\ log'[Len(log) + 1] = e
          /\ \A i \in DOMAIN log : log'[i] = log[i]
          /\ DOMAIN log' = DOMAIN log \cup {Len(log) + 1}
          /\ folded' = OnTiming(folded, e)
          /\ UNCHANGED <<enrolled, records>>
      BY <2>0 DEF Noted
    <2>2. StartedFirst => StartedFirst'
      BY <2>1, StartedFirstKept
    <2>3. CASE target = "timing" /\ id = "start"
      <3>1. Starts # {} \/ OriginOpen(Draft)
        BY <1>1, <2>3 DEF Noting
      <3>2. CASE Starts # {}
        BY <1>1, <2>2, <3>2 DEF StartInv
      <3>3. CASE OriginOpen(Draft)
        <4>1. HumanRevisions' = {}
          BY <2>1, <3>3, OpenOrigin, SameDraft
        <4>2. Len(log) + 1 \in Starts'
          BY <2>1, <2>3 DEF Starts
        <4>3. QED
          BY <4>1, <4>2 DEF StartedFirst
      <3>4. QED
        BY <3>1, <3>2, <3>3
    <2>4. CASE ~(target = "timing" /\ id = "start") /\ (folded.state # "not_started" \/ Starts # {})
      BY <1>1, <2>2, <2>4 DEF StartInv
    <2>5. CASE ~(target = "timing" /\ id = "start") /\ folded.state = "not_started" /\ Starts = {}
      <3>1. Starts' = {}
        BY <2>1, <2>5 DEF Starts
      <3>2. Clock.state = "not_started"
        BY <2>5 DEF Clock, Shown
      <3>3. ~Labelling
        BY <1>1, <3>2 DEF Labelling, Clock, Shown
      <3>4. target = "timing" /\ id = "baseline"
        BY <1>1, <2>5, <3>2, <3>3 DEF Noting, Kinds
      <3>5. folded' = [NoTiming EXCEPT !.baseline = e.value, !.last = e.at]
        <4>1. e.target = "timing" /\ e.id = "baseline"
          BY <2>1, <3>4
        <4>2. OnTiming(folded, e) = [NoTiming EXCEPT !.baseline = e.value, !.last = e.at]
          BY <4>1, OnTimingCases
        <4>3. QED
          BY <2>1, <4>2
      <3>6. folded'.state = "not_started"
        BY <3>5 DEF NoTiming
      <3>7. QED
        BY <3>1, <3>6
    <2>6. QED
      BY <2>3, <2>4, <2>5
  <1>2. ASSUME NEW s \in Sessions, NEW b \in Baselines, BeginTiming(s, b) PROVE StartedFirst'
    <2>1. HumanRevisions' = {}
      BY <1>2, OpenOrigin, BeginRecords, SameDraft DEF BeginTiming
    <2>2. Len(log) + 2 \in Starts'
      <3>1. /\ log' \in Seq(EvidenceEvents) /\ Len(log') = Len(log) + 2 /\ Len(log) \in Nat
            /\ log'[Len(log) + 2].target = "timing" /\ log'[Len(log) + 2].id = "start"
        BY <1>2, BeginRecords, RevFacts DEF TrialTypeOK
      <3>2. QED
        BY <3>1 DEF Starts
    <2>3. QED
      BY <2>1, <2>2 DEF StartedFirst
  <1>3. ASSUME NEW kind, NEW of, Committing(kind, of) PROVE StartInv'
    <2>1. UNCHANGED <<enrolled, log, folded>> /\ Starts' = Starts
      BY <1>3, CommitFacts DEF Starts
    <2>2. \A i \in Starts : log[i].rev <= Rev /\ log[i].rev \in Int
      BY RevFacts DEF TrialTypeOK, Starts
    <2>3. \A j \in HumanRevisions' : j \in HumanRevisions \/ j = Rev + 1
      BY <1>3, CommitRevisions
    <2>4. StartedFirst => StartedFirst'
      BY <2>1, <2>2, <2>3, RevFacts DEF StartedFirst
    <2>5. QED
      BY <2>1, <2>4 DEF StartInv
  <1>4. CASE Passing
    <2>1. UNCHANGED <<enrolled, records, log, folded>> /\ Starts' = Starts
      BY <1>4 DEF Passing, Starts
    <2>2. StartedFirst => StartedFirst'
      BY <2>1, StartedFirstKept
    <2>3. QED
      BY <2>1, <2>2 DEF StartInv
  <1>5. ASSUME NEW target, NEW id, NEW value, Noting(target, id, value) PROVE StartInv'
    <2>1. UNCHANGED enrolled
      BY <1>5, NotingFacts DEF Noted
    <2>2. QED
      BY <1>1, <1>5, <2>1 DEF StartInv
  <1>6. QED
    BY <1>2, <1>3, <1>4, <1>5, TrialSteps DEF StartInv

\* A run is complete by what the log derives to and by the revision: the clock
\* does not matter once it is finished.
LEMMA ShownComplete ==
  ASSUME NEW t, Sound(t), NEW now, NEW rev \in Nat
  PROVE  /\ Shown(t, now, rev).complete <=>
              t.state = "finished" /\ rev <= t.finished /\ t.baseline # None /\ t.active > 0
         /\ Shown(t, now, rev).complete => Shown(t, now, rev).state = "finished"
         /\ t.state = "not_started" => Shown(t, now, rev).state = "not_started"
  <1>1. t.state = "finished" => t.finished \in Nat
    BY DEF Sound
  <1> DEFINE shown == IF t.state = "finished" /\ t.finished < rev THEN "paused"
                      ELSE IF t.state = "running" /\ Bounded(t.last, now) = None THEN "paused"
                      ELSE t.state
  <1>2. t.state = "finished" /\ t.finished < rev => shown # "finished"
    OBVIOUS
  <1>3. t.state # "finished" => shown # "finished"
    OBVIOUS
  <1>4. t.state = "finished" /\ ~(t.finished < rev) => shown = "finished"
    OBVIOUS
  <1>5. t.state = "finished" => (rev <= t.finished <=> ~(t.finished < rev))
    BY <1>1
  <1>6. shown = "finished" <=> t.state = "finished" /\ rev <= t.finished
    BY <1>2, <1>3, <1>4, <1>5
  <1>7. t.state = "not_started" => shown = "not_started"
    OBVIOUS
  <1>8. /\ Shown(t, now, rev).state = shown
        /\ Shown(t, now, rev).complete = (shown = "finished" /\ t.baseline # None /\ t.active > 0)
    BY DEF Shown
  <1> HIDE DEF shown
  <1>9. QED
    BY <1>6, <1>7, <1>8

\* A label of the present revision is on file.
LabelledNow == \E i \in DOMAIN log : log[i].target # "timing" /\ log[i].rev = Rev

LEMMA LabelStep ==
  ASSUME TrialTypeOK, TrialTypeOK', LabelInv, [TrialNext]_trialVars
  PROVE  LabelInv'
  <1>0. Rev \in Nat /\ Rev' \in Nat /\ Sound(folded) /\ Sound(folded')
    BY RevFacts DEF TrialTypeOK, Rev, Sound
  <1>1. ASSUME UNCHANGED <<enrolled, records, folded>>, ReviewDone(Draft), ExportAccepted(Draft),
               enrolled => Clock.complete
        PROVE  LabelInv'
    <2>1. Draft' = Draft /\ Rev' = Rev
      BY <1>1, SameDraft
    <2>2. Clock.complete <=> Shown(folded, clock', Rev).complete
      BY <1>0, ShownComplete DEF Clock
    <2>3. Clock' = Shown(folded, clock', Rev)
      BY <1>1, <2>1 DEF Clock
    <2>4. QED
      BY <1>1, <2>1, <2>2, <2>3 DEF LabelInv
  <1>2. ASSUME NEW target, NEW id, NEW value, Noting(target, id, value) PROVE LabelInv'
    <2>0. PICK e \in EvidenceEvents : Noted(target, id, value, e)
      BY <1>2, NotingFacts
    <2>1. /\ e.target = target /\ log'[Len(log) + 1] = e
          /\ \A i \in DOMAIN log : log'[i] = log[i]
          /\ DOMAIN log' = DOMAIN log \cup {Len(log) + 1}
          /\ folded' = OnTiming(folded, e)
          /\ UNCHANGED <<enrolled, records>>
      BY <2>0 DEF Noted
    <2>2. Draft' = Draft /\ Rev' = Rev
      BY <2>1, SameDraft
    <2>3. CASE target # "timing"
      <3>1. UNCHANGED folded
        <4>1. e.target # "timing"
          BY <2>1, <2>3
        <4>2. OnTiming(folded, e) = folded
          BY <4>1, OnTimingCases
        <4>3. QED
          BY <2>1, <4>2
      <3>2. Labelling
        BY <1>2, <2>3 DEF Noting
      <3>3. QED
        BY <1>1, <2>1, <3>1, <3>2 DEF Labelling
    <2>4. CASE target = "timing" /\ ~LabelledNow
      <3>1. \A i \in DOMAIN log' : log'[i].target # "timing" => log'[i].rev # Rev'
        BY <2>1, <2>2, <2>4 DEF LabelledNow
      <3>2. QED
        BY <3>1 DEF LabelInv
    <2>5. CASE target = "timing" /\ LabelledNow
      <3>1. ReviewDone(Draft) /\ ExportAccepted(Draft) /\ (enrolled => Clock.complete)
        BY <2>5 DEF LabelInv, LabelledNow
      <3>2. ~enrolled
        <4>1. Clock.state # "finished"
          BY <1>2, <2>5 DEF Noting, Kinds
        <4>2. ~Clock.complete
          BY <1>0, <4>1, ShownComplete DEF Clock
        <4>3. QED
          BY <3>1, <4>2
      <3>3. QED
        BY <2>1, <2>2, <3>1, <3>2 DEF LabelInv
    <2>6. QED
      BY <2>3, <2>4, <2>5
  <1>3. ASSUME NEW s \in Sessions, NEW b \in Baselines, BeginTiming(s, b) PROVE LabelInv'
    <2>1. enrolled /\ Clock.state = "not_started"
      BY <1>3 DEF BeginTiming
    <2>2. ~Clock.complete
      BY <1>0, <2>1, ShownComplete DEF Clock
    <2>3. ~LabelledNow
      BY <2>1, <2>2 DEF LabelInv, LabelledNow
    <2>4. /\ Rev' = Rev /\ Len(log) \in Nat /\ Len(log') = Len(log) + 2
          /\ DOMAIN log = 1 .. Len(log) /\ DOMAIN log' = 1 .. Len(log')
          /\ \A i \in DOMAIN log : log'[i] = log[i]
          /\ \A i \in {Len(log) + 1, Len(log) + 2} : log'[i].target = "timing"
      BY <1>3, BeginRecords, SameDraft, RevFacts DEF TrialTypeOK
    <2>5. \A i \in DOMAIN log' : i \in DOMAIN log \/ i \in {Len(log) + 1, Len(log) + 2}
      BY <2>4
    <2>6. \A i \in DOMAIN log' : log'[i].target # "timing" => log'[i].rev # Rev'
      BY <2>3, <2>4, <2>5 DEF LabelledNow
    <2>7. QED
      BY <2>6 DEF LabelInv
  <1>4. ASSUME NEW kind, NEW of, Committing(kind, of) PROVE LabelInv'
    <2>1. log' = log /\ Rev' = Rev + 1
      BY <1>4, CommitFacts
    <2>2. \A i \in DOMAIN log : log[i].rev \in 0 .. Rev
      BY DEF TrialTypeOK
    <2>3. \A i \in DOMAIN log' : log'[i].rev # Rev'
      BY <1>0, <2>1, <2>2
    <2>4. QED
      BY <2>3 DEF LabelInv
  <1>5. CASE Passing
    <2>1. UNCHANGED <<enrolled, records, log, folded>> /\ Rev' = Rev
      BY <1>5, SameDraft DEF Passing
    <2>2. CASE LabelledNow
      <3>1. ReviewDone(Draft) /\ ExportAccepted(Draft) /\ (enrolled => Clock.complete)
        BY <2>2 DEF LabelInv, LabelledNow
      <3>2. QED
        BY <1>1, <2>1, <3>1
    <2>3. CASE ~LabelledNow
      BY <2>1, <2>3 DEF LabelInv, LabelledNow
    <2>4. QED
      BY <2>2, <2>3
  <1>6. QED
    BY <1>2, <1>3, <1>4, <1>5, TrialSteps

LEMMA TrialInitially ==
  ASSUME TrialInit
  PROVE  TrialInv
  <1>1. /\ enrolled \in BOOLEAN /\ overrun \in BOOLEAN /\ unclocked \in BOOLEAN
        /\ records = <<>> /\ log = <<>> /\ folded = NoTiming /\ Rev = 0
        /\ exporting = None /\ reviewing = None
        /\ clock = EnrolledAt /\ ran = 0 /\ back = 0
    BY DEF TrialInit, Rev
  <1>2. TrialTypeOK
    <2>1. NoTiming \in Summaries /\ NoTiming.state = "not_started"
      BY DEF NoTiming, Summaries
    <2>2. EnrolledAt \in 0 .. MaxClock /\ 0 \in 0 .. MaxBack
      BY TrialBounds
    <2>3. <<>> \in Seq(CommandRecords) /\ <<>> \in Seq(EvidenceEvents) /\ \A i \in DOMAIN <<>> : FALSE
      OBVIOUS
    <2>4. QED
      BY <1>1, <2>1, <2>2, <2>3 DEF TrialTypeOK
  <1>3. TimeInv
    BY <1>1 DEF TimeInv, Stretch, NoTiming
  <1>4. HumanRevisions = {} /\ Exports = {} /\ Starts = {}
    BY <1>1 DEF HumanRevisions, Exports, Starts
  <1>5. RecordsInv /\ StartInv
    BY <1>1, <1>4 DEF RecordsInv, StartInv, NoTiming
  <1>6. LabelInv
    BY <1>1 DEF LabelInv
  <1>7. QED
    BY <1>2, <1>3, <1>5, <1>6 DEF TrialInv

LEMMA TrialInvariant == TrialSpec => []TrialInv
  <1>1. TrialInit => TrialInv
    BY TrialInitially
  <1>2. TrialInv /\ [TrialNext]_trialVars => TrialInv'
    BY TrialTypeStep, TimeStep, RecordsStep, StartStep, LabelStep DEF TrialInv
  <1>3. QED
    BY <1>1, <1>2, PTL DEF TrialSpec

\* The log of the trial is well-formed: numbered in order, never newer than
\* the project, and a running or finished clock has the moment or the revision
\* that it is judged by (evidence.ts, deriveTiming).
THEOREM TrialTyped == TrialSpec => []TrialTypeOK
  <1>1. TrialInv => TrialTypeOK
    BY DEF TrialInv
  <1>2. QED
    BY <1>1, TrialInvariant, PTL

\* Active time never exceeds the time the clock was shown running, for any
\* number of sessions, limit of staleness and settings of the clock.
THEOREM ActiveTimeIsShown == TrialSpec => []CountsOnlyRunning
  <1>1. TrialInv => CountsOnlyRunning
    <2> SUFFICES ASSUME TrialInv PROVE CountsOnlyRunning
      OBVIOUS
    <2>1. ran \in Nat /\ folded.active \in Nat /\ clock \in Nat /\ Sound(folded)
          /\ StretchOf(folded, clock) = Stretch
      BY RevFacts DEF TrialInv
    <2>2. Stretch \in Nat
      BY <2>1, StretchTick
    <2>3. Clock.active = folded.active
      BY DEF Clock, Shown
    <2>4. folded.active + Stretch <= ran
      BY DEF TrialInv, TimeInv
    <2>5. QED
      BY <2>1, <2>2, <2>3, <2>4 DEF CountsOnlyRunning
  <1>2. QED
    BY <1>1, TrialInvariant, PTL

\* A project that is labelled at its present revision was reviewed to the end,
\* then exported, and timed from before the first decision until it was done,
\* for any candidates, number of records and order of requests and jobs.
THEOREM LabelsJudgeTheExport == TrialSpec => []JudgedAsExported
  <1>1. TrialInv => JudgedAsExported
    <2> SUFFICES ASSUME TrialInv, LabelledNow
                 PROVE  /\ ReviewDone(Draft) /\ records[Rev].kind = "export"
                        /\ \A i \in HumanRevisions : i < Rev
                        /\ enrolled => /\ Clock.complete /\ Clock.active \in 1 .. ran
                                       /\ \E j \in Starts : \A i \in HumanRevisions : log[j].rev < i
      BY DEF JudgedAsExported, LabelledNow, ToSet
    <2>1. ReviewDone(Draft) /\ ExportAccepted(Draft) /\ (enrolled => Clock.complete)
      BY DEF TrialInv, LabelInv, LabelledNow
    <2>2. records[Rev].kind = "export"
      BY <2>1, AcceptedIsLast DEF TrialInv
    <2>3. \A i \in HumanRevisions : i \in 1 .. Rev /\ i # Rev
      BY <2>2, RevFacts DEF TrialInv, HumanRevisions, Decisions
    <2>4. \A i \in HumanRevisions : i < Rev
      BY <2>3, RevFacts DEF TrialInv
    <2>5. ASSUME enrolled
          PROVE  Clock.active \in 1 .. ran /\ \E j \in Starts : \A i \in HumanRevisions : log[j].rev < i
      <3>1. ran \in Nat /\ folded.active \in Nat /\ clock \in Nat /\ Rev \in Nat /\ Sound(folded)
            /\ StretchOf(folded, clock) = Stretch
        BY RevFacts DEF TrialInv
      <3>2. folded.state = "finished" /\ folded.active > 0
        BY <2>1, <2>5, <3>1, ShownComplete DEF Clock
      <3>3. Stretch = 0 /\ folded.active + Stretch <= ran
        BY <3>2 DEF TrialInv, TimeInv, Stretch
      <3>4. Clock.active = folded.active
        BY DEF Clock, Shown
      <3>5. StartedFirst
        BY <2>5, <3>2 DEF TrialInv, StartInv
      <3>6. QED
        BY <3>1, <3>2, <3>3, <3>4, <3>5 DEF StartedFirst
    <2>6. QED
      BY <2>1, <2>2, <2>4, <2>5
  <1>2. QED
    BY <1>1, TrialInvariant, PTL

-----------------------------------------------------------------------------
(***************************************************************************)
(* The bundle's account beside the summary, over one log.                  *)
(***************************************************************************)
\* The events of the clock.
TimingKind == {e \in EvidenceEvents : e.target = "timing"}

LEMMA TimingOf ==
  ASSUME NEW l \in Seq(EvidenceEvents)
  PROVE  TimingEvents(l) = Chosen(l, TimingKind) /\ TimingEvents(l) \in Seq(EvidenceEvents)
  <1> DEFINE A == {e \in ToSet(l) : e.target = "timing"}
  <1>1. \A i \in DOMAIN l : l[i] \in EvidenceEvents /\ l[i] \in ToSet(l)
    BY DEF ToSet
  <1>2. \A i \in DOMAIN l : l[i] \in A <=> l[i] \in TimingKind
    BY <1>1 DEF TimingKind
  <1>3. TimingEvents(l) = Chosen(l, A)
    BY DEF TimingEvents
  <1> HIDE DEF A
  <1>4. Chosen(l, A) = Chosen(l, TimingKind)
    BY <1>2, ChosenSame
  <1>5. Chosen(l, TimingKind) \in Seq(EvidenceEvents)
    BY ChosenPlaces
  <1>6. QED
    BY <1>3, <1>4, <1>5

LEMMA OneMore ==
  ASSUME NEW l \in Seq(EvidenceEvents), NEW e \in EvidenceEvents
  PROVE  /\ Derived(Append(l, e)) = OnTiming(Derived(l), e)
         /\ e.target = "timing" =>
              Account(TimingEvents(Append(l, e))) = OnAccount(Account(TimingEvents(l)), e)
         /\ e.target # "timing" => TimingEvents(Append(l, e)) = TimingEvents(l)
  <1>1. Derived(Append(l, e)) = OnTiming(Derived(l), e)
    BY DeriveAppend DEF Derived
  <1>2. Append(l, e) \in Seq(EvidenceEvents)
    OBVIOUS
  <1>3. /\ TimingEvents(Append(l, e)) = Chosen(Append(l, e), TimingKind)
        /\ TimingEvents(l) = Chosen(l, TimingKind) /\ TimingEvents(l) \in Seq(EvidenceEvents)
    BY <1>2, TimingOf
  <1>4. Chosen(Append(l, e), TimingKind) = Taken(TimingKind, Chosen(l, TimingKind), e)
    BY ChosenAppend
  <1>5. e.target = "timing" => TimingEvents(Append(l, e)) = Append(TimingEvents(l), e)
    BY <1>3, <1>4 DEF Taken, TimingKind
  <1>6. Account(Append(TimingEvents(l), e)) = OnAccount(Account(TimingEvents(l)), e)
    BY <1>3, AccountAppend
  <1>7. e.target # "timing" => TimingEvents(Append(l, e)) = TimingEvents(l)
    BY <1>3, <1>4 DEF Taken, TimingKind
  <1>8. QED
    BY <1>1, <1>5, <1>6, <1>7

\* The account's turn, by the kind of the event.
LEMMA OnAccountCases ==
  ASSUME NEW a, NEW e
  PROVE  /\ e.id = "baseline" =>
              OnAccount(a, e) = [NoAccount EXCEPT !.baseline = e.value, !.last = e.at, !.ok = a.ok]
         /\ e.id = "start" => OnAccount(a, e) = [a EXCEPT !.session = e.value, !.last = e.at]
         /\ e.id = "heartbeat" /\ a.session = e.value => OnAccount(a, e) = [Elapse(a, e) EXCEPT !.last = e.at]
         /\ e.id = "pause" /\ a.session = e.value =>
              OnAccount(a, e) = [Elapse(a, e) EXCEPT !.last = e.at, !.session = None]
         /\ e.id = "finish" =>
              OnAccount(a, e) = [(IF a.session # None THEN Elapse(a, e) ELSE a)
                                   EXCEPT !.session = None, !.finished = TRUE]
  BY DEF OnAccount

\* An event that the daemon accepts and that comes in time leaves the account
\* and the summary agreeing.
LEMMA AgreesOn ==
  ASSUME NEW a \in Accounts, NEW t, Agrees(a, t), Sound(t),
         NEW e \in EvidenceEvents, e.target = "timing", e.id \in Kinds,
         e.id = "start" => e.value # None /\ (t.state = "finished" => t.finished < e.rev),
         e.id \in {"heartbeat", "pause"} => t.state = "running" /\ t.session = e.value,
         e.id \in {"heartbeat", "pause", "finish"} /\ t.state = "running" => Bounded(t.last, e.at) # None
  PROVE  OnAccount(a, e) \in Accounts /\ Agrees(OnAccount(a, e), OnTiming(t, e))
  <1>0. /\ e.at \in Nat /\ e.rev \in Nat /\ e.value \in Values
        /\ t \in Summaries /\ t.active \in Nat /\ a.active \in Nat
        /\ t.state = "running" => t.last \in Nat
        /\ t.state = "finished" => t.finished \in Nat
    BY DEF EvidenceEvents, Values, Sound, Summaries, Accounts
  <1>a. /\ a.ok /\ a.baseline = t.baseline /\ a.active = t.active
        /\ t.state = "running" => a.session = t.session /\ a.session # None /\ a.last = t.last
        /\ t.state # "running" => a.session = None
        /\ t.state = "finished" => a.finished
    BY DEF Agrees
  <1>b. t.state = "running" /\ Bounded(t.last, e.at) # None =>
          /\ Bounded(t.last, e.at) \in Nat /\ Counted(t.last, e.at) = Bounded(t.last, e.at)
          /\ Elapse(a, e) = [a EXCEPT !.active = a.active + Bounded(t.last, e.at)]
    <2> SUFFICES ASSUME t.state = "running", Bounded(t.last, e.at) # None
                 PROVE  /\ Bounded(t.last, e.at) \in Nat /\ Counted(t.last, e.at) = Bounded(t.last, e.at)
                        /\ Elapse(a, e) = [a EXCEPT !.active = a.active + Bounded(t.last, e.at)]
      OBVIOUS
    <2>1. Bounded(t.last, e.at) \in Nat
      BY <1>0, BoundedFacts
    <2>2. Counted(t.last, e.at) = Bounded(t.last, e.at)
      BY DEF Counted
    <2>3. Elapse(a, e) = [a EXCEPT !.active = a.active + Bounded(t.last, e.at)]
      BY <1>a DEF Elapse
    <2>4. QED
      BY <2>1, <2>2, <2>3
  <1>1. CASE e.target = "timing" /\ e.id = "baseline"
    <2>1. OnTiming(t, e) = [NoTiming EXCEPT !.baseline = e.value, !.last = e.at]
      BY ONLY <1>1, OnTimingCases
    <2>2. OnAccount(a, e) = [NoAccount EXCEPT !.baseline = e.value, !.last = e.at, !.ok = a.ok]
      BY <1>1, OnAccountCases
    <2>3. a.ok = TRUE
      BY <1>a DEF Accounts
    <2>4. OnAccount(a, e) = [baseline |-> e.value, active |-> 0, session |-> None, last |-> e.at,
                             finished |-> FALSE, ok |-> TRUE]
      BY <2>2, <2>3 DEF NoAccount
    <2>5. OnAccount(a, e) \in Accounts
      BY ONLY <1>0, <2>4 DEF Accounts, Values
    <2>6. Agrees(OnAccount(a, e), OnTiming(t, e))
      BY ONLY <2>1, <2>4 DEF Agrees, NoTiming
    <2>7. QED
      BY <2>5, <2>6
  <1>2. CASE e.target = "timing" /\ e.id = "start"
    <2>1. OnTiming(t, e) = [t EXCEPT !.state = "running", !.session = e.value, !.last = e.at]
      <3>1. OnTiming(t, e) = Started(t, e)
        BY ONLY <1>2, OnTimingCases
      <3>2. ~(t.state = "finished" /\ e.rev <= t.finished)
        BY <1>0, <1>2
      <3>3. QED
        BY <3>1, <3>2 DEF Started
    <2>2. OnAccount(a, e) = [a EXCEPT !.session = e.value, !.last = e.at]
      BY <1>2, OnAccountCases
    <2>3. OnAccount(a, e) \in Accounts
      BY <1>0, <2>2 DEF Accounts, Values
    <2>4. QED
      BY <1>0, <1>2, <1>a, <2>1, <2>2, <2>3 DEF Agrees, Accounts, Summaries
  <1>3. CASE e.target = "timing" /\ e.id = "heartbeat"
    <2> DEFINE more == t.active + Bounded(t.last, e.at)
    <2>0. more \in Nat /\ t.state = "running" /\ a.session = e.value /\ Owns(t, e.value)
      BY <1>0, <1>3, <1>a, <1>b DEF Owns
    <2>1. OnTiming(t, e) = [t EXCEPT !.active = more, !.last = e.at]
      BY <1>3, <2>0, OnTimingCases DEF Beat
    <2>2. OnAccount(a, e) = [[a EXCEPT !.active = more] EXCEPT !.last = e.at]
      <3>1. OnAccount(a, e) = [Elapse(a, e) EXCEPT !.last = e.at]
        <4>1. a.session = e.value /\ e.id = "heartbeat"
          BY <1>3, <2>0
        <4>2. QED
          BY ONLY <4>1, OnAccountCases
      <3>2. Elapse(a, e) = [a EXCEPT !.active = more]
        BY <1>3, <1>a, <1>b, <2>0
      <3>3. QED
        BY ONLY <3>1, <3>2
    <2> HIDE DEF more
    <2>3. OnAccount(a, e) \in Accounts
      BY <1>0, <2>0, <2>2 DEF Accounts
    <2>4. QED
      BY <1>0, <1>a, <2>0, <2>1, <2>2, <2>3 DEF Agrees, Accounts, Summaries
  <1>4. CASE e.target = "timing" /\ e.id = "pause"
    <2> DEFINE more == t.active + Bounded(t.last, e.at)
    <2>0. more \in Nat /\ t.state = "running" /\ a.session = e.value /\ Owns(t, e.value)
      BY <1>0, <1>4, <1>a, <1>b DEF Owns
    <2>1. OnTiming(t, e) = [t EXCEPT !.active = more, !.state = "paused", !.session = None, !.last = e.at]
      <3>1. OnTiming(t, e) = Paused(t, e)
        BY <1>4, OnTimingCases
      <3>2. QED
        BY <1>4, <1>b, <2>0, <3>1 DEF Paused
    <2>2. OnAccount(a, e) = [[a EXCEPT !.active = more] EXCEPT !.last = e.at, !.session = None]
      <3>1. OnAccount(a, e) = [Elapse(a, e) EXCEPT !.last = e.at, !.session = None]
        <4>1. a.session = e.value /\ e.id = "pause"
          BY <1>4, <2>0
        <4>2. QED
          BY ONLY <4>1 DEF OnAccount
      <3>2. Elapse(a, e) = [a EXCEPT !.active = more]
        BY <1>4, <1>a, <1>b, <2>0
      <3>3. QED
        BY ONLY <3>1, <3>2
    <2> HIDE DEF more
    <2>3. OnAccount(a, e) \in Accounts
      BY <1>0, <2>0, <2>2 DEF Accounts, Values
    <2>4. QED
      BY <1>0, <1>a, <2>0, <2>1, <2>2, <2>3 DEF Agrees, Accounts, Summaries
  <1>5. CASE e.target = "timing" /\ e.id = "finish"
    <2> DEFINE more == t.active + IF t.state = "running" THEN Counted(t.last, e.at) ELSE 0
    <2>0. more \in Nat
      BY <1>0, <1>5, <1>b
    <2>1. OnTiming(t, e) = [t EXCEPT !.active = more, !.state = "finished", !.session = None,
                                     !.last = e.at, !.finished = e.rev]
      <3>1. OnTiming(t, e) = Finished(t, e)
        BY ONLY <1>5, OnTimingCases
      <3>2. QED
        BY <3>1 DEF Finished
    <2>2. OnAccount(a, e) = [[a EXCEPT !.active = more] EXCEPT !.session = None, !.finished = TRUE]
      <3>0. OnAccount(a, e) = [(IF a.session # None THEN Elapse(a, e) ELSE a)
                                 EXCEPT !.session = None, !.finished = TRUE]
        BY ONLY <1>5, OnAccountCases
      <3>1. CASE t.state = "running"
        <4>1. a.session # None /\ Elapse(a, e) = [a EXCEPT !.active = more]
          BY <1>5, <1>a, <1>b, <3>1
        <4>2. QED
          BY ONLY <3>0, <4>1
      <3>2. CASE t.state # "running"
        <4>1. more = a.active /\ a.session = None
          BY <1>0, <1>a, <3>2
        <4>2. [a EXCEPT !.active = more] = a
          BY <4>1 DEF Accounts
        <4>3. QED
          BY ONLY <3>0, <4>1, <4>2
      <3>3. QED
        BY <3>1, <3>2
    <2> HIDE DEF more
    <2>3. OnAccount(a, e) \in Accounts
      BY <1>0, <2>0, <2>2 DEF Accounts, Values
    <2>4. QED
      BY <1>0, <1>a, <2>0, <2>1, <2>2, <2>3 DEF Agrees, Accounts, Summaries
  <1>6. QED
    BY <1>1, <1>2, <1>3, <1>4, <1>5 DEF Kinds

-----------------------------------------------------------------------------
(***************************************************************************)
(* What the log and the summary say of each other, step by step.           *)
(***************************************************************************)
\* The two events of a first start, one after the other.
Begun(session, d, e) ==
  /\ log' = Append(Append(log, d), e) /\ folded' = OnTiming(OnTiming(folded, d), e)
  /\ d.target = "timing" /\ d.id = "baseline" /\ d.request = Len(log) + 1 /\ d.rev = Rev
  /\ e.target = "timing" /\ e.id = "start" /\ e.request = Len(log) + 2 /\ e.rev = Rev
  /\ e.value = session
  /\ UNCHANGED <<enrolled, records, overrun>>

LEMMA BeginNotes ==
  ASSUME TrialTypeOK, NEW session \in Sessions, NEW baseline \in Baselines,
         BeginTiming(session, baseline)
  PROVE  \E d, e \in EvidenceEvents : Begun(session, d, e)
  <1> DEFINE one(at) == Entry(Len(log) + 1, at, "timing", "baseline", baseline)
             two(at) == Entry(Len(log) + 2, at, "timing", "start", session)
  <1>1. PICK at \in {clock, clock + 1} :
          /\ Recording(at, "baseline") /\ log' = log \o <<one(at), two(at)>>
          /\ folded' = OnTiming(OnTiming(folded, one(at)), two(at))
    <2>1. Record(<<Event("timing", "baseline", baseline), Event("timing", "start", session)>>)
      BY DEF BeginTiming
    <2>2. QED
      BY <2>1, RecordTwo
  <1>2. at \in Nat /\ Rev \in Nat /\ Len(log) \in Nat /\ log \in Seq(EvidenceEvents)
    BY <1>1, RevFacts DEF TrialTypeOK
  <1>3. /\ one(at) \in EvidenceEvents /\ one(at).request = Len(log) + 1 /\ one(at).rev = Rev
        /\ one(at).target = "timing" /\ one(at).id = "baseline"
    BY <1>2 DEF Entry, EvidenceEvents, Kinds
  <1>4. /\ two(at) \in EvidenceEvents /\ two(at).request = Len(log) + 2 /\ two(at).rev = Rev
        /\ two(at).target = "timing" /\ two(at).id = "start" /\ two(at).value = session
    BY <1>2 DEF Entry, EvidenceEvents, Kinds
  <1> HIDE DEF one, two
  <1>5. log' = Append(Append(log, one(at)), two(at))
    BY <1>1, <1>2, <1>3, <1>4
  <1>6. UNCHANGED <<enrolled, records, overrun>>
    BY <1>1 DEF Recording, Late, TrialTypeOK
  <1>7. QED
    BY <1>1, <1>3, <1>4, <1>5, <1>6 DEF Begun

\* What an event that is no measurement, or no end, leaves alone.
LEMMA OnTimingKeeps ==
  ASSUME NEW t, Sound(t), NEW e \in EvidenceEvents, e.target = "timing" => e.id \in Kinds
  PROVE  /\ ~(e.target = "timing" /\ e.id = "baseline") => OnTiming(t, e).baseline = t.baseline
         /\ ~(e.target = "timing" /\ e.id = "finish") =>
              (OnTiming(t, e).state = "finished" => t.state = "finished")
         /\ e.target # "timing" => OnTiming(t, e) = t
  <1>0. t \in Summaries
    BY DEF Sound
  <1>1. CASE e.target # "timing"
    BY <1>1, OnTimingCases
  <1>2. CASE e.target = "timing" /\ e.id = "baseline"
    <2>1. OnTiming(t, e) = [NoTiming EXCEPT !.baseline = e.value, !.last = e.at]
      BY ONLY <1>2, OnTimingCases
    <2>2. OnTiming(t, e).state = "not_started"
      BY ONLY <2>1 DEF NoTiming
    <2>3. QED
      BY <1>2, <2>2
  <1>3. CASE e.target = "timing" /\ e.id = "start"
    <2>1. OnTiming(t, e) = t \/ OnTiming(t, e) = [t EXCEPT !.state = "running", !.session = e.value, !.last = e.at]
      BY ONLY <1>3 DEF OnTiming, Started
    <2>2. QED
      BY <1>0, <1>3, <2>1 DEF Summaries
  <1>4. CASE e.target = "timing" /\ e.id = "heartbeat"
    <2>1. \/ OnTiming(t, e) = t
          \/ OnTiming(t, e) = [t EXCEPT !.state = "paused", !.session = None]
          \/ OnTiming(t, e) = [t EXCEPT !.active = t.active + Bounded(t.last, e.at), !.last = e.at]
      BY ONLY <1>4 DEF OnTiming, Beat
    <2>2. QED
      BY <1>0, <1>4, <2>1 DEF Summaries
  <1>5. CASE e.target = "timing" /\ e.id = "pause"
    <2>1. \/ OnTiming(t, e) = t
          \/ OnTiming(t, e) = [t EXCEPT !.active = t.active + Counted(t.last, e.at), !.state = "paused",
                                        !.session = None, !.last = e.at]
      BY ONLY <1>5 DEF OnTiming, Paused
    <2>2. QED
      BY <1>0, <1>5, <2>1 DEF Summaries
  <1>6. CASE e.target = "timing" /\ e.id = "finish"
    <2> DEFINE more == t.active + IF t.state = "running" THEN Counted(t.last, e.at) ELSE 0
    <2>1. OnTiming(t, e) = [t EXCEPT !.active = more, !.state = "finished", !.session = None,
                                     !.last = e.at, !.finished = e.rev]
      BY ONLY <1>6 DEF OnTiming, Finished
    <2> HIDE DEF more
    <2>2. QED
      BY <1>0, <1>6, <2>1 DEF Summaries
  <1>7. QED
    BY <1>1, <1>2, <1>3, <1>4, <1>5, <1>6 DEF Kinds

LEMMA OrderStep ==
  ASSUME TrialInv, OrderInv, [TrialNext]_trialVars
  PROVE  OrderInv'
  <1>0. /\ TrialTypeOK /\ RecordsInv /\ StartInv /\ Rev \in Nat /\ Len(log) \in Nat
        /\ log \in Seq(EvidenceEvents) /\ DOMAIN log = 1 .. Len(log)
        /\ \A i \in DOMAIN log : log[i].rev \in 0 .. Rev
    BY RevFacts DEF TrialInv, TrialTypeOK
  <1>a. /\ \A i \in DOMAIN log : log[i].request = i
        /\ \A i, j \in DOMAIN log : i < j => log[i].rev <= log[j].rev
        /\ \A i \in Occurs("baseline"), j \in HumanRevisions : log[i].rev < j
        /\ enrolled /\ HumanRevisions # {} => StartedFirst
    BY DEF OrderInv
  <1>1. ASSUME NEW target, NEW id, NEW value, Noting(target, id, value) PROVE OrderInv'
    <2>0. PICK e \in EvidenceEvents : Noted(target, id, value, e)
      BY <1>0, <1>1, NotingFacts
    <2>1. /\ e.target = target /\ e.id = id /\ e.rev = Rev /\ e.request = Len(log) + 1
          /\ log'[Len(log) + 1] = e
          /\ \A i \in DOMAIN log : log'[i] = log[i]
          /\ DOMAIN log' = DOMAIN log \cup {Len(log) + 1}
          /\ UNCHANGED <<enrolled, records>>
      BY <2>0 DEF Noted
    <2>2. Rev' = Rev /\ HumanRevisions' = HumanRevisions
      BY <2>1, SameDraft
    <2>3. \A i \in DOMAIN log' : log'[i].request = i
      BY <1>a, <2>1
    <2>4. \A i, j \in DOMAIN log' : i < j => log'[i].rev <= log'[j].rev
      BY <1>0, <1>a, <2>1
    <2>5. \A i \in Occurs("baseline")', j \in HumanRevisions' : log'[i].rev < j
      <3>1. CASE target = "timing" /\ id = "baseline"
        <4>1. HumanRevisions = {}
          BY <1>0, <1>1, <3>1, OpenOrigin DEF Noting
        <4>2. QED
          BY <2>2, <4>1
      <3>2. CASE ~(target = "timing" /\ id = "baseline")
        <4>1. Occurs("baseline")' = Occurs("baseline")
          BY <2>1, <3>2 DEF Occurs
        <4>2. \A i \in Occurs("baseline") : log'[i] = log[i]
          BY <2>1 DEF Occurs
        <4>3. QED
          BY <1>a, <2>2, <4>1, <4>2
      <3>3. QED
        BY <3>1, <3>2
    <2>6. enrolled' /\ HumanRevisions' # {} => StartedFirst'
      BY <1>a, <2>1, <2>2, StartedFirstKept
    <2>7. QED
      BY <2>3, <2>4, <2>5, <2>6 DEF OrderInv
  <1>2. ASSUME NEW s \in Sessions, NEW b \in Baselines, BeginTiming(s, b) PROVE OrderInv'
    <2>0. PICK d, e \in EvidenceEvents : Begun(s, d, e)
      BY <1>0, <1>2, BeginNotes
    <2>1. /\ log' = Append(Append(log, d), e)
          /\ d.request = Len(log) + 1 /\ d.rev = Rev
          /\ e.request = Len(log) + 2 /\ e.rev = Rev
          /\ UNCHANGED <<enrolled, records>>
      BY <2>0 DEF Begun
    <2>2. Rev' = Rev /\ HumanRevisions' = {}
      BY <1>0, <1>2, <2>1, OpenOrigin, SameDraft DEF BeginTiming
    <2>3. /\ DOMAIN log' = DOMAIN log \cup {Len(log) + 1, Len(log) + 2}
          /\ log'[Len(log) + 1] = d /\ log'[Len(log) + 2] = e
          /\ \A i \in DOMAIN log : log'[i] = log[i]
      BY <1>0, <2>1
    <2>4. \A i \in DOMAIN log' : log'[i].request = i
      BY <1>a, <2>1, <2>3
    <2>5. \A i, j \in DOMAIN log' : i < j => log'[i].rev <= log'[j].rev
      BY <1>0, <1>a, <2>1, <2>3
    <2>6. QED
      BY <2>2, <2>4, <2>5 DEF OrderInv
  <1>3. ASSUME NEW kind, NEW of, Committing(kind, of) PROVE OrderInv'
    <2>1. UNCHANGED <<enrolled, log>> /\ Rev' = Rev + 1
      BY <1>0, <1>3, CommitFacts
    <2>2. HumanRevisions' = IF kind \in Decisions THEN HumanRevisions \cup {Rev + 1} ELSE HumanRevisions
      BY <1>0, <1>3, CommitRevisions
    <2>3. \A i \in Occurs("baseline")', j \in HumanRevisions' : log'[i].rev < j
      <3>1. Occurs("baseline")' = Occurs("baseline") /\ Occurs("baseline") \subseteq DOMAIN log
        BY <2>1 DEF Occurs
      <3>2. QED
        BY <1>0, <1>a, <2>1, <2>2, <3>1
    <2>4. ASSUME enrolled', HumanRevisions' # {} PROVE StartedFirst'
      <3>1. StartedFirst
        <4>1. CASE kind \in Decisions
          <5>1. Clock.state = "running"
            BY <1>3, <2>1, <2>4, <4>1 DEF Committing, EditingActive
          <5>2. folded.state = "running"
            BY <1>0, <5>1, RevFacts, ShownRunning DEF Clock
          <5>3. QED
            BY <1>0, <2>1, <2>4, <5>2 DEF StartInv
        <4>2. CASE kind \notin Decisions
          BY <1>a, <2>1, <2>2, <2>4, <4>2
        <4>3. QED
          BY <4>1, <4>2
      <3>2. Starts' = Starts /\ Starts \subseteq DOMAIN log
        BY <2>1 DEF Starts
      <3>3. PICK i \in Starts : \A j \in HumanRevisions : log[i].rev < j
        BY <3>1 DEF StartedFirst
      <3>4. i \in Starts' /\ \A j \in HumanRevisions' : log'[i].rev < j
        BY <1>0, <2>1, <2>2, <3>2, <3>3
      <3>5. QED
        BY <3>4 DEF StartedFirst
    <2>5. QED
      BY <1>a, <2>1, <2>3, <2>4 DEF OrderInv
  <1>4. CASE Passing
    <2>1. UNCHANGED <<enrolled, records, log>> /\ HumanRevisions' = HumanRevisions
      BY <1>4, SameDraft DEF Passing
    <2>2. Occurs("baseline")' = Occurs("baseline")
      BY <2>1 DEF Occurs
    <2>3. StartedFirst => StartedFirst'
      BY <2>1, StartedFirstKept
    <2>4. QED
      BY <1>a, <2>1, <2>2, <2>3 DEF OrderInv
  <1>5. QED
    BY <1>1, <1>2, <1>3, <1>4, TrialSteps

LEMMA FinishStep ==
  ASSUME TrialInv, FinishInv, [TrialNext]_trialVars
  PROVE  FinishInv'
  <1>0. /\ TrialTypeOK /\ LabelInv /\ Rev \in Nat /\ Len(log) \in Nat /\ Sound(folded)
        /\ log \in Seq(EvidenceEvents) /\ DOMAIN log = 1 .. Len(log)
        /\ \A i \in DOMAIN log : log[i].rev \in 0 .. Rev
    BY RevFacts DEF TrialInv, TrialTypeOK
  <1>1. ASSUME NEW target, NEW id, NEW value, Noting(target, id, value) PROVE FinishInv'
    <2>0. PICK e \in EvidenceEvents : Noted(target, id, value, e)
      BY <1>0, <1>1, NotingFacts
    <2>1. /\ e.target = target /\ e.id = id
          /\ log'[Len(log) + 1] = e
          /\ \A i \in DOMAIN log : log'[i] = log[i]
          /\ DOMAIN log' = DOMAIN log \cup {Len(log) + 1}
          /\ UNCHANGED <<enrolled, records>>
      BY <2>0 DEF Noted
    <2>2. Rev' = Rev
      BY <2>1, SameDraft
    <2>3. CASE target = "timing" /\ id = "finish"
      <3>1. enrolled /\ Clock.state # "finished"
        BY <1>1, <2>3 DEF Noting
      <3>2. ~Clock.complete
        BY <1>0, <3>1, ShownComplete DEF Clock
      <3>3. ~LabelledNow
        BY <1>0, <3>1, <3>2 DEF LabelInv, LabelledNow
      <3>4. \A i \in DOMAIN log' : ~(log'[i].target # "timing" /\ log'[i].rev = Rev')
        BY <2>1, <2>2, <2>3, <3>3 DEF LabelledNow
      <3>5. QED
        BY <3>4 DEF FinishInv
    <2>4. CASE ~(target = "timing" /\ id = "finish")
      <3>1. Occurs("finish")' = Occurs("finish") /\ Occurs("finish") \subseteq 1 .. Len(log)
        BY <1>0, <2>1, <2>4 DEF Occurs
      <3>2. \A i \in DOMAIN log', j \in Occurs("finish")' :
              log'[i].target # "timing" /\ log'[i].rev = Rev' => j < i
        BY <1>0, <2>1, <2>2, <3>1 DEF FinishInv
      <3>3. QED
        BY <3>2 DEF FinishInv
    <2>5. QED
      BY <2>3, <2>4
  <1>2. ASSUME NEW s \in Sessions, NEW b \in Baselines, BeginTiming(s, b) PROVE FinishInv'
    <2>0. PICK d, e \in EvidenceEvents : Begun(s, d, e)
      BY <1>0, <1>2, BeginNotes
    <2>1. /\ log' = Append(Append(log, d), e)
          /\ d.target = "timing" /\ d.id = "baseline" /\ e.target = "timing" /\ e.id = "start"
          /\ UNCHANGED <<enrolled, records>>
      BY <2>0 DEF Begun
    <2>2. Rev' = Rev
      BY <2>1, SameDraft
    <2>3. /\ DOMAIN log' = DOMAIN log \cup {Len(log) + 1, Len(log) + 2}
          /\ log'[Len(log) + 1] = d /\ log'[Len(log) + 2] = e
          /\ \A i \in DOMAIN log : log'[i] = log[i]
      BY <1>0, <2>1
    <2>4. Occurs("finish")' = Occurs("finish")
      BY <2>1, <2>3 DEF Occurs
    <2>5. QED
      BY <2>1, <2>2, <2>3, <2>4 DEF FinishInv
  <1>3. ASSUME NEW kind, NEW of, Committing(kind, of) PROVE FinishInv'
    <2>1. UNCHANGED log /\ Rev' = Rev + 1
      BY <1>0, <1>3, CommitFacts
    <2>2. \A i \in DOMAIN log' : log'[i].rev # Rev'
      BY <1>0, <2>1
    <2>3. QED
      BY <2>2 DEF FinishInv
  <1>4. CASE Passing
    <2>1. UNCHANGED <<enrolled, records, log>> /\ Rev' = Rev
      BY <1>4, SameDraft DEF Passing
    <2>2. Occurs("finish")' = Occurs("finish")
      BY <2>1 DEF Occurs
    <2>3. QED
      BY <2>1, <2>2 DEF FinishInv
  <1>5. QED
    BY <1>1, <1>2, <1>3, <1>4, TrialSteps

\* A clock that is shown neither running nor finished lets a start through.
LEMMA MayStart ==
  ASSUME NEW t, Sound(t), NEW now, NEW rev \in Nat, Shown(t, now, rev).state \notin {"running", "finished"}
  PROVE  t.state = "finished" => t.finished < rev
  <1> SUFFICES ASSUME t.state = "finished", ~(t.finished < rev) PROVE FALSE
    OBVIOUS
  <1>1. Shown(t, now, rev).state = "finished"
    BY DEF Shown
  <1>2. QED
    BY <1>1

LEMMA FoldStep ==
  ASSUME TrialInv, FoldInv, [TrialNext]_trialVars
  PROVE  FoldInv'
  <1>0. /\ TrialTypeOK /\ Rev \in Nat /\ Len(log) \in Nat /\ Sound(folded)
        /\ log \in Seq(EvidenceEvents) /\ DOMAIN log = 1 .. Len(log) /\ clock \in Nat
    BY RevFacts DEF TrialInv, TrialTypeOK
  <1>a. /\ folded = Derived(log)
        /\ ~enrolled => folded = NoTiming
        /\ folded.baseline # None => Occurs("baseline") # {}
        /\ folded.state = "finished" => Occurs("finish") # {}
    BY DEF FoldInv
  <1>1. ASSUME NEW target, NEW id, NEW value, Noting(target, id, value) PROVE FoldInv'
    <2>0. PICK e \in EvidenceEvents : Noted(target, id, value, e)
      BY <1>0, <1>1, NotingFacts
    <2>1. /\ e.target = target /\ e.id = id
          /\ log' = Append(log, e) /\ log'[Len(log) + 1] = e
          /\ \A i \in DOMAIN log : log'[i] = log[i]
          /\ DOMAIN log' = DOMAIN log \cup {Len(log) + 1}
          /\ folded' = OnTiming(folded, e)
          /\ UNCHANGED <<enrolled, records>>
      BY <2>0 DEF Noted
    <2>2. e.target = "timing" => e.id \in Kinds
      BY <1>1, <2>1 DEF Noting
    <2>3. folded' = Derived(log')
      BY <1>0, <1>a, <2>1, OneMore
    <2>4. ASSUME ~enrolled PROVE folded' = NoTiming
      <3>1. folded = NoTiming /\ folded.state = "not_started"
        BY <1>a, <2>4 DEF NoTiming
      <3>2. Clock.state # "running"
        BY <1>0, <3>1, ShownRunning DEF Clock
      <3>3. target # "timing"
        BY <1>1, <2>4, <3>2 DEF Noting, Kinds
      <3>4. OnTiming(folded, e) = folded
        BY <1>0, <2>1, <2>2, <3>3, OnTimingKeeps
      <3>5. QED
        BY <2>1, <3>1, <3>4
    <2>5. Occurs("baseline") \subseteq Occurs("baseline")' /\ Occurs("finish") \subseteq Occurs("finish")'
      BY <2>1 DEF Occurs
    <2>6. folded'.baseline # None => Occurs("baseline")' # {}
      <3>1. CASE e.target = "timing" /\ e.id = "baseline"
        <4>1. Len(log) + 1 \in Occurs("baseline")'
          BY <2>1, <3>1 DEF Occurs
        <4>2. QED
          BY <4>1
      <3>2. CASE ~(e.target = "timing" /\ e.id = "baseline")
        <4>1. folded'.baseline = folded.baseline
          BY <1>0, <2>1, <2>2, <3>2, OnTimingKeeps
        <4>2. QED
          BY <1>a, <2>5, <4>1
      <3>3. QED
        BY <3>1, <3>2
    <2>7. folded'.state = "finished" => Occurs("finish")' # {}
      <3>1. CASE e.target = "timing" /\ e.id = "finish"
        <4>1. Len(log) + 1 \in Occurs("finish")'
          BY <2>1, <3>1 DEF Occurs
        <4>2. QED
          BY <4>1
      <3>2. CASE ~(e.target = "timing" /\ e.id = "finish")
        <4>1. folded'.state = "finished" => folded.state = "finished"
          BY <1>0, <2>1, <2>2, <3>2, OnTimingKeeps
        <4>2. QED
          BY <1>a, <2>5, <4>1
      <3>3. QED
        BY <3>1, <3>2
    <2>8. QED
      BY <2>1, <2>3, <2>4, <2>6, <2>7 DEF FoldInv
  <1>2. ASSUME NEW s \in Sessions, NEW b \in Baselines, BeginTiming(s, b) PROVE FoldInv'
    <2>0. PICK d, e \in EvidenceEvents : Begun(s, d, e)
      BY <1>0, <1>2, BeginNotes
    <2>1. /\ log' = Append(Append(log, d), e) /\ folded' = OnTiming(OnTiming(folded, d), e)
          /\ d.target = "timing" /\ d.id = "baseline" /\ e.target = "timing" /\ e.id = "start"
          /\ UNCHANGED enrolled
      BY <2>0 DEF Begun
    <2>2. enrolled
      BY <1>2 DEF BeginTiming
    <2>3. folded' = Derived(log')
      <3>1. Append(log, d) \in Seq(EvidenceEvents)
        BY <1>0
      <3>2. Derived(Append(log, d)) = OnTiming(folded, d)
        BY <1>0, <1>a, OneMore
      <3>3. Derived(Append(Append(log, d), e)) = OnTiming(Derived(Append(log, d)), e)
        BY <3>1, OneMore
      <3>4. QED
        BY <2>1, <3>2, <3>3
    <2>4. Len(log) + 1 \in Occurs("baseline")'
      <3>1. Len(log) + 1 \in DOMAIN log' /\ log'[Len(log) + 1] = d
        BY <1>0, <2>1
      <3>2. QED
        BY <2>1, <3>1 DEF Occurs
    <2>5. folded'.state # "finished"
      <3>1. Sound(OnTiming(folded, d)) /\ OnTiming(folded, d).state # "finished"
        <4>1. OnTiming(folded, d) = [NoTiming EXCEPT !.baseline = d.value, !.last = d.at]
          <5>1. d.target = "timing" /\ d.id = "baseline"
            BY <2>1
          <5>2. QED
            BY ONLY <5>1 DEF OnTiming
        <4>2. d.target = "timing" => d.id \in Kinds
          BY <2>1 DEF Kinds
        <4>3. QED
          BY <1>0, <4>1, <4>2, OnTimingSound DEF NoTiming
      <3>2. e.target = "timing" => e.id \in Kinds
        BY <2>1 DEF Kinds
      <3>3. OnTiming(OnTiming(folded, d), e).state # "finished"
        BY <2>1, <3>1, <3>2, OnTimingKeeps
      <3>4. QED
        BY <2>1, <3>3
    <2>6. QED
      BY <2>1, <2>2, <2>3, <2>4, <2>5 DEF FoldInv
  <1>3. ASSUME UNCHANGED <<enrolled, log, folded>> PROVE FoldInv'
    <2>1. Occurs("baseline")' = Occurs("baseline") /\ Occurs("finish")' = Occurs("finish")
      BY <1>3 DEF Occurs
    <2>2. QED
      BY <1>3, <1>a, <2>1 DEF FoldInv
  <1>4. ASSUME NEW kind, NEW of, Committing(kind, of) PROVE FoldInv'
    BY <1>0, <1>3, <1>4, CommitFacts
  <1>5. CASE Passing
    BY <1>3, <1>5 DEF Passing
  <1>6. QED
    BY <1>1, <1>2, <1>4, <1>5, TrialSteps

LEMMA AccountStep ==
  ASSUME TrialInv, FoldInv, AccountInv, [TrialNext]_trialVars
  PROVE  AccountInv'
  <1> DEFINE account == Account(TimingEvents(log))
  <1>0. /\ TrialTypeOK /\ Rev \in Nat /\ Len(log) \in Nat /\ Sound(folded)
        /\ log \in Seq(EvidenceEvents) /\ DOMAIN log = 1 .. Len(log) /\ clock \in Nat
    BY RevFacts DEF TrialInv, TrialTypeOK
  <1>1. ASSUME NEW target, NEW id, NEW value, Noting(target, id, value) PROVE AccountInv'
    <2> SUFFICES ASSUME ~overrun'
                 PROVE  Account(TimingEvents(log')) \in Accounts /\ Agrees(Account(TimingEvents(log')), folded')
      BY DEF AccountInv
    <2>0. PICK e \in EvidenceEvents : Noted(target, id, value, e)
      BY <1>0, <1>1, NotingFacts
    <2>1. /\ e.target = target /\ e.id = id /\ e.value = value /\ e.rev = Rev
          /\ log' = Append(log, e) /\ folded' = OnTiming(folded, e)
          /\ overrun' = (overrun \/ Late(e.at, IF target = "timing" THEN id ELSE "label"))
      BY <2>0 DEF Noted
    <2>2. account \in Accounts /\ Agrees(account, folded)
      BY <2>1 DEF AccountInv
    <2>3. CASE target # "timing"
      <3>1. TimingEvents(log') = TimingEvents(log)
        BY <1>0, <2>1, <2>3, OneMore
      <3>2. folded' = folded
        BY <2>1, <2>3 DEF OnTiming
      <3>3. QED
        BY <2>2, <3>1, <3>2
    <2>4. CASE target = "timing"
      <3>1. Account(TimingEvents(log')) = OnAccount(account, e)
        BY <1>0, <2>1, <2>4, OneMore
      <3>2. e.id \in Kinds
        BY <1>1, <2>1, <2>4 DEF Noting
      <3>3. e.id = "start" => e.value # None /\ (folded.state = "finished" => folded.finished < e.rev)
        <4> SUFFICES ASSUME e.id = "start"
                     PROVE  e.value # None /\ (folded.state = "finished" => folded.finished < e.rev)
          OBVIOUS
        <4>1. value \in Sessions /\ Clock.state \notin {"running", "finished"}
          BY <1>1, <2>1, <2>4 DEF Noting
        <4>2. folded.state = "finished" => folded.finished < Rev
          BY <1>0, <4>1, MayStart DEF Clock
        <4>3. QED
          BY <2>1, <4>1, <4>2, NoneIsNoSession
      <3>4. e.id \in {"heartbeat", "pause"} => folded.state = "running" /\ folded.session = e.value
        <4> SUFFICES ASSUME e.id \in {"heartbeat", "pause"}
                     PROVE  folded.state = "running" /\ folded.session = e.value
          OBVIOUS
        <4>1. Clock.state = "running" /\ Clock.session = value
          BY <1>1, <2>1, <2>4 DEF Noting
        <4>2. folded.state = "running"
          BY <1>0, <4>1, ShownRunning DEF Clock
        <4>3. Clock.session = folded.session
          BY <4>1 DEF Clock, Shown
        <4>4. QED
          BY <2>1, <4>1, <4>2, <4>3
      <3>5. e.id \in {"heartbeat", "pause", "finish"} /\ folded.state = "running" => Bounded(folded.last, e.at) # None
        BY <2>1, <2>4 DEF Late, Counting
      <3>6. e.target = "timing"
        BY <2>1, <2>4
      <3> HIDE DEF account
      <3>7. OnAccount(account, e) \in Accounts /\ Agrees(OnAccount(account, e), OnTiming(folded, e))
        BY ONLY <1>0, <2>2, <3>2, <3>3, <3>4, <3>5, <3>6, AgreesOn
      <3>8. QED
        BY <2>1, <3>1, <3>7
    <2>5. QED
      BY <2>3, <2>4
  <1>2. ASSUME NEW s \in Sessions, NEW b \in Baselines, BeginTiming(s, b) PROVE AccountInv'
    <2> SUFFICES ASSUME ~overrun'
                 PROVE  Account(TimingEvents(log')) \in Accounts /\ Agrees(Account(TimingEvents(log')), folded')
      BY DEF AccountInv
    <2>0. PICK d, e \in EvidenceEvents : Begun(s, d, e)
      BY <1>0, <1>2, BeginNotes
    <2>1. /\ log' = Append(Append(log, d), e) /\ folded' = OnTiming(OnTiming(folded, d), e)
          /\ d.target = "timing" /\ d.id = "baseline" /\ e.target = "timing" /\ e.id = "start"
          /\ e.value = s /\ UNCHANGED overrun
      BY <2>0 DEF Begun
    <2>2. account \in Accounts /\ Agrees(account, folded)
      BY <2>1 DEF AccountInv
    <2> DEFINE begun == OnAccount(account, d)
               zero == OnTiming(folded, d)
    <2>3. Append(log, d) \in Seq(EvidenceEvents) /\ Account(TimingEvents(Append(log, d))) = begun
      BY <1>0, <2>1, OneMore
    <2>4. Account(TimingEvents(log')) = OnAccount(begun, e)
      <3>1. Account(TimingEvents(Append(Append(log, d), e))) = OnAccount(Account(TimingEvents(Append(log, d))), e)
        BY <2>1, <2>3, OneMore
      <3>2. QED
        BY <2>1, <2>3, <3>1
    <2>5. d.id \in Kinds /\ e.id \in Kinds /\ d.id \notin {"start", "heartbeat", "pause", "finish"}
          /\ e.id \notin {"heartbeat", "pause", "finish"}
      BY <2>1 DEF Kinds
    <2> HIDE DEF account
    <2>6. begun \in Accounts /\ Agrees(begun, zero)
      BY ONLY <1>0, <2>1, <2>2, <2>5, AgreesOn
    <2>7. Sound(zero)
      BY <1>0, <2>5, OnTimingSound
    <2>8. zero.state = "not_started"
      <3>1. zero = [NoTiming EXCEPT !.baseline = d.value, !.last = d.at]
        BY ONLY <2>1 DEF OnTiming
      <3>2. QED
        BY <3>1 DEF NoTiming
    <2> HIDE DEF begun, zero
    <2>9. e.value # None
      BY <2>1, NoneIsNoSession
    <2>10. OnAccount(begun, e) \in Accounts /\ Agrees(OnAccount(begun, e), OnTiming(zero, e))
      BY ONLY <2>1, <2>5, <2>6, <2>7, <2>8, <2>9, AgreesOn
    <2>11. QED
      BY <2>1, <2>4, <2>10 DEF zero
  <1>3. ASSUME NEW kind, NEW of, Committing(kind, of) PROVE AccountInv'
    BY <1>0, <1>3, CommitFacts DEF AccountInv
  <1>4. CASE Passing
    BY <1>4 DEF Passing, AccountInv
  <1>5. QED
    BY <1>1, <1>2, <1>3, <1>4, TrialSteps

LEMMA BundleInitially ==
  ASSUME TrialInit
  PROVE  BundleInv
  <1>1. log = <<>> /\ records = <<>> /\ folded = NoTiming /\ DOMAIN log = {}
    BY DEF TrialInit
  <1>2. Occurs("baseline") = {} /\ Occurs("finish") = {} /\ HumanRevisions = {}
    BY <1>1 DEF Occurs, HumanRevisions
  <1>3. OrderInv /\ FinishInv
    BY <1>1, <1>2 DEF OrderInv, FinishInv
  <1>4. FoldInv
    <2>1. Derived(log) = NoTiming
      BY <1>1, Empties DEF Derived
    <2>2. QED
      BY <1>1, <2>1 DEF FoldInv, NoTiming
  <1>5. AccountInv
    <2>1. <<>> \in Seq(EvidenceEvents)
      OBVIOUS
    <2>2. TimingEvents(log) = <<>>
      BY <1>1, <2>1, TimingOf, Empties
    <2>3. Account(TimingEvents(log)) = NoAccount
      BY <2>2, Empties
    <2>4. NoAccount \in Accounts
      BY DEF NoAccount, Accounts
    <2>5. Agrees(NoAccount, NoTiming)
      BY DEF Agrees, NoAccount, NoTiming
    <2>6. QED
      BY <1>1, <2>3, <2>4, <2>5 DEF AccountInv
  <1>6. QED
    BY <1>3, <1>4, <1>5 DEF BundleInv

LEMMA BundleInvariant == TrialSpec => []BundleInv
  <1>1. TrialInit => BundleInv
    BY BundleInitially
  <1>2. TrialInv /\ BundleInv /\ [TrialNext]_trialVars => BundleInv'
    BY OrderStep, FinishStep, FoldStep, AccountStep DEF BundleInv
  <1>3. QED
    BY <1>1, <1>2, TrialInvariant, PTL DEF TrialSpec

-----------------------------------------------------------------------------
(***************************************************************************)
(* The bundle of an audit.                                                 *)
(***************************************************************************)
\* What the audit keeps of the log: all of the timing, and the labels of the
\* present revision, in their order.
LEMMA AuditEvents ==
  ASSUME TrialTypeOK, FoldInv
  PROVE  LET events == EventsFor(log, Draft)
         IN /\ events \in Seq(EvidenceEvents)
            /\ \A i \in DOMAIN events : Concerns(events[i], Rev)
            /\ \E p : /\ p \in [DOMAIN events -> DOMAIN log]
                      /\ \A i \in DOMAIN events : events[i] = log[p[i]]
                      /\ \A i, j \in DOMAIN events : i < j => p[i] < p[j]
                      /\ \A k \in DOMAIN log : Concerns(log[k], Rev) => \E i \in DOMAIN events : p[i] = k
            /\ TimingEvents(events) = TimingEvents(log)
            /\ Derived(events) = folded
  <1> DEFINE events == EventsFor(log, Draft)
             A == {e \in ToSet(log) : Concerns(e, Draft.rev)}
             Concerning == {e \in EvidenceEvents : Concerns(e, Rev)}
             Recorded == {e \in EvidenceEvents : e.rev <= Rev}
             TimingSoFar == {e \in EvidenceEvents : e.target = "timing" /\ e.rev <= Rev}
  <1>0. /\ Draft.rev = Rev /\ Rev \in Nat /\ log \in Seq(EvidenceEvents)
        /\ \A i \in DOMAIN log : log[i] \in EvidenceEvents /\ log[i] \in ToSet(log) /\ log[i].rev <= Rev
    <2>1. Draft.rev = Rev
      BY DEF Draft
    <2>2. \A i \in DOMAIN log : log[i] \in EvidenceEvents /\ log[i].rev \in 0 .. Rev
      BY DEF TrialTypeOK
    <2>3. \A i \in DOMAIN log : log[i] \in ToSet(log)
      BY DEF ToSet
    <2>4. QED
      BY <2>1, <2>2, <2>3, RevFacts DEF TrialTypeOK
  <1>1. events = Chosen(log, Concerning)
    <2>1. \A i \in DOMAIN log : log[i] \in A <=> log[i] \in Concerning
      BY <1>0
    <2>2. events = Chosen(log, A)
      BY DEF EventsFor
    <2> HIDE DEF A, Concerning, events
    <2>3. Chosen(log, A) = Chosen(log, Concerning)
      BY <1>0, <2>1, ChosenSame
    <2>4. QED
      BY <2>2, <2>3
  <1>2. events \in Seq(EvidenceEvents) /\ \E p : Places(log, Concerning, p)
    <2> HIDE DEF events, Concerning
    <2>1. QED
      BY <1>0, <1>1, ChosenPlaces
  <1>3. PICK p : Places(log, Concerning, p)
    BY <1>2
  <1>4. /\ p \in [DOMAIN events -> DOMAIN log]
        /\ \A i \in DOMAIN events : events[i] = log[p[i]] /\ log[p[i]] \in Concerning
        /\ \A i, j \in DOMAIN events : i < j => p[i] < p[j]
        /\ \A k \in DOMAIN log : log[k] \in Concerning => \E i \in DOMAIN events : p[i] = k
    <2> HIDE DEF events, Concerning
    <2>1. QED
      BY <1>1, <1>3 DEF Places
  <1>5. \A i \in DOMAIN events : events[i] \in EvidenceEvents /\ Concerns(events[i], Rev)
    BY <1>4
  <1>6. \A k \in DOMAIN log : Concerns(log[k], Rev) => \E i \in DOMAIN events : p[i] = k
    BY <1>0, <1>4
  <1>7. TimingEvents(events) = TimingEvents(log)
    <2>1. \A i \in DOMAIN events : events[i] \in TimingKind <=> events[i] \in TimingSoFar
      BY <1>5 DEF TimingKind, Concerns
    <2>2. \A i \in DOMAIN log : log[i] \in TimingKind <=> log[i] \in TimingSoFar
      BY <1>0 DEF TimingKind
    <2>3. TimingSoFar \subseteq Concerning
      BY DEF Concerns
    <2> HIDE DEF events, TimingSoFar, Concerning
    <2>4. TimingEvents(events) = Chosen(events, TimingKind) /\ TimingEvents(log) = Chosen(log, TimingKind)
      BY <1>0, <1>2, TimingOf
    <2>5. Chosen(events, TimingKind) = Chosen(events, TimingSoFar)
      BY <1>2, <2>1, ChosenSame
    <2>6. Chosen(log, TimingKind) = Chosen(log, TimingSoFar)
      BY <1>0, <2>2, ChosenSame
    <2>7. Chosen(Chosen(log, Concerning), TimingSoFar) = Chosen(log, TimingSoFar)
      BY <1>0, <2>3, ChosenTwice
    <2>8. QED
      BY <1>1, <2>4, <2>5, <2>6, <2>7
  <1>8. Derived(events) = folded
    <2>1. log \in Seq(Recorded)
      BY <1>0
    <2>2. \A e \in Recorded : e \notin Concerning => e.target # "timing"
      BY DEF Concerns
    <2> HIDE DEF events, Recorded, Concerning
    <2>3. Derive(NoTiming, Chosen(log, Concerning)) = Derive(NoTiming, log)
      BY <2>1, <2>2, DeriveChosen
    <2>4. QED
      BY <1>1, <2>3 DEF Derived, FoldInv
  <1> HIDE DEF events, A, Concerning, Recorded, TimingSoFar
  <1>9. QED
    BY <1>2, <1>4, <1>5, <1>6, <1>7, <1>8 DEF events

\* The audit has the summary the daemon shows.
LEMMA AuditFacts ==
  ASSUME TrialTypeOK, FoldInv
  PROVE  /\ Bundle(Audit).draft = Draft
         /\ Bundle(Audit).events = EventsFor(log, Draft)
         /\ Bundle(Audit).labels = [c \in DOMAIN Draft.candidates |-> LabelOf(EventsFor(log, Draft), "candidate", c)]
         /\ Bundle(Audit).boundaries = [b \in Draft.boundaries |-> LabelOf(EventsFor(log, Draft), "boundary", b)]
         /\ Bundle(Audit).progress = (/\ Unlabelled(Bundle(Audit).labels) = {}
                                      /\ Unlabelled(Bundle(Audit).boundaries) = {})
         /\ Bundle(Audit).timing = IF Clock.baseline = None THEN None
                                   ELSE [baseline |-> Clock.baseline, active |-> Clock.active,
                                         complete |-> Clock.complete]
  <1>1. Derived(EventsFor(log, Draft)) = folded /\ Draft.rev = Rev
    BY AuditEvents DEF Draft
  <1>2. /\ Audit.draft = Draft /\ Audit.events = EventsFor(log, Draft)
        /\ Audit.labels = [c \in DOMAIN Draft.candidates |-> LabelOf(EventsFor(log, Draft), "candidate", c)]
        /\ Audit.boundaries = [b \in Draft.boundaries |-> LabelOf(EventsFor(log, Draft), "boundary", b)]
        /\ Audit.timing = Shown(folded, clock, Rev)
    BY <1>1 DEF Audit, Evidence
  <1>3. Audit.timing = Clock
    BY <1>2 DEF Clock
  <1>4. /\ Bundle(Audit).draft = Audit.draft /\ Bundle(Audit).events = Audit.events
        /\ Bundle(Audit).labels = Audit.labels /\ Bundle(Audit).boundaries = Audit.boundaries
        /\ Bundle(Audit).progress = Labelled(Audit)
        /\ Bundle(Audit).timing = IF Audit.timing.baseline = None THEN None
                                  ELSE [baseline |-> Audit.timing.baseline, active |-> Audit.timing.active,
                                        complete |-> Audit.timing.complete]
    BY DEF Bundle
  <1>5. QED
    BY <1>2, <1>3, <1>4 DEF Labelled

\* A bounded set of numbers that is not empty has a greatest and a least.
LEMMA Bounds ==
  ASSUME NEW N \in Nat, NEW S \in SUBSET (0 .. N), S # {}
  PROVE  /\ Max(S) \in S /\ \A x \in S : x <= Max(S)
         /\ Min(S) \in S /\ \A x \in S : Min(S) <= x
  <1>1. \E x \in S : \A y \in S : x <= y
    BY LeastNumber
  <1>2. \E x \in S : \A y \in S : x >= y
    <2> DEFINE T == {N - x : x \in S}
    <2>1. T \in SUBSET Nat /\ T # {}
      <3>1. \A x \in S : x \in 0 .. N
        OBVIOUS
      <3>2. \A x \in S : N - x \in Nat
        BY <3>1
      <3>3. QED
        BY <3>2
    <2>2. PICK n \in T : \A m \in T : n <= m
      BY <2>1, LeastNumber
    <2>3. PICK x \in S : n = N - x
      BY <2>2
    <2>4. ASSUME NEW y \in S PROVE x >= y
      <3>1. N - y \in T
        OBVIOUS
      <3>2. n <= N - y
        BY <2>2, <3>1
      <3>3. x \in 0 .. N /\ y \in 0 .. N
        OBVIOUS
      <3>4. QED
        BY <2>3, <3>2, <3>3
    <2>5. QED
      BY <2>4
  <1>3. Min(S) \in S /\ \A x \in S : Min(S) <= x
    BY <1>1 DEF Min
  <1>4. Max(S) \in S /\ \A x \in S : Max(S) >= x
    BY <1>2 DEF Max
  <1>5. \A x \in S : x \in Nat
    OBVIOUS
  <1>6. QED
    BY <1>3, <1>4, <1>5

\* Whatever the operator, the reviewers and the jobs did and whenever, the bundle
\* made of the evidence passes the validation of the reader, for any candidates,
\* sessions, clock and limits (evidence.ts; bundle.ts, validatePayload).
THEOREM BundlesAreAccepted == TrialSpec => []BundleAccepted
  <1>1. TrialInv /\ BundleInv => BundleAccepted
    <2> SUFFICES ASSUME TrialInv, BundleInv, ~overrun,
                        TimingEvents(log) # <<>> => /\ TimingEvents(log)[1].id = "baseline"
                                                    /\ TimingEvents(log)[1].at >= EnrolledAt
                 PROVE  ValidBundle(Bundle(Audit))
      BY DEF BundleAccepted
    <2> DEFINE B == Bundle(Audit)
               events == EventsFor(log, Draft)
               timing == TimingEvents(log)
    <2>1. /\ TrialTypeOK /\ LabelInv /\ RecordsInv /\ OrderInv /\ FinishInv /\ FoldInv /\ AccountInv
          /\ log \in Seq(EvidenceEvents) /\ Rev \in Nat /\ Sound(folded) /\ clock \in Nat
          /\ Len(log) \in Nat /\ DOMAIN log = 1 .. Len(log) /\ Draft.rev = Rev
          /\ \A i \in DOMAIN log : log[i] \in EvidenceEvents /\ log[i].seq = i /\ log[i].rev \in 0 .. Rev
      BY RevFacts DEF TrialInv, BundleInv, TrialTypeOK, Draft
    <2>2. /\ B.draft = Draft /\ B.events = events
          /\ B.labels = [c \in DOMAIN Draft.candidates |-> LabelOf(events, "candidate", c)]
          /\ B.boundaries = [b \in Draft.boundaries |-> LabelOf(events, "boundary", b)]
          /\ B.progress = (Unlabelled(B.labels) = {} /\ Unlabelled(B.boundaries) = {})
          /\ B.timing = IF Clock.baseline = None THEN None
                        ELSE [baseline |-> Clock.baseline, active |-> Clock.active, complete |-> Clock.complete]
      BY <2>1, AuditFacts
    <2>3. /\ events \in Seq(EvidenceEvents)
          /\ \A i \in DOMAIN events : Concerns(events[i], Rev)
          /\ \E p : /\ p \in [DOMAIN events -> DOMAIN log]
                    /\ \A i \in DOMAIN events : events[i] = log[p[i]]
                    /\ \A i, j \in DOMAIN events : i < j => p[i] < p[j]
                    /\ \A k \in DOMAIN log : Concerns(log[k], Rev) => \E i \in DOMAIN events : p[i] = k
          /\ TimingEvents(events) = timing
      BY <2>1, AuditEvents
    <2>4. PICK p : /\ p \in [DOMAIN events -> DOMAIN log]
                   /\ \A i \in DOMAIN events : events[i] = log[p[i]]
                   /\ \A i, j \in DOMAIN events : i < j => p[i] < p[j]
                   /\ \A k \in DOMAIN log : Concerns(log[k], Rev) => \E i \in DOMAIN events : p[i] = k
      BY <2>3
    <2>5. timing = Chosen(log, TimingKind) /\ timing \in Seq(EvidenceEvents)
      BY <2>1, TimingOf
    <2>6. PICK q : Places(log, TimingKind, q)
      BY <2>1, ChosenPlaces
    <2>7. /\ q \in [DOMAIN timing -> DOMAIN log]
          /\ \A i \in DOMAIN timing : timing[i] = log[q[i]] /\ log[q[i]] \in TimingKind
          /\ \A i, j \in DOMAIN timing : i < j => q[i] < q[j]
          /\ \A k \in DOMAIN log : log[k] \in TimingKind => \E i \in DOMAIN timing : q[i] = k
      <3> HIDE DEF timing
      <3>1. QED
        BY <2>5, <2>6 DEF Places
    <2>8. \A k \in DOMAIN log : log[k].target = "timing" => log[k] \in TimingKind
      BY <2>1 DEF TimingKind
    <2>9. \A k \in DOMAIN log : log[k].target = "timing" => Concerns(log[k], Rev)
      BY <2>1 DEF Concerns
    <2>10. Clock.baseline = folded.baseline /\ Clock.active = folded.active
      BY DEF Clock, Shown
    <2>11. Clock.complete => folded.state = "finished"
      BY <2>1, ShownComplete DEF Clock
    <2>12. Clock.baseline # None => enrolled
      BY <2>1, <2>10 DEF FoldInv, NoTiming
    <2> HIDE DEF B, events, timing
    <2>20. LabelsHaveExport(B)
      <3> SUFFICES ASSUME \/ \E c \in DOMAIN B.labels : B.labels[c] # None
                          \/ \E x \in DOMAIN B.boundaries : B.boundaries[x] # None
                   PROVE  ExportAccepted(B.draft)
        BY DEF LabelsHaveExport
      <3>1. \E target \in {"candidate", "boundary"} : \E id : LabelOf(events, target, id) # None
        BY <2>2
      <3>2. PICK i \in DOMAIN events : events[i].target # "timing"
        BY <3>1 DEF LabelOf
      <3>3. p[i] \in DOMAIN log /\ log[p[i]].target # "timing" /\ log[p[i]].rev = Rev
        BY <2>3, <2>4, <3>2 DEF Concerns
      <3>4. ExportAccepted(Draft)
        BY <2>1, <3>3 DEF LabelInv
      <3>5. QED
        BY <2>2, <3>4
    <2>21. ProgressMatches(B)
      BY <2>2 DEF ProgressMatches
    <2>22. EventsBound(B)
      <3>1. ASSUME NEW i \in DOMAIN B.events
            PROVE  /\ Concerns(B.events[i], B.draft.rev)
                   /\ \A j \in 1 .. (i - 1) : /\ B.events[j].seq < B.events[i].seq
                                              /\ B.events[j].request # B.events[i].request
        <4>1. Concerns(B.events[i], B.draft.rev)
          BY <2>1, <2>2, <2>3
        <4>2. ASSUME NEW j \in 1 .. (i - 1)
              PROVE  B.events[j].seq < B.events[i].seq /\ B.events[j].request # B.events[i].request
          <5>1. i \in DOMAIN events /\ j \in DOMAIN events /\ j < i
            BY <2>2, <2>3, <3>1, <4>2
          <5>2. p[j] < p[i] /\ p[i] \in DOMAIN log /\ p[j] \in DOMAIN log
                /\ events[i] = log[p[i]] /\ events[j] = log[p[j]]
            BY <2>4, <5>1
          <5>3. /\ events[i].seq = p[i] /\ events[j].seq = p[j]
                /\ events[i].request = p[i] /\ events[j].request = p[j]
            BY <2>1, <5>2 DEF OrderInv
          <5>4. QED
            BY <2>1, <2>2, <5>2, <5>3
        <4>3. QED
          BY <4>1, <4>2
      <3>2. \A i, j \in DOMAIN timing : i < j => timing[i].rev <= timing[j].rev
        BY <2>7, <2>1 DEF OrderInv
      <3>3. TimingEvents(B.events) = timing
        BY <2>2, <2>3
      <3>4. /\ \A c \in DOMAIN B.labels : B.labels[c] = LabelOf(B.events, "candidate", c)
            /\ \A x \in DOMAIN B.boundaries : B.boundaries[x] = LabelOf(B.events, "boundary", x)
        BY <2>2
      <3>5. QED
        BY <3>1, <3>2, <3>3, <3>4 DEF EventsBound
    <2>23. EnrolledBefore(B) /\ TimingBegan(B)
      <3> DEFINE S == {i \in DOMAIN timing : timing[i].id = "start"}
      <3> SUFFICES ASSUME B.timing # None
                   PROVE  /\ Draft.enrolled
                          /\ timing # <<>> /\ timing[1].id = "baseline"
                          /\ Draft.since <= timing[1].at
                          /\ Draft.first # None =>
                               /\ \A i \in DOMAIN timing : timing[i].id = "baseline" => timing[i].rev < Draft.first
                               /\ S # {} /\ timing[Min(S)].rev < Draft.first
        <4>1. TimingEvents(B.events) = timing /\ B.draft = Draft
          BY <2>2, <2>3
        <4>2. QED
          BY <4>1 DEF EnrolledBefore, TimingBegan
      <3>1. folded.baseline # None /\ enrolled
        BY <2>2, <2>10, <2>12
      <3>2. Draft.enrolled
        BY <3>1 DEF Draft
      <3>3. timing # <<>> /\ timing[1].id = "baseline" /\ timing[1].at >= EnrolledAt
        <4>1. PICK k \in Occurs("baseline") : TRUE
          BY <2>1, <3>1 DEF FoldInv
        <4>2. \E i \in DOMAIN timing : q[i] = k
          BY <2>7, <2>8, <4>1 DEF Occurs
        <4>3. timing # <<>>
          BY <4>2
        <4>4. QED
          BY <4>3 DEF timing
      <3>7. Draft.since <= timing[1].at
        <4>1. Draft.since = EnrolledAt /\ EnrolledAt \in Nat
          BY TrialBounds DEF Draft
        <4>2. timing[1].at \in Nat
          <5>1. 1 \in DOMAIN timing
            BY <2>5, <3>3
          <5>2. timing[1] \in EvidenceEvents
            BY <2>5, <5>1
          <5>3. QED
            BY <5>2 DEF EvidenceEvents
        <4>3. QED
          BY <3>3, <4>1, <4>2
      <3>4. ASSUME Draft.first # None
            PROVE  /\ \A i \in DOMAIN timing : timing[i].id = "baseline" => timing[i].rev < Draft.first
                   /\ S # {} /\ timing[Min(S)].rev < Draft.first
        <4>1. HumanRevisions # {} /\ Draft.first = Min(HumanRevisions)
          BY <3>4 DEF Draft
        <4>2. HumanRevisions \subseteq 0 .. Rev
          BY <2>1, RevFacts DEF HumanRevisions
        <4>3. Draft.first \in HumanRevisions
          BY <2>1, <4>1, <4>2, Bounds
        <4>4. ASSUME NEW i \in DOMAIN timing, timing[i].id = "baseline" PROVE timing[i].rev < Draft.first
          <5>1. q[i] \in Occurs("baseline") /\ timing[i] = log[q[i]]
            BY <2>7, <4>4 DEF Occurs, TimingKind
          <5>2. QED
            BY <2>1, <4>3, <5>1 DEF OrderInv
        <4>5. PICK k \in Starts : \A j \in HumanRevisions : log[k].rev < j
          BY <2>1, <3>1, <4>1 DEF OrderInv, StartedFirst
        <4>6. PICK i \in DOMAIN timing : q[i] = k
          BY <2>7, <2>8, <4>5 DEF Starts
        <4>7. i \in S /\ timing[i].rev < Draft.first
          BY <2>7, <4>3, <4>5, <4>6 DEF Starts
        <4>8. S \subseteq 0 .. Len(timing) /\ Len(timing) \in Nat
          BY <2>5
        <4> DEFINE first == Min(S)
        <4> HIDE DEF S
        <4>9. first \in S /\ first <= i
          BY <4>7, <4>8, Bounds
        <4>10. first \in DOMAIN timing
          BY <4>9 DEF S
        <4> HIDE DEF first
        <4>11. timing[first].rev <= timing[i].rev
          <5>1. CASE first = i
            <6>1. timing[i].rev \in Nat
              BY <2>1, <2>7
            <6>2. QED
              BY <5>1, <6>1
          <5>2. CASE first # i
            <6>1. first < i
              BY <2>5, <4>9, <4>10, <5>2
            <6>2. q[first] < q[i] /\ q[first] \in DOMAIN log /\ q[i] \in DOMAIN log
                  /\ timing[first] = log[q[first]] /\ timing[i] = log[q[i]]
              BY <2>7, <4>10, <6>1
            <6>3. QED
              BY <2>1, <6>2 DEF OrderInv
          <5>3. QED
            BY <5>1, <5>2
        <4>12. timing[first].rev \in Int /\ timing[i].rev \in Int /\ Draft.first \in Int
          <5>1. \A j \in DOMAIN timing : timing[j].rev \in Int
            <6>1. \A j \in DOMAIN timing : q[j] \in DOMAIN log /\ timing[j] = log[q[j]]
              BY <2>7
            <6>2. QED
              BY <2>1, <6>1
          <5>2. Draft.first \in Int
            <6>1. Draft.first \in 0 .. Rev
              BY <4>2, <4>3
            <6>2. QED
              BY <6>1
          <5>3. QED
            BY <4>10, <5>1, <5>2
        <4>13. timing[first].rev < Draft.first
          BY <4>7, <4>11, <4>12
        <4>14. QED
          BY <4>4, <4>7, <4>13 DEF first
      <3>5. QED
        BY <3>2, <3>3, <3>4, <3>7
    <2>24. TimingAdds(B)
      <3> SUFFICES ASSUME B.timing # None, B.timing.complete
                   PROVE  LET a == Account(timing)
                          IN a.ok /\ a.finished /\ a.baseline = B.timing.baseline /\ a.active = B.timing.active
        <4>1. TimingEvents(B.events) = timing
          BY <2>2, <2>3
        <4>2. QED
          BY <4>1 DEF TimingAdds
      <3>1. Clock.complete /\ B.timing.baseline = folded.baseline /\ B.timing.active = folded.active
        BY <2>2, <2>10
      <3>2. Agrees(Account(timing), folded)
        BY <2>1 DEF AccountInv, timing
      <3>3. QED
        BY <2>11, <3>1, <3>2 DEF Agrees
    <2>25. LabelsFollowFinish(B)
      <3> DEFINE L == {i \in DOMAIN events : events[i].target \in {"candidate", "boundary"}}
                 F == {i \in DOMAIN events : events[i].target = "timing" /\ events[i].id = "finish"}
                 LabelSeqs == {events[i].seq : i \in L}
                 Finishes == {events[i].seq : i \in F}
      <3> SUFFICES ASSUME LabelSeqs # {}, B.timing # None
                   PROVE  B.timing.complete /\ Finishes # {} /\ \A s \in LabelSeqs : s > Max(Finishes)
        <4>1. B.events = events
          BY <2>2
        <4>2. QED
          BY <4>1 DEF LabelsFollowFinish
      <3>1. \A i \in DOMAIN events : /\ p[i] \in DOMAIN log /\ events[i] = log[p[i]] /\ events[i].seq = p[i]
                                     /\ p[i] \in Nat /\ p[i] <= Len(log)
        BY <2>1, <2>4
      <3>2. ASSUME NEW i \in L PROVE log[p[i]].target # "timing" /\ log[p[i]].rev = Rev
        BY <2>3, <3>1 DEF Concerns
      <3>3. Clock.complete
        <4>1. PICK i \in L : TRUE
          OBVIOUS
        <4>2. p[i] \in DOMAIN log /\ log[p[i]].target # "timing" /\ log[p[i]].rev = Rev
          BY <3>1, <3>2
        <4>3. enrolled
          BY <2>2, <2>12
        <4>4. QED
          BY <2>1, <4>2, <4>3 DEF LabelInv
      <3>4. B.timing.complete
        BY <2>2, <3>3
      <3>5. Finishes # {}
        <4>1. PICK k \in Occurs("finish") : TRUE
          BY <2>1, <2>11, <3>3 DEF FoldInv
        <4>2. PICK i \in DOMAIN events : p[i] = k
          BY <2>4, <2>9, <4>1 DEF Occurs
        <4>3. i \in F
          BY <3>1, <4>1, <4>2 DEF Occurs
        <4>4. QED
          BY <4>3
      <3>6. Finishes \subseteq 0 .. Len(log)
        BY <2>1, <3>1
      <3>7. Max(Finishes) \in Finishes
        <4> HIDE DEF Finishes
        <4>1. QED
          BY <2>1, <3>5, <3>6, Bounds
      <3>8. PICK j \in F : Max(Finishes) = p[j]
        <4>1. PICK j \in F : Max(Finishes) = events[j].seq
          BY <3>7
        <4>2. QED
          BY <3>1, <4>1
      <3>9. p[j] \in Occurs("finish")
        BY <3>1 DEF Occurs
      <3>10. ASSUME NEW s \in LabelSeqs PROVE s > Max(Finishes)
        <4>1. PICK i \in L : s = events[i].seq
          OBVIOUS
        <4>2. s = p[i] /\ p[i] \in DOMAIN log /\ p[i] \in Nat /\ p[j] \in Nat
          BY <3>1, <4>1
        <4>3. p[j] < p[i]
          BY <2>1, <3>2, <3>9, <4>2 DEF FinishInv
        <4> HIDE DEF Finishes
        <4>4. QED
          BY <3>8, <4>2, <4>3
      <3>11. QED
        BY <3>4, <3>5, <3>10
    <2>26. QED
      BY <2>20, <2>21, <2>22, <2>23, <2>24, <2>25 DEF ValidBundle, B
  <1>2. QED
    BY <1>1, TrialInvariant, BundleInvariant, PTL

-----------------------------------------------------------------------------
(***************************************************************************)
(* The registration.                                                       *)
(***************************************************************************)
\* What is on file stays there, so a manifest that could be read still can.
LEMMA MaterializesGrows ==
  ASSUME NEW M, NEW onFile, NEW more, onFile \subseteq more, Materializes(M, onFile, Authorized0)
  PROVE  Materializes(M, more, Authorized0)
  BY DEF Materializes

\* A process that goes on to a stage it has the knowledge for.
LEMMA GoesOn ==
  ASSUME CollectInv, NEW c \in Collectors, NEW to \in Processes, Goes(c, to),
         files \subseteq files', ProcessHolds(to, files')
  PROVE  /\ process' \in [Collectors -> Processes]
         /\ \A d \in Collectors : ProcessHolds(process'[d], files')
  <1>1. process \in [Collectors -> Processes] /\ process' = [process EXCEPT ![c] = to]
    BY DEF CollectInv, CollectTypeOK, Goes
  <1>2. process' \in [Collectors -> Processes] /\ process'[c] = to
        /\ \A d \in Collectors : d # c => process'[d] = process[d]
    BY <1>1
  <1>3. \A d \in Collectors : ProcessHolds(process[d], files)
    BY DEF CollectInv
  <1>4. ASSUME NEW d \in Collectors PROVE ProcessHolds(process[d], files')
    <2>1. process[d].at = "compared" => Materializes(process[d].next, files', Authorized0)
      BY <1>3, MaterializesGrows DEF ProcessHolds
    <2>2. QED
      BY <1>3, <2>1 DEF ProcessHolds
  <1>5. ASSUME NEW d \in Collectors PROVE ProcessHolds(process'[d], files')
    BY <1>2, <1>4
  <1>6. QED
    BY <1>2, <1>5

\* Back to where nothing is known.
LEMMA IdleHolds ==
  Idle \in Processes /\ \A onFile : ProcessHolds(Idle, onFile)
  <1>1. Idle \in Processes
    BY DEF Idle, Processes, Stages
  <1>2. QED
    BY <1>1 DEF Idle, ProcessHolds, EntriesProved

\* What a process at work has found out.
LEMMA AtWork ==
  ASSUME CollectInv, NEW c \in Collectors
  PROVE  /\ process[c] \in Processes /\ ProcessHolds(process[c], files)
         /\ process[c].at # "idle" =>
              /\ process[c].cohort \in Cohorts /\ process[c].project \in Projects
              /\ <<process[c].cohort, SourceOf[process[c].project]>> \in Authorized0
              /\ project[process[c].project].rev \in Nat
  <1>1. process[c] \in Processes /\ ProcessHolds(process[c], files)
    BY DEF CollectInv, CollectTypeOK
  <1>2. process[c].at # "idle" =>
          /\ process[c].cohort \in Cohorts /\ process[c].project \in Projects
          /\ <<process[c].cohort, SourceOf[process[c].project]>> \in Authorized0
    BY <1>1 DEF ProcessHolds
  <1>3. project \in [Projects -> [rev : Nat, figures : UNION {FiguresOf[p] : p \in Projects}]]
    BY DEF CollectInv, CollectTypeOK
  <1>4. QED
    BY <1>1, <1>2, <1>3

\* The bundle of a project that was just audited.
LEMMA BundleHolds ==
  ASSUME CollectInv, NEW p \in Projects, NEW checks \in SUBSET Checks, NEW proved \in Nat
  PROVE  /\ BundleOf(p, checks, proved) \in Bundles
         /\ BundleOf(p, checks, proved).proved = proved
         /\ BundleOf(p, checks, proved).rev = project[p].rev
         /\ BundleOf(p, checks, proved).project = p
  <1>1. project[p].rev \in Nat /\ project[p].figures \in UNION {FiguresOf[q] : q \in Projects}
    BY DEF CollectInv, CollectTypeOK
  <1>2. SourceOf[p] \in Sources
    BY DEF Sources
  <1>3. BundleOf(p, checks, proved) \in Bundles
    BY <1>1, <1>2 DEF BundleOf, Bundles
  <1>4. QED
    BY <1>3 DEF BundleOf

\* A registration adds an entry of its own cohort, or gives it the bundle.
LEMMA UpsertHolds ==
  ASSUME CollectInv, NEW entries \in SUBSET Entries, EntriesProved(entries),
         NEW cohort \in Cohorts, NEW bundle \in Bundles, Proved(bundle, cohort)
  PROVE  Upsert(entries, cohort, bundle) \in SUBSET Entries
         /\ EntriesProved(Upsert(entries, cohort, bundle))
  <1> DEFINE known == {e \in entries : e.cohort = cohort}
             fresh == [cohort |-> cohort, source |-> bundle.source, bundle |-> bundle, confirmed |-> TRUE,
                classes |-> ClassesOf[cohort], completed |-> FALSE, exported |-> FALSE,
                predicted |-> bundle.figures.predicted, hits |-> Absent,
                highRisk |-> bundle.figures.highRisk, cuts |-> bundle.figures.cuts, usable |-> Absent,
                evaluated |-> Unmeasured, passed |-> Unmeasured, timing |-> Absent]
             updated(e) == [e EXCEPT !.bundle = bundle, !.classes = ClassesOf[cohort]]
  <1>1. bundle.source \in Sources /\ bundle.figures \in Figures
    <2>1. bundle.figures \in UNION {FiguresOf[p] : p \in Projects} /\ bundle.source \in Sources
      BY DEF Bundles
    <2>2. QED
      BY <2>1, AuditAssumption
  <1>2. /\ bundle.figures.predicted \in Nat /\ bundle.figures.highRisk \in Nat /\ bundle.figures.cuts \in Nat
        /\ ClassesOf[cohort] \in {ClassesOf[d] : d \in Cohorts}
    BY <1>1 DEF Figures
  <1>3. fresh \in Entries /\ fresh.bundle = bundle /\ fresh.cohort = cohort
    BY <1>1, <1>2 DEF Entries
  <1>4. ASSUME NEW e \in Entries
        PROVE  updated(e) \in Entries /\ updated(e).bundle = bundle /\ updated(e).cohort = e.cohort
    <2>1. updated(e) \in Entries
      BY <1>2, <1>4 DEF Entries
    <2>2. QED
      BY <1>4, <2>1 DEF Entries
  <1> HIDE DEF fresh, updated
  <1>5. Upsert(entries, cohort, bundle) =
          IF known = {} THEN entries \cup {fresh} ELSE (entries \ known) \cup {updated(e) : e \in known}
    BY DEF Upsert, fresh, updated
  <1>6. ASSUME NEW f \in Upsert(entries, cohort, bundle)
        PROVE  f \in Entries /\ Proved(f.bundle, f.cohort)
    <2>1. f \in entries \/ f = fresh \/ \E e \in known : f = updated(e)
      BY <1>5
    <2>2. CASE f \in entries
      BY <2>2 DEF EntriesProved
    <2>3. CASE f = fresh
      BY <1>3, <2>3
    <2>4. ASSUME NEW e \in known, f = updated(e)
          PROVE  f \in Entries /\ Proved(f.bundle, f.cohort)
      <3>1. e \in Entries /\ e.cohort = cohort
        OBVIOUS
      <3>2. f \in Entries /\ f.bundle = bundle /\ f.cohort = cohort
        BY <1>4, <2>4, <3>1
      <3>3. QED
        BY <3>2
    <2>5. QED
      BY <2>1, <2>2, <2>3, <2>4
  <1>7. QED
    BY <1>6 DEF EntriesProved

\* A step of a process leaves the rest as good as it was.
LEMMA ProcessStep ==
  ASSUME CollectInv, NEW c \in Collectors, NEW to \in Processes, Goes(c, to), ProcessHolds(to, files'),
         files \subseteq files', files' \in SUBSET Bundles, UNCHANGED project, runs' \in 0 .. MaxRuns,
         \/ UNCHANGED manifest
         \/ /\ manifest' \in SUBSET Entries /\ EntriesProved(manifest')
            /\ Materializes(manifest', files', Authorized0)
  PROVE  CollectInv'
  <1>1. process' \in [Collectors -> Processes] /\ \A d \in Collectors : ProcessHolds(process'[d], files')
    BY GoesOn
  <1>2. /\ manifest' \in SUBSET Entries /\ EntriesProved(manifest')
        /\ Materializes(manifest', files', Authorized0)
    BY MaterializesGrows DEF CollectInv, CollectTypeOK
  <1>3. CollectTypeOK'
    BY <1>1, <1>2 DEF CollectInv, CollectTypeOK
  <1>4. QED
    BY <1>1, <1>2, <1>3 DEF CollectInv

\* A step that only goes on to the next stage, or gives up.
LEMMA StageStep ==
  ASSUME CollectInv, NEW c \in Collectors, NEW to \in Processes, Goes(c, to) \/ Goes(c, Idle),
         ProcessHolds(to, files), UNCHANGED <<project, files, manifest, runs>>
  PROVE  CollectInv'
  <1>1. files' \in SUBSET Bundles /\ runs' \in 0 .. MaxRuns /\ files' = files
    BY DEF CollectInv, CollectTypeOK
  <1>2. QED
    BY <1>1, ProcessStep, IdleHolds

LEMMA CollectSteps ==
  ASSUME CollectInv, NEW c \in Collectors,
         \/ \E cohort \in Cohorts, p \in Projects : Begin(c, cohort, p)
         \/ ReadManifest(c) \/ OpenSource(c) \/ Probe(c) \/ MakeBundle(c)
         \/ Publish(c) \/ Compare(c) \/ Rename(c) \/ Killed(c)
  PROVE  CollectInv'
  <1> DEFINE me == process[c]
  <1>0. /\ me \in Processes /\ ProcessHolds(me, files)
        /\ files \in SUBSET Bundles /\ manifest \in SUBSET Entries /\ EntriesProved(manifest)
        /\ runs \in 0 .. MaxRuns
    BY AtWork DEF CollectInv, CollectTypeOK
  <1>a. me.at # "idle" =>
              /\ me.cohort \in Cohorts /\ me.project \in Projects
              /\ <<me.cohort, SourceOf[me.project]>> \in Authorized0
              /\ project[me.project].rev \in Nat
    BY AtWork
  <1> HIDE DEF me
  <1>1. ASSUME NEW cohort \in Cohorts, NEW p \in Projects, Begin(c, cohort, p) PROVE CollectInv'
    <2> DEFINE to == [Idle EXCEPT !.at = "started", !.cohort = cohort, !.project = p, !.rev = project[p].rev]
    <2>1. project[p].rev \in Nat
      BY DEF CollectInv, CollectTypeOK
    <2>2. to \in Processes /\ to.at = "started" /\ to.cohort = cohort /\ to.project = p
          /\ to.read = {} /\ to.next = {}
      BY <2>1 DEF Idle, Processes, Stages
    <2>3. Goes(c, to) /\ <<cohort, SourceOf[p]>> \in Authorized0 /\ UNCHANGED <<project, files, manifest>>
      BY <1>1 DEF Begin
    <2> HIDE DEF to
    <2>4. ProcessHolds(to, files')
      BY <2>2, <2>3 DEF ProcessHolds, EntriesProved
    <2>5. runs' \in 0 .. MaxRuns
      <3>1. MaxRuns \in Nat /\ runs \in Nat /\ runs < MaxRuns /\ runs' = runs + 1
        <4>1. MaxRuns \in Nat
          BY CollectBounds
        <4>2. runs < MaxRuns /\ runs' = runs + 1
          BY <1>1 DEF Begin
        <4>3. QED
          BY <1>0, <4>1, <4>2
      <3>2. QED
        BY <3>1
    <2>6. QED
      BY <1>0, <2>2, <2>3, <2>4, <2>5, ProcessStep
  <1>2. CASE ReadManifest(c)
    <2> DEFINE to == [me EXCEPT !.at = "read", !.read = manifest]
    <2>1. to \in Processes /\ to.at = "read" /\ to.cohort = me.cohort /\ to.project = me.project
          /\ to.read = manifest /\ to.next = me.next
      BY <1>0 DEF Processes, Stages
    <2>2. (Goes(c, to) \/ Goes(c, Idle)) /\ me.at = "started" /\ UNCHANGED <<project, files, manifest, runs>>
      BY <1>2 DEF ReadManifest, me
    <2> HIDE DEF to
    <2>3. ProcessHolds(to, files)
      BY <1>0, <1>a, <2>1, <2>2 DEF ProcessHolds
    <2>4. QED
      BY <2>1, <2>2, <2>3, StageStep
  <1>3. CASE OpenSource(c)
    <2> DEFINE to == [me EXCEPT !.at = "source"]
    <2>1. to \in Processes /\ to.at = "source" /\ to.cohort = me.cohort /\ to.project = me.project
          /\ to.read = me.read /\ to.next = me.next
      BY <1>0 DEF Processes, Stages
    <2>2. (Goes(c, to) \/ Goes(c, Idle)) /\ me.at = "read" /\ UNCHANGED <<project, files, manifest, runs>>
      BY <1>3 DEF OpenSource, me
    <2> HIDE DEF to
    <2>3. ProcessHolds(to, files)
      BY <1>0, <1>a, <2>1, <2>2 DEF ProcessHolds
    <2>4. QED
      BY <2>1, <2>2, <2>3, StageStep
  <1>4. CASE Probe(c)
    <2>0. me.at = "source" /\ UNCHANGED <<project, files, manifest, runs>>
      BY <1>4 DEF Probe, me
    <2>1. CASE project[me.project].rev # me.rev
      <3>1. Goes(c, Idle)
        BY <1>4, <2>1 DEF Probe, me
      <3>2. QED
        BY <2>0, <3>1, StageStep, IdleHolds
    <2>2. CASE project[me.project].rev = me.rev
      <3> DEFINE to == [me EXCEPT !.at = "probed", !.checks = ProbeOf(me.project),
                                  !.proved = project[me.project].rev]
      <3>1. ProbeOf(me.project) \in SUBSET Checks /\ project[me.project].rev \in Nat
        BY <1>a, <2>0 DEF ProbeOf
      <3>2. to \in Processes /\ to.at = "probed" /\ to.cohort = me.cohort /\ to.project = me.project
            /\ to.read = me.read /\ to.next = me.next /\ to.proved = me.rev /\ to.rev = me.rev
        BY <1>0, <2>2, <3>1 DEF Processes, Stages
      <3>3. Goes(c, to)
        BY <1>4, <2>2 DEF Probe, me
      <3> HIDE DEF to
      <3>4. ProcessHolds(to, files)
        BY <1>0, <1>a, <2>0, <3>2 DEF ProcessHolds
      <3>5. QED
        BY <2>0, <3>2, <3>3, <3>4, StageStep
    <2>3. QED
      BY <2>1, <2>2
  <1>5. CASE MakeBundle(c)
    <2>0. me.at = "probed" /\ UNCHANGED <<project, files, manifest, runs>>
      BY <1>5 DEF MakeBundle, me
    <2>1. CASE project[me.project].rev # me.rev
      <3>1. Goes(c, Idle)
        BY <1>5, <2>1 DEF MakeBundle, me
      <3>2. QED
        BY <2>0, <3>1, StageStep, IdleHolds
    <2>2. CASE project[me.project].rev = me.rev
      <3> DEFINE made == BundleOf(me.project, me.checks, me.proved)
                 to == [me EXCEPT !.at = "bundled", !.bundle = made]
      <3>1. me.checks \in SUBSET Checks /\ me.proved \in Nat /\ me.project \in Projects
        BY <1>0, <1>a, <2>0 DEF Processes
      <3>2. made \in Bundles /\ made.proved = me.proved /\ made.rev = me.rev /\ made.project = me.project
        BY <2>2, <3>1, BundleHolds
      <3>3. Goes(c, to)
        BY <1>5, <2>2 DEF MakeBundle, me
      <3> HIDE DEF made
      <3>4. to \in Processes /\ to.at = "bundled" /\ to.cohort = me.cohort /\ to.project = me.project
            /\ to.read = me.read /\ to.next = me.next /\ to.bundle = made
        BY <1>0, <3>2 DEF Processes, Stages
      <3> HIDE DEF to
      <3>5. me.proved = me.rev
        BY <1>0, <2>0 DEF ProcessHolds
      <3>6. Proved(made, me.cohort)
        BY <1>a, <2>0, <3>2, <3>5 DEF Proved
      <3>7. ProcessHolds(to, files)
        BY <1>0, <1>a, <2>0, <3>2, <3>4, <3>6 DEF ProcessHolds
      <3>8. QED
        BY <2>0, <3>3, <3>4, <3>7, StageStep
    <2>3. QED
      BY <2>1, <2>2
  <1>6. CASE Publish(c)
    <2> DEFINE next == Upsert(me.read, me.cohort, me.bundle)
               to == [me EXCEPT !.at = "published", !.next = next]
    <2>1. me.at = "bundled" /\ files' = files \cup {me.bundle} /\ Goes(c, to)
          /\ UNCHANGED <<project, manifest, runs>>
      BY <1>6 DEF Publish, me
    <2>2. /\ me.bundle \in Bundles /\ Proved(me.bundle, me.cohort) /\ me.cohort \in Cohorts
          /\ me.read \in SUBSET Entries /\ EntriesProved(me.read)
      BY <1>0, <1>a, <2>1 DEF ProcessHolds, Processes
    <2>3. next \in SUBSET Entries /\ EntriesProved(next)
      BY <2>2, UpsertHolds
    <2> HIDE DEF next
    <2>4. to \in Processes /\ to.at = "published" /\ to.cohort = me.cohort /\ to.project = me.project
          /\ to.read = me.read /\ to.next = next
      BY <1>0, <2>3 DEF Processes, Stages
    <2> HIDE DEF to
    <2>5. ProcessHolds(to, files')
      BY <1>a, <2>1, <2>2, <2>3, <2>4 DEF ProcessHolds
    <2>6. files \subseteq files' /\ files' \in SUBSET Bundles /\ runs' \in 0 .. MaxRuns
      BY <1>0, <2>1, <2>2
    <2>7. QED
      BY <2>1, <2>4, <2>5, <2>6, ProcessStep
  <1>7. CASE Compare(c)
    <2>0. me.at = "published" /\ UNCHANGED <<project, files, manifest, runs>>
      BY <1>7 DEF Compare, me
    <2>1. CASE Materializes(me.next, files, Authorized0)
      <3> DEFINE to == [me EXCEPT !.at = "compared"]
      <3>1. to \in Processes /\ to.at = "compared" /\ to.cohort = me.cohort /\ to.project = me.project
            /\ to.read = me.read /\ to.next = me.next
        BY <1>0 DEF Processes, Stages
      <3>2. Goes(c, to) \/ Goes(c, Idle)
        BY <1>7 DEF Compare, me
      <3> HIDE DEF to
      <3>3. ProcessHolds(to, files)
        BY <1>0, <1>a, <2>0, <2>1, <3>1 DEF ProcessHolds
      <3>4. QED
        BY <2>0, <3>1, <3>2, <3>3, StageStep
    <2>2. CASE ~Materializes(me.next, files, Authorized0)
      <3>1. Goes(c, Idle)
        BY <1>7, <2>2 DEF Compare, me
      <3>2. QED
        BY <2>0, <3>1, StageStep, IdleHolds
    <2>3. QED
      BY <2>1, <2>2
  <1>8. CASE Rename(c)
    <2>1. me.at = "compared" /\ manifest' = me.next /\ Goes(c, Idle) /\ UNCHANGED <<project, files, runs>>
      BY <1>8 DEF Rename, me
    <2>2. me.next \in SUBSET Entries /\ EntriesProved(me.next) /\ Materializes(me.next, files, Authorized0)
      BY <1>0, <2>1 DEF ProcessHolds, Processes
    <2>3. ProcessHolds(Idle, files') /\ Idle \in Processes
      BY IdleHolds
    <2>4. manifest' \in SUBSET Entries /\ EntriesProved(manifest')
          /\ Materializes(manifest', files', Authorized0)
      BY <2>1, <2>2
    <2>5. files \subseteq files' /\ files' \in SUBSET Bundles /\ runs' \in 0 .. MaxRuns
      BY <1>0, <2>1
    <2>6. QED
      BY <2>1, <2>3, <2>4, <2>5, ProcessStep
  <1>9. CASE Killed(c)
    BY <1>9, StageStep, IdleHolds DEF Killed, Stops
  <1>10. QED
    BY <1>1, <1>2, <1>3, <1>4, <1>5, <1>6, <1>7, <1>8, <1>9

\* An edit or a label beside the collection.
LEMMA ProjectStep ==
  ASSUME CollectInv, NEW p \in Projects, Edit(p) \/ Relabel(p)
  PROVE  CollectInv'
  <1>1. UNCHANGED <<files, manifest, process, runs>>
    BY DEF Edit, Relabel
  <1>2. /\ project \in [Projects -> [rev : Nat, figures : UNION {FiguresOf[q] : q \in Projects}]]
        /\ project[p] \in [rev : Nat, figures : UNION {FiguresOf[q] : q \in Projects}]
        /\ project[p].rev \in Nat
    BY DEF CollectInv, CollectTypeOK
  <1>3. \E figures \in FiguresOf[p] : \E rev \in {project[p].rev, project[p].rev + 1} :
          project' = [project EXCEPT ![p] = [rev |-> rev, figures |-> figures]]
    <2>1. CASE Edit(p)
      BY <2>1 DEF Edit
    <2>2. CASE Relabel(p)
      <3>1. PICK figures \in FiguresOf[p] : project' = [project EXCEPT ![p].figures = figures]
        BY <2>2 DEF Relabel
      <3>2. [project[p] EXCEPT !.figures = figures] = [rev |-> project[p].rev, figures |-> figures]
        BY <1>2
      <3>3. project' = [project EXCEPT ![p] = [project[p] EXCEPT !.figures = figures]]
        BY <3>1
      <3>4. project' = [project EXCEPT ![p] = [rev |-> project[p].rev, figures |-> figures]]
        BY <3>2, <3>3
      <3>5. QED
        BY <3>4
    <2>3. QED
      BY <2>1, <2>2
  <1>4. project' \in [Projects -> [rev : Nat, figures : UNION {FiguresOf[q] : q \in Projects}]]
    BY <1>2, <1>3
  <1>5. QED
    BY <1>1, <1>4 DEF CollectInv, CollectTypeOK

LEMMA CollectInvariant == CollectSpec => []CollectInv
  <1>1. CollectInit => CollectInv
    <2> SUFFICES ASSUME CollectInit PROVE CollectInv
      OBVIOUS
    <2>1. /\ files = {} /\ manifest = {} /\ process = [c \in Collectors |-> Idle] /\ runs = 0
          /\ project \in [Projects -> [rev : {0}, figures : UNION {FiguresOf[p] : p \in Projects}]]
      BY DEF CollectInit
    <2>2. CollectTypeOK
      BY <2>1, IdleHolds, CollectBounds DEF CollectTypeOK
    <2>3. Materializes(manifest, files, Authorized0) /\ EntriesProved(manifest)
      BY <2>1 DEF Materializes, ValidManifest, EntriesProved
    <2>4. QED
      BY <2>1, <2>2, <2>3, IdleHolds DEF CollectInv
  <1>2. CollectInv /\ [CollectNext]_collectVars => CollectInv'
    <2>1. ASSUME CollectInv, UNCHANGED collectVars PROVE CollectInv'
      BY <2>1 DEF collectVars, CollectInv, CollectTypeOK
    <2>2. ASSUME CollectInv, CollectNext PROVE CollectInv'
      BY <2>2, CollectSteps, ProjectStep DEF CollectNext
    <2>3. QED
      BY <2>1, <2>2
  <1>3. QED
    BY <1>1, <1>2, PTL DEF CollectSpec

\* However processes, edits and kills interleave, the manifest can be read and
\* every bundle it names was proved on the revision it speaks of, for any
\* number of collectors, projects, cohorts and runs (collect-cli.ts).
THEOREM RegistrationsAreProved == CollectSpec => []RegisteredAsProved
  <1>1. CollectInv => RegisteredAsProved
    BY DEF CollectInv, RegisteredAsProved, EntriesProved, Proved
  <1>2. QED
    BY <1>1, CollectInvariant, PTL

\* No metric of a gate that passed is short of its limit.
LEMMA PassedMetrics ==
  ASSUME NEW M, GateStatus(M) = "passed"
  PROVE  \A status \in {"failed", "insufficient_evidence"} :
           /\ status # Completion(Authorized(M)) /\ status # HighRisk(Authorized(M))
           /\ status # Precision(Authorized(M)) /\ status # Usability(Authorized(M))
           /\ \A k \in Checks : status # Correctness(Authorized(M), k)
  <1> DEFINE projects == Authorized(M)
             metrics == {IF Enough(projects) THEN "passed" ELSE "insufficient_evidence",
                  Coverage(projects), Completion(projects), HighRisk(projects), Precision(projects),
                  Usability(projects), TimeSaved(projects), Operators(projects)}
                   \cup {Correctness(projects, k) : k \in Checks}
  <1>1. "failed" \notin metrics /\ "insufficient_evidence" \notin metrics
    <2> HIDE DEF metrics
    <2>1. GateStatus(M) = IF "failed" \in metrics THEN "failed"
                          ELSE IF "insufficient_evidence" \in metrics THEN "insufficient_evidence"
                          ELSE "passed"
      BY DEF GateStatus, metrics, projects
    <2>2. QED
      BY <2>1
  <1>2. /\ {Completion(projects), HighRisk(projects), Precision(projects), Usability(projects)} \subseteq metrics
        /\ \A k \in Checks : Correctness(projects, k) \in metrics
    OBVIOUS
  <1> HIDE DEF metrics
  <1>3. QED
    BY <1>1, <1>2

\* An entry that counts as completed has taken everything from its bundle.
LEMMA CompletedEntry ==
  ASSUME NEW e \in Entries, Materialized(e).completed
  PROVE  /\ Materialized(e).hits # Absent /\ Materialized(e).usable # Absent
         /\ Materialized(e).highRisk \in Nat
         /\ \A k \in Checks : Materialized(e).passed[k] \in {0, 1}
         /\ \A k \in Checks : Materialized(e).evaluated[k] \in {0, 1}
  <1> DEFINE b == e.bundle
             counted == [k \in Checks |-> IF b.checks = Absent THEN 0 ELSE 1]
             good == [k \in Checks |-> IF b.checks # Absent /\ k \in b.checks THEN 1 ELSE 0]
             made == [e EXCEPT !.completed = b.figures.completed,
                    !.exported  = b.figures.exported,
                    !.predicted = b.figures.predicted,
                    !.hits      = b.figures.hits,
                    !.highRisk  = b.figures.highRisk,
                    !.cuts      = b.figures.cuts,
                    !.usable    = b.figures.usable,
                    !.evaluated = counted,
                    !.passed    = good,
                    !.timing    = b.figures.timing]
  <1>1. Materialized(e) = IF e.bundle = Absent THEN e ELSE made
    BY DEF Materialized
  <1>2. e.completed = FALSE
    BY DEF Entries
  <1>3. Materialized(e) = made
    BY <1>1, <1>2
  <1>4. b \in Bundles
    BY DEF Entries
  <1>5. /\ b.figures \in Figures
        /\ b.figures.completed => b.figures.hits # Absent /\ b.figures.usable # Absent
    BY <1>4, AuditAssumption DEF Bundles
  <1>6. b.figures.highRisk \in Nat
    BY <1>5 DEF Figures
  <1>7. \A k \in Checks : good[k] \in {0, 1} /\ counted[k] \in {0, 1}
    OBVIOUS
  <1> HIDE DEF counted, good, b
  <1>8. /\ made.completed = b.figures.completed /\ made.hits = b.figures.hits
        /\ made.usable = b.figures.usable /\ made.highRisk = b.figures.highRisk
        /\ made.passed = good /\ made.evaluated = counted
    BY DEF Entries
  <1> HIDE DEF made
  <1>9. QED
    BY <1>3, <1>5, <1>6, <1>7, <1>8

\* When the gate passes, every project that counts can be trusted by itself,
\* for any number of projects and whatever the limits of coverage, operators
\* and projects are (gate.ts, evaluateAlphaGate; manifest-evidence.ts).
THEOREM PassedIsTrusted == CollectSpec => []PassedMeansTrusted
  <1>1. CollectInv => PassedMeansTrusted
    <2> SUFFICES ASSUME CollectInv, GateStatus(Believed) = "passed", NEW m \in Authorized(Believed)
                 PROVE  /\ m.completed /\ m.exported /\ m.highRisk = 0
                        /\ m.hits # Absent /\ ~Below(m.hits, m.predicted, PrecisionFloor)
                        /\ m.usable # Absent /\ ~Below(m.usable, m.cuts, BoundaryFloor)
                        /\ \A k \in Checks : m.passed[k] = 1
      BY DEF PassedMeansTrusted
    <2> DEFINE projects == Authorized(Believed)
    <2>1. PICK e \in manifest : m = Materialized(e)
      BY DEF Authorized, Believed
    <2>2. e \in Entries
      BY DEF CollectInv, CollectTypeOK
    <2>3. \A status \in {"failed", "insufficient_evidence"} :
            /\ status # Completion(projects) /\ status # HighRisk(projects)
            /\ status # Precision(projects) /\ status # Usability(projects)
            /\ \A k \in Checks : status # Correctness(projects, k)
      BY PassedMetrics
    <2> HIDE DEF projects
    <2>4. m \in projects
      BY DEF projects
    <2>5. m.completed /\ m.exported
      <3>1. Complete(projects) = projects
        BY <2>3 DEF Completion
      <3>2. QED
        BY <2>4, <3>1 DEF Complete
    <2>6. /\ m.hits # Absent /\ m.usable # Absent /\ m.highRisk \in Nat
          /\ \A k \in Checks : m.passed[k] \in {0, 1} /\ m.evaluated[k] \in {0, 1}
      BY <2>1, <2>2, <2>5, CompletedEntry
    <2>7. m.highRisk = 0
      <3>1. ~(m.highRisk > 0)
        BY <2>3, <2>4 DEF HighRisk
      <3>2. QED
        BY <2>6, <3>1
    <2>8. ~Below(m.hits, m.predicted, PrecisionFloor)
      BY <2>3, <2>4, <2>6 DEF Precision, Floored
    <2>9. ~Below(m.usable, m.cuts, BoundaryFloor)
      BY <2>3, <2>4, <2>6 DEF Usability, Floored
    <2>10. ASSUME NEW k \in Checks PROVE m.passed[k] = 1
      <3>1. Correctness(projects, k) # "failed" /\ Correctness(projects, k) # "insufficient_evidence"
        BY <2>3
      <3>2. /\ ~\E f \in projects : f.evaluated[k] > 0 /\ f.passed[k] < f.evaluated[k]
            /\ \A f \in projects : f.evaluated[k] > 0
        <4> DEFINE short == \E f \in projects : f.evaluated[k] > 0 /\ f.passed[k] < f.evaluated[k]
                   all == Enough(projects) /\ \A f \in projects : f.evaluated[k] > 0
        <4>1. short => Correctness(projects, k) = "failed"
          BY DEF Correctness
        <4>2. ~short /\ ~all => Correctness(projects, k) = "insufficient_evidence"
          BY DEF Correctness
        <4>3. QED
          BY <3>1, <4>1, <4>2
      <3>3. m.evaluated[k] > 0 /\ ~(m.passed[k] < m.evaluated[k])
        BY <2>4, <3>2
      <3>4. QED
        BY <2>6, <3>3
    <2>11. QED
      BY <2>5, <2>6, <2>7, <2>8, <2>9, <2>10
  <1>2. QED
    BY <1>1, CollectInvariant, PTL
=============================================================================
