----------------------------- MODULE ReviewProofs -----------------------------
(***************************************************************************)
(* Theorems about a rough cut under review (ReviewSession), for every      *)
(* transcript, whatever is found in it, every agent and any number of      *)
(* requests up to MaxRevision.  What is known of the candidates, the locks *)
(* and the artifacts of the document and the inverses in the command log   *)
(* belong together after every request (ReviewInv); so a candidate that is *)
(* shown as kept is kept by a lock, which the engine honours               *)
(* (EditOperationsProofs) against everybody but the person who set it.     *)
(* A semantic review is recorded at most once for the revision it was made *)
(* of (SuggestInv), with suggestions that share no word, which is how      *)
(* CandidateDetection chooses them from any answer of a provider.          *)
(***************************************************************************)
EXTENDS ReviewSession, CandidateDetection, EditOperationsProofs

-----------------------------------------------------------------------------
(***************************************************************************)
(* Finite sets: a least element, a descending order, an enumeration.       *)
(***************************************************************************)
\* A finite set of which some subset is bad has a least bad subset.
LEMMA LeastSubset ==
  ASSUME NEW X, IsFiniteSet(X), NEW Bad \in SUBSET SUBSET X, Bad # {}
  PROVE  \E Y \in Bad : IsFiniteSet(Y) /\ \A y \in Y : Y \ {y} \notin Bad
  <1> DEFINE T == {Cardinality(Y) : Y \in Bad}
  <1>1. \A Y \in SUBSET X : IsFiniteSet(Y) /\ Cardinality(Y) \in Nat
    BY FS_Subset, FS_CardinalityType
  <1>2. T \in SUBSET Nat /\ T # {}
    BY <1>1
  <1>3. PICK n \in T : \A m \in T : n <= m
    BY <1>2, LeastNumber
  <1>4. PICK Y \in Bad : Cardinality(Y) = n
    BY <1>3
  <1>5. IsFiniteSet(Y) /\ n \in Nat
    BY <1>1, <1>4
  <1>6. ASSUME NEW y \in Y, Y \ {y} \in Bad PROVE FALSE
    <2>1. Cardinality(Y \ {y}) = n - 1
      BY <1>4, <1>5, FS_RemoveElement
    <2>2. n - 1 \in T
      BY <1>6, <2>1
    <2>3. QED
      BY <1>3, <1>5, <2>2
  <1>7. QED
    BY <1>5, <1>6

\* Of finitely many things that are weighed one weighs least.
LEMMA FiniteHasLeast ==
  ASSUME NEW X, IsFiniteSet(X), X # {}, NEW key, \A x \in X : key[x] \in Int
  PROVE  \E x \in X : \A y \in X : key[x] <= key[y]
  <1> DEFINE Bad == {Y \in SUBSET X : Y # {} /\ ~ \E x \in Y : \A y \in Y : key[x] <= key[y]}
  <1> SUFFICES ASSUME Bad # {} PROVE FALSE
    OBVIOUS
  <1>1. PICK Y \in Bad : \A y \in Y : Y \ {y} \notin Bad
    <2>1. Bad \in SUBSET SUBSET X
      OBVIOUS
    <2> HIDE DEF Bad
    <2>2. QED
      BY <2>1, LeastSubset
  <1>2. PICK z \in Y : TRUE
    OBVIOUS
  <1>3. CASE Y = {z}
    BY <1>3
  <1>4. CASE Y # {z}
    <2>1. Y \ {z} \in SUBSET X /\ Y \ {z} # {} /\ Y \ {z} \notin Bad
      BY <1>1, <1>2, <1>4
    <2>2. PICK x \in Y \ {z} : \A y \in Y \ {z} : key[x] <= key[y]
      BY <2>1
    <2>3. key[x] \in Int /\ key[z] \in Int /\ \A y \in Y : key[y] \in Int
      OBVIOUS
    <2>4. CASE key[x] <= key[z]
      BY <2>2, <2>4
    <2>5. CASE key[z] < key[x]
      <3>1. \A y \in Y : key[z] <= key[y]
        BY <2>2, <2>3, <2>5
      <3>2. QED
        BY <3>1
    <2>6. QED
      BY <2>3, <2>4, <2>5
  <1>5. QED
    BY <1>3, <1>4

\* Finitely many things of different weight can be put in descending order.
Down(s, key) == \A i, j \in DOMAIN s : i < j => key[s[i]] > key[s[j]]

\* The order: there is a sequence of all of them in which the weight goes down.
LEMMA FiniteDescends ==
  ASSUME NEW X, IsFiniteSet(X), NEW key, \A x \in X : key[x] \in Int,
         \A x, y \in X : key[x] = key[y] => x = y
  PROVE  \E s \in [1 .. Cardinality(X) -> X] : Down(s, key)
  <1> DEFINE Good(Y) == \E s \in [1 .. Cardinality(Y) -> Y] : Down(s, key)
             Bad == {Y \in SUBSET X : ~ Good(Y)}
  <1> SUFFICES ASSUME Bad # {} PROVE FALSE
    OBVIOUS
  <1>1. PICK Y \in Bad : IsFiniteSet(Y) /\ \A y \in Y : Y \ {y} \notin Bad
    <2>1. Bad \in SUBSET SUBSET X
      OBVIOUS
    <2> HIDE DEF Bad
    <2>2. QED
      BY <2>1, LeastSubset
  <1>2. Y # {}
    <2>1. SUFFICES ASSUME Y = {} PROVE FALSE
      OBVIOUS
    <2>2. Cardinality(Y) = 0
      BY <2>1, FS_EmptySet
    <2>3. [i \in 1 .. 0 |-> 0] \in [1 .. Cardinality(Y) -> Y] /\ Down([i \in 1 .. 0 |-> 0], key)
      BY <2>2 DEF Down
    <2>4. QED
      BY <1>1, <2>3
  <1>3. PICK z \in Y : \A y \in Y : key[z] <= key[y]
    BY <1>1, <1>2, FiniteHasLeast
  <1> DEFINE Z == Y \ {z}
             n == Cardinality(Y)
  <1>4. IsFiniteSet(Z) /\ Cardinality(Z) = n - 1 /\ n \in Nat /\ Z \in SUBSET X
    BY <1>1, FS_RemoveElement, FS_CardinalityType
  <1>5. PICK s \in [1 .. n - 1 -> Z] : Down(s, key)
    <2>1. Z \notin Bad
      BY <1>1
    <2>2. Good(Z)
      BY <1>4, <2>1
    <2>3. QED
      BY <1>4, <2>2
  <1>6. n # 0
    <2>1. Y # {} /\ IsFiniteSet(Y)
      BY <1>1, <1>2
    <2>2. QED
      BY <2>1, FS_EmptySet
  <1> HIDE DEF n, Z
  <1> DEFINE t == [i \in 1 .. n |-> IF i = n THEN z ELSE s[i]]
  <1>7. t \in [1 .. n -> Y]
    BY <1>4 DEF Z
  <1>8. Down(t, key)
    <2> SUFFICES ASSUME NEW i \in 1 .. n, NEW j \in 1 .. n, i < j PROVE key[t[i]] > key[t[j]]
      BY DEF Down
    <2>1. i \in 1 .. n - 1 /\ t[i] = s[i] /\ s[i] \in Z
      BY <1>4
    <2>2. CASE j = n
      <3>1. s[i] \in Y /\ s[i] # z /\ s[i] \in X /\ z \in X
        BY <2>1 DEF Z
      <3>2. key[s[i]] \in Int /\ key[z] \in Int /\ key[s[i]] # key[z] /\ key[z] <= key[s[i]]
        BY <1>3, <3>1
      <3>3. QED
        BY <1>4, <2>1, <2>2, <3>2
    <2>3. CASE j # n
      <3>1. j \in 1 .. n - 1 /\ t[j] = s[j]
        BY <1>4, <2>3
      <3>2. QED
        BY <1>5, <2>1, <3>1 DEF Down
    <2>4. QED
      BY <2>2, <2>3
  <1> HIDE DEF t
  <1>9. Good(Y)
    BY <1>7, <1>8 DEF n
  <1>10. QED
    BY <1>1, <1>9

\* A function has no more values than arguments.
LEMMA ImageFinite ==
  ASSUME NEW X, IsFiniteSet(X), NEW f, DOMAIN f = X, f = [x \in X |-> f[x]], NEW Y, Y = {f[x] : x \in X}
  PROVE  IsFiniteSet(Y)
  <1>1. f \in [X -> Y]
    OBVIOUS
  <1>2. f \in Surjection(X, Y)
    BY <1>1 DEF Surjection
  <1>3. QED
    BY <1>2, FS_Surjection

\* SetToSeq puts a finite set in some order.
LEMMA Enumerated ==
  ASSUME NEW X, IsFiniteSet(X), NEW s, s = SetToSeq(X)
  PROVE  IsSequence(s) /\ ToSet(s) \subseteq X
  <1> DEFINE n == Cardinality(X)
  <1>1. n \in Nat /\ ExistsBijection(1 .. n, X)
    BY FS_CardinalityType
  <1> HIDE DEF n
  <1>2. \E f \in [1 .. n -> X] : IsInjective(f)
    BY <1>1 DEF ExistsBijection, Bijection, Injection
  <1>3. s \in [1 .. n -> X]
    BY <1>2 DEF SetToSeq, n
  <1>4. s \in Seq(X)
    BY <1>1, <1>3
  <1>5. QED
    BY <1>4, SequenceOfElements

-----------------------------------------------------------------------------
(***************************************************************************)
(* What a semantic review comes to (CandidateDetection).                   *)
(***************************************************************************)
\* Findings as they are looked at: by how sure, how long and when they came.
IsPlaced(f) == f.confidence \in Int /\ f.from \in Int /\ f.to \in Int /\ f.place \in Int
SharesWords(a, b) == b.from <= a.to /\ a.from <= b.to

\* Of finitely many findings one comes before none of the others.
LEMMA OneIsLast ==
  ASSUME NEW X, IsFiniteSet(X), X # {}, \A f \in X : IsPlaced(f)
  PROVE  \E z \in X : \A y \in X : ~ Before(z, y)
  <1> DEFINE sure == [f \in X |-> f.confidence]
  <1>1. \A f \in X : sure[f] \in Int /\ sure[f] = f.confidence
    BY DEF IsPlaced
  <1> HIDE DEF sure
  <1>2. PICK a \in X : \A y \in X : sure[a] <= sure[y]
    BY <1>1, FiniteHasLeast
  <1> DEFINE Y == {f \in X : f.confidence = a.confidence}
             long == [f \in Y |-> f.to - f.from]
  <1>3. IsFiniteSet(Y) /\ Y # {} /\ \A f \in Y : f \in X
    <2>1. Y \in SUBSET X /\ a \in Y /\ IsFiniteSet(X)
      OBVIOUS
    <2>2. QED
      BY <2>1, FS_Subset
  <1>4. \A f \in Y : long[f] \in Int /\ long[f] = f.to - f.from
    BY DEF IsPlaced
  <1> HIDE DEF long
  <1>5. PICK b \in Y : \A y \in Y : long[b] <= long[y]
    <2> HIDE DEF Y
    <2>1. QED
      BY <1>3, <1>4, FiniteHasLeast
  <1> DEFINE Z == {f \in Y : f.to - f.from = b.to - b.from}
             late == [f \in Z |-> 0 - f.place]
  <1>6. IsFiniteSet(Z) /\ Z # {} /\ \A f \in Z : f \in Y
    <2>1. Z \in SUBSET Y /\ b \in Z
      OBVIOUS
    <2> HIDE DEF Y, Z
    <2>2. QED
      BY <1>3, <2>1, FS_Subset
  <1>7. \A f \in Z : late[f] \in Int /\ late[f] = 0 - f.place
    BY DEF IsPlaced
  <1> HIDE DEF late
  <1>8. PICK z \in Z : \A y \in Z : late[z] <= late[y]
    <2> HIDE DEF Z
    <2>1. QED
      BY <1>6, <1>7, FiniteHasLeast
  <1>9. ASSUME NEW y \in X, Before(z, y) PROVE FALSE
    <2>1. IsPlaced(y) /\ IsPlaced(z) /\ z \in X /\ z.confidence = a.confidence /\ z.to - z.from = b.to - b.from
      OBVIOUS
    <2>2. y.confidence >= z.confidence
      BY <1>1, <1>2, <2>1 DEF IsPlaced
    <2>3. y.confidence = z.confidence /\ y \in Y
      BY <1>9, <2>1, <2>2 DEF Before, IsPlaced
    <2>4. y.to - y.from >= z.to - z.from
      BY <1>4, <1>5, <2>1, <2>3 DEF IsPlaced
    <2>5. y.to - y.from = z.to - z.from /\ y \in Z
      BY <1>9, <2>1, <2>3, <2>4 DEF Before, IsPlaced
    <2>6. z.place >= y.place
      BY <1>7, <1>8, <2>1, <2>5 DEF IsPlaced
    <2>7. QED
      BY <1>9, <2>1, <2>3, <2>5, <2>6 DEF Before, IsPlaced
  <1>10. QED
    BY <1>9

\* It is decided of each, once the ones before it are, whether it is taken.
TakenOf(X, t) == t = [a \in X |-> \A b \in X : Before(b, a) /\ SharesWords(a, b) => ~ t[b]]

\* That can be decided, since the order ends somewhere.
LEMMA TakenExists ==
  ASSUME NEW X, IsFiniteSet(X), \A f \in X : IsPlaced(f)
  PROVE  \E t : TakenOf(X, t)
  <1> DEFINE Bad == {Y \in SUBSET X : ~ \E t : TakenOf(Y, t)}
  <1> SUFFICES ASSUME Bad # {} PROVE FALSE
    OBVIOUS
  <1>1. PICK Y \in Bad : IsFiniteSet(Y) /\ \A y \in Y : Y \ {y} \notin Bad
    <2>1. Bad \in SUBSET SUBSET X
      OBVIOUS
    <2> HIDE DEF Bad
    <2>2. QED
      BY <2>1, LeastSubset
  <1>2. Y # {}
    <2> DEFINE none == [a \in {} |-> TRUE]
    <2>1. TakenOf({}, none)
      BY DEF TakenOf
    <2>2. QED
      BY <1>1, <2>1
  <1>3. PICK z \in Y : \A y \in Y : ~ Before(z, y)
    BY <1>1, <1>2, OneIsLast
  <1> DEFINE Z == Y \ {z}
  <1>4. PICK t : TakenOf(Z, t)
    <2>1. Z \in SUBSET X /\ Z \notin Bad
      BY <1>1
    <2>2. QED
      BY <2>1
  <1> DEFINE Clear(a) == \A b \in Z : Before(b, a) /\ SharesWords(a, b) => ~ t[b]
             u == [a \in Y |-> Clear(a)]
  <1>5. \A b \in Z : t[b] = Clear(b)
    BY <1>4 DEF TakenOf
  <1>6. \A a \in Y : u[a] = \A b \in Y : Before(b, a) /\ SharesWords(a, b) => ~ u[b]
    <2> SUFFICES ASSUME NEW a \in Y PROVE u[a] = \A b \in Y : Before(b, a) /\ SharesWords(a, b) => ~ u[b]
      OBVIOUS
    <2>1. u[a] = Clear(a) /\ \A b \in Z : u[b] = t[b]
      BY <1>5
    <2>2. ~ Before(z, a)
      BY <1>3
    <2> HIDE DEF u
    <2>3. QED
      BY <2>1, <2>2
  <1>7. u = [a \in Y |-> u[a]]
    OBVIOUS
  <1> HIDE DEF u
  <1>8. u = [a \in Y |-> \A b \in Y : Before(b, a) /\ SharesWords(a, b) => ~ u[b]]
    BY <1>6, <1>7
  <1>9. TakenOf(Y, u)
    BY <1>8 DEF TakenOf
  <1>10. QED
    BY <1>1, <1>9

\* Of two findings that are taken none shares words with the other.
LEMMA ApartShareNothing ==
  ASSUME NEW X, IsFiniteSet(X), \A f \in X : IsPlaced(f), \A a, b \in X : a.place = b.place => a = b
  PROVE  \A a, b \in Apart(X) : a = b \/ ~ SharesWords(a, b)
  <1> DEFINE taken == CHOOSE t : TakenOf(X, t)
  <1>1. TakenOf(X, taken)
    BY TakenExists
  <1>2. Apart(X) = {a \in X : taken[a]}
    BY DEF Apart, TakenOf, SharesWords
  <1> HIDE DEF taken
  <1>3. ASSUME NEW a \in X, taken[a], NEW b \in X, taken[b], Before(b, a) PROVE ~ SharesWords(a, b)
    BY <1>1, <1>3 DEF TakenOf
  <1>4. \A a, b \in X : SharesWords(a, b) <=> SharesWords(b, a)
    BY DEF SharesWords
  <1>5. ASSUME NEW a \in X, NEW b \in X, a # b PROVE Before(a, b) \/ Before(b, a)
    BY <1>5 DEF Before, IsPlaced
  <1>6. QED
    BY <1>2, <1>3, <1>4, <1>5

\* The start of a finding is refined to one of its words.
LEMMA RefinedTyped ==
  ASSUME NEW f, f.from \in Int, f.to \in Int
  PROVE  Refined(f) \in Int
  <1> DEFINE starts == {w \in f.from .. f.to : /\ f.category \in {"repetition", "restatement"}
                                              /\ Len(KeptText(f)) >= 4
                                              /\ IsPrefix(SubSeq(KeptText(f), 1, 4), Said(w, f.to))}
             key == [w \in starts |-> w]
  <1>1. Refined(f) = IF starts = {} THEN f.from ELSE Min(starts)
    BY DEF Refined
  <1>2. IsFiniteSet(starts) /\ \A w \in starts : w \in Int
    <2>1. IsFiniteSet(f.from .. f.to)
      BY FS_Interval
    <2>2. starts \in SUBSET (f.from .. f.to)
      OBVIOUS
    <2>3. \A w \in starts : w \in Int
      OBVIOUS
    <2> HIDE DEF starts
    <2>4. IsFiniteSet(starts)
      BY ONLY <2>1, <2>2, FS_Subset
    <2>5. QED
      BY <2>3, <2>4
  <1>3. \A w \in starts : key[w] \in Int /\ key[w] = w
    BY <1>2
  <1> HIDE DEF starts, key
  <1>4. starts # {} => \E w \in starts : \A v \in starts : w <= v
    <2>1. starts # {} => \E w \in starts : \A v \in starts : key[w] <= key[v]
      BY <1>2, <1>3, FiniteHasLeast
    <2>2. QED
      BY <1>3, <2>1
  <1>5. starts # {} => Min(starts) \in starts
    BY <1>4 DEF Min
  <1>6. QED
    BY <1>1, <1>2, <1>5

\* No two suggestions of one review are about the same words, whatever the model
\* says of however many windows and however they overlap
\* (generateSemanticReviewCandidates).
THEOREM SuggestionsShareNothing ==
  ASSUME NEW answer, IsSequence(answer),
         \A k \in DOMAIN answer : answer[k].from \in Int /\ answer[k].to \in Int /\ answer[k].confidence \in Int,
         NEW size, NEW overlap
  PROVE  \A a, b \in Suggestions(answer, size, overlap) : a = b \/ a.words \cap b.words = {}
  <1> DEFINE Place(start, k) == start * Len(answer) + k
             seen == {x \in WindowStarts(size, overlap) \X (DOMAIN answer) : Resolved(x[1], size, answer[x[2]])}
             Given == {Place(x[1], x[2]) : x \in seen}
             Of(place) == answer[((place - 1) % Len(answer)) + 1]
             Finding(place) == [category |-> Of(place).category, first |-> Of(place).from,
                                from |-> Refined(Of(place)), to |-> Of(place).to, keep |-> Of(place).keep, confidence |-> Of(place).confidence, place |-> place]
             Looked == {place \in Given : Cardinality({x \in Given : x < place}) < MostFindings}
             findings == {f \in {Finding(place) : place \in Looked} : Borne(f)}
  <1>1. Suggestions(answer, size, overlap) = {Suggestion(f) : f \in Apart(findings)}
    BY DEF Suggestions
  <1>2. IsFiniteSet(Given) /\ \A place \in Given : place \in Int /\ Of(place) \in ToSet(answer)
    <2>1. IsFiniteSet(DOMAIN Words) /\ \A s \in DOMAIN Words : s \in Int
      <3>1. DOMAIN Words = 1 .. Len(Words) /\ 1 \in Int /\ Len(Words) \in Int
        BY RangesTyped
      <3>2. QED
        BY <3>1, FS_Interval
    <2>2. IsFiniteSet(DOMAIN answer) /\ DOMAIN answer = 1 .. Len(answer) /\ Len(answer) \in Nat
      <3>1. DOMAIN answer = 1 .. Len(answer) /\ Len(answer) \in Nat /\ 1 \in Int /\ Len(answer) \in Int
        BY SequenceFacts
      <3>2. IsFiniteSet(1 .. Len(answer))
        BY ONLY <3>1, FS_Interval
      <3>3. QED
        BY <3>1, <3>2
    <2>3. WindowStarts(size, overlap) \in SUBSET DOMAIN Words
      BY DEF WindowStarts
    <2>4. IsFiniteSet(WindowStarts(size, overlap))
      BY ONLY <2>1, <2>3, FS_Subset
    <2> DEFINE all == WindowStarts(size, overlap) \X (DOMAIN answer)
    <2>5. IsFiniteSet(all)
      BY ONLY <2>2, <2>4, FS_Product
    <2>6. seen \in SUBSET all
      OBVIOUS
    <2>7. IsFiniteSet(seen)
      BY ONLY <2>5, <2>6, FS_Subset
    <2> DEFINE f == [x \in seen |-> Place(x[1], x[2])]
    <2>8. Given = {f[x] : x \in seen}
      OBVIOUS
    <2>9. DOMAIN f = seen /\ f = [x \in seen |-> f[x]]
      OBVIOUS
    <2>10. IsFiniteSet(Given)
      <3> HIDE DEF Given, f, seen
      <3>1. QED
        BY ONLY <2>7, <2>8, <2>9, ImageFinite
    <2>11. \A place \in Given : place \in Int /\ DOMAIN answer # {}
      BY <2>1, <2>2, <2>3
    <2>12. ASSUME NEW place \in Int, DOMAIN answer # {} PROVE Of(place) \in ToSet(answer)
      <3>1. Len(answer) \in Nat /\ Len(answer) > 0
        BY <2>2, <2>12
      <3>2. (place - 1) % Len(answer) \in 0 .. Len(answer) - 1
        BY <3>1
      <3>3. ((place - 1) % Len(answer)) + 1 \in DOMAIN answer
        BY <2>2, <3>1, <3>2
      <3>4. QED
        BY <3>3 DEF ToSet
    <2>13. QED
      BY <2>10, <2>11, <2>12
  <1>3. IsFiniteSet(findings)
    <2> DEFINE f == [place \in Looked |-> Finding(place)]
               Y == {f[place] : place \in Looked}
    <2>1. Looked \in SUBSET Given
      OBVIOUS
    <2>2. IsFiniteSet(Looked)
      <3> HIDE DEF Looked, Given
      <3>1. QED
        BY <1>2, <2>1, FS_Subset
    <2>3. DOMAIN f = Looked /\ f = [place \in Looked |-> f[place]] /\ Y = {f[place] : place \in Looked}
      OBVIOUS
    <2>4. findings \in SUBSET Y
      OBVIOUS
    <2> HIDE DEF Looked, f, Y, findings
    <2>5. IsFiniteSet(Y)
      BY ONLY <2>2, <2>3, ImageFinite
    <2>6. QED
      BY <2>4, <2>5, FS_Subset
  <1>4. \A f \in findings : \E place \in Looked : f = Finding(place)
    OBVIOUS
  <1>5. ASSUME NEW f \in findings PROVE IsPlaced(f)
    <2>1. PICK place \in Looked : f = Finding(place)
      BY <1>4
    <2>2. place \in Int /\ Of(place) \in ToSet(answer)
      BY <1>2
    <2>3. PICK k \in DOMAIN answer : Of(place) = answer[k]
      BY <2>2 DEF ToSet
    <2> DEFINE o == Of(place)
    <2>4. o.from \in Int /\ o.to \in Int /\ o.confidence \in Int
      BY <2>3
    <2>5. f.from = Refined(o) /\ f.to = o.to /\ f.confidence = o.confidence /\ f.place = place
      BY <2>1
    <2> HIDE DEF o
    <2>6. QED
      BY <2>2, <2>4, <2>5, RefinedTyped DEF IsPlaced
  <1>6. \A a, b \in findings : a.place = b.place => a = b
    <2> SUFFICES ASSUME NEW a \in findings, NEW b \in findings, a.place = b.place PROVE a = b
      OBVIOUS
    <2>1. PICK x \in Looked : a = Finding(x)
      BY <1>4
    <2>2. PICK y \in Looked : b = Finding(y)
      BY <1>4
    <2>3. a.place = x /\ b.place = y
      BY <2>1, <2>2
    <2>4. QED
      BY <2>1, <2>2, <2>3
  <1> HIDE DEF findings
  <1>7. \A a, b \in Apart(findings) : a = b \/ ~ SharesWords(a, b)
    BY <1>3, <1>5, <1>6, ApartShareNothing
  <1>8. \A a \in Apart(findings) : IsPlaced(a)
    BY <1>5 DEF Apart
  <1>9. \A a, b \in Apart(findings) : Suggestion(a) = Suggestion(b) \/ Suggestion(a).words \cap Suggestion(b).words = {}
    <2> SUFFICES ASSUME NEW a \in Apart(findings), NEW b \in Apart(findings), a # b
                 PROVE  Suggestion(a).words \cap Suggestion(b).words = {}
      OBVIOUS
    <2>1. Suggestion(a).words = a.from .. a.to /\ Suggestion(b).words = b.from .. b.to
      BY DEF Suggestion, NewCandidate
    <2>2. ~ SharesWords(a, b) /\ IsPlaced(a) /\ IsPlaced(b)
      BY <1>7, <1>8
    <2>3. (a.from .. a.to) \cap (b.from .. b.to) = {}
      BY <2>2 DEF SharesWords, IsPlaced
    <2>4. QED
      BY <2>1, <2>3
  <1>10. QED
    BY <1>1, <1>9

-----------------------------------------------------------------------------
(***************************************************************************)
(* Where the locks and artifacts of a document come from.                  *)
(***************************************************************************)
\* All the locks and artifacts there are; what an operation adds to them; and
\* what an operation may add that takes another one back.
Stocked(d, L, A) == ToSet(d.locks) \subseteq L /\ ToSet(d.artifacts) \subseteq A
Supplies(op, L, A) ==
  /\ op.type = "lock.add" => op.lock \in L
  /\ op.type = "library.put" /\ op.list = "artifacts" => op.object \in A
TakesBack(op, L, A) == Supplies(op, L, A) /\ (op.type = "library.put" => "content" \notin DOMAIN op)
AllTakeBack(ops, L, A) == \A op \in ToSet(ops) : TakesBack(op, L, A)

\* An operation on clips, tracks and the removal of objects puts nothing.
PutsNothing(op) == op.type \notin {"lock.add", "library.put"}
\* What puts nothing may be what takes another operation back.
LEMMA PutsNothingTakesBack ==
  ASSUME NEW op, PutsNothing(op), NEW L, NEW A
  PROVE  TakesBack(op, L, A)
  BY DEF PutsNothing, TakesBack, Supplies

\* One operation that puts nothing, as the whole inverse.
LEMMA OneTakesBack ==
  ASSUME NEW op, NEW L, NEW A, TakesBack(op, L, A), NEW s, s = <<op>>
  PROVE  AllTakeBack(s, L, A)
  <1>1. ToSet(s) = {op}
    BY OneElement
  <1>2. QED
    BY <1>1 DEF AllTakeBack

\* The inverse of a ripple deletion on one track only touches clips.
LEMMA RippleInversePutsNothing ==
  ASSUME NEW id, NEW before, IsSequence(before), NEW after, IsSequence(after)
  PROVE  /\ IsSequence(RippleInverse(id, before, after))
         /\ \A u \in ToSet(RippleInverse(id, before, after)) : PutsNothing(u)
  <1> DEFINE outs == TakeOuts(before, after)
             back == Restores(id, before, after)
  <1>1. ASSUME NEW j \in DOMAIN after
        PROVE  IsSequence(TakeOut(before, after[j])) /\ \A u \in ToSet(TakeOut(before, after[j])) : PutsNothing(u)
    <2> DEFINE op == RemoveClipOp(after[j].id)
    <2>1. PutsNothing(op)
      BY DEF PutsNothing, RemoveClipOp
    <2> HIDE DEF op
    <2>2. IsSequence(<<op>>) /\ ToSet(<<op>>) = {op}
      BY OneElement
    <2>3. TakeOut(before, after[j]) = <<op>> \/ TakeOut(before, after[j]) = <<>>
      BY DEF TakeOut, op
    <2>4. QED
      BY <2>1, <2>2, <2>3, EmptySequence
  <1>2. ASSUME NEW i \in DOMAIN before
        PROVE  IsSequence(RestoreOne(id, before, after, i)) /\ \A u \in ToSet(RestoreOne(id, before, after, i)) : PutsNothing(u)
    <2> DEFINE in == InsertClipOp(id, before[i], i - 1)
               to == ReplaceClipOp(before[i].id, before[i])
    <2>1. PutsNothing(in) /\ PutsNothing(to)
      BY DEF PutsNothing, InsertClipOp, ReplaceClipOp
    <2>3. \/ RestoreOne(id, before, after, i) = <<in>> \/ RestoreOne(id, before, after, i) = <<to>>
          \/ RestoreOne(id, before, after, i) = <<>>
      BY DEF RestoreOne
    <2> HIDE DEF in, to
    <2>2. /\ IsSequence(<<in>>) /\ ToSet(<<in>>) = {in}
          /\ IsSequence(<<to>>) /\ ToSet(<<to>>) = {to}
      BY OneElement
    <2>4. QED
      BY <2>1, <2>2, <2>3, EmptySequence
  <1>3. /\ IsSequence(outs) /\ \A j \in DOMAIN outs : j \in DOMAIN after /\ outs[j] = TakeOut(before, after[j])
        /\ IsSequence(back) /\ \A i \in DOMAIN back : i \in DOMAIN before /\ back[i] = RestoreOne(id, before, after, i)
    <2>1. DOMAIN outs = DOMAIN after /\ DOMAIN back = DOMAIN before
      BY DEF TakeOuts, Restores
    <2>2. outs = [j \in DOMAIN after |-> outs[j]] /\ back = [i \in DOMAIN before |-> back[i]]
      BY DEF TakeOuts, Restores
    <2>3. IsSequence(outs) /\ IsSequence(back)
      <3> HIDE DEF outs, back
      <3>1. QED
        BY <2>1, <2>2, MappedSequence
    <2>4. QED
      BY <2>1, <2>3 DEF TakeOuts, Restores
  <1> HIDE DEF outs, back
  <1>4. /\ IsSequence(FlattenSeq(outs)) /\ \A u \in ToSet(FlattenSeq(outs)) : PutsNothing(u)
        /\ IsSequence(FlattenSeq(back)) /\ \A u \in ToSet(FlattenSeq(back)) : PutsNothing(u)
    <2>1. /\ \A j \in DOMAIN outs : IsSequence(outs[j]) /\ \A u \in ToSet(outs[j]) : PutsNothing(u)
          /\ \A i \in DOMAIN back : IsSequence(back[i]) /\ \A u \in ToSet(back[i]) : PutsNothing(u)
      BY <1>1, <1>2, <1>3
    <2>2. /\ IsSequence(FlattenSeq(outs)) /\ \A x : x \in ToSet(FlattenSeq(outs)) <=> \E i \in DOMAIN outs : x \in ToSet(outs[i])
          /\ IsSequence(FlattenSeq(back)) /\ \A x : x \in ToSet(FlattenSeq(back)) <=> \E i \in DOMAIN back : x \in ToSet(back[i])
      BY <1>3, <2>1, Flattened
    <2>3. QED
      BY <2>1, <2>2
  <1>5. RippleInverse(id, before, after) = FlattenSeq(outs) \o FlattenSeq(back)
    BY RippleInverseShape DEF outs, back
  <1> DEFINE a == FlattenSeq(outs)
             b == FlattenSeq(back)
             all == a \o b
  <1>6. IsSequence(all) /\ ToSet(all) = ToSet(a) \cup ToSet(b)
    <2>1. IsSequence(a) /\ IsSequence(b)
      BY <1>4
    <2> HIDE DEF a, b
    <2>2. all = a \o b
      OBVIOUS
    <2> HIDE DEF all
    <2>3. QED
      BY ONLY <2>1, <2>2, Concatenated
  <1>7. (\A u \in ToSet(a) : PutsNothing(u)) /\ (\A u \in ToSet(b) : PutsNothing(u)) /\ RippleInverse(id, before, after) = all
    BY <1>4, <1>5
  <1> HIDE DEF a, b, all
  <1>8. QED
    BY <1>6, <1>7

\* So does the whole inverse of a ripple deletion.
LEMMA RippledPutsNothing ==
  ASSUME NEW d, IsDocument(d), NEW op, op.range \in TimeRange, IsSequence(op.trackIds), Resolves(d, op),
         op.type = "range.deleteRipple", NEW r, r = RippleDelete(d, op), r.ok
  PROVE  /\ r.doc.locks = d.locks /\ r.doc.artifacts = d.artifacts
         /\ \A u \in ToSet(r.inverse) : PutsNothing(u)
  <1> DEFINE e == r.doc
             backs == RippledInverses(d, e, op)
  <1>1. e = RippledDoc(d, op) /\ r.inverse = FlattenSeq(backs)
    BY RippleShape
  <1> HIDE DEF e
  <1>2. /\ IsDocument(e) /\ e.locks = d.locks /\ e.artifacts = d.artifacts /\ DOMAIN e.tracks = DOMAIN d.tracks
        /\ \A t \in DOMAIN d.tracks : e.tracks[t].id = d.tracks[t].id
    BY <1>1, RippledDocument
  <1>3. ASSUME NEW id \in ToSet(op.trackIds)
        PROVE  IsSequence(Track(d, id).clips) /\ IsSequence(Track(e, id).clips)
    <2>1. id \in TrackIds(d)
      BY DEF Resolves, OnClip
    <2>2. id \in TrackIds(e)
      <3>1. \E t \in DOMAIN d.tracks : d.tracks[t].id = id
        BY <2>1 DEF TrackIds, ToSet
      <3>2. \E t \in DOMAIN e.tracks : e.tracks[t].id = id
        BY <1>2, <3>1
      <3>3. QED
        BY <3>2 DEF TrackIds, ToSet
    <2>3. /\ FindTrack(d, id) \in DOMAIN d.tracks /\ Track(d, id) = d.tracks[FindTrack(d, id)]
          /\ FindTrack(e, id) \in DOMAIN e.tracks /\ Track(e, id) = e.tracks[FindTrack(e, id)]
      BY <1>2, <2>1, <2>2, TrackFound
    <2>4. QED
      BY <1>2, <2>3, DocumentFacts
  <1>4. /\ DOMAIN backs = DOMAIN op.trackIds /\ backs = [i \in DOMAIN op.trackIds |-> backs[i]]
        /\ \A i \in DOMAIN op.trackIds :
             backs[i] = RippleInverse(op.trackIds[i], Track(d, op.trackIds[i]).clips, Track(e, op.trackIds[i]).clips)
    BY DEF RippledInverses
  <1> HIDE DEF backs
  <1>5. ASSUME NEW i \in DOMAIN backs PROVE IsSequence(backs[i]) /\ \A u \in ToSet(backs[i]) : PutsNothing(u)
    <2> DEFINE id == op.trackIds[i]
    <2>1. id \in ToSet(op.trackIds)
      BY <1>4 DEF ToSet
    <2>2. IsSequence(Track(d, id).clips) /\ IsSequence(Track(e, id).clips)
      BY <1>3, <2>1
    <2> DEFINE before == Track(d, id).clips
               after == Track(e, id).clips
               back == backs[i]
    <2>3. back = RippleInverse(id, before, after) /\ IsSequence(before) /\ IsSequence(after)
      BY <1>4, <2>2
    <2> HIDE DEF id, before, after
    <2>4. IsSequence(RippleInverse(id, before, after)) /\ \A u \in ToSet(RippleInverse(id, before, after)) : PutsNothing(u)
      BY <2>3, RippleInversePutsNothing
    <2>5. QED
      BY <2>3, <2>4
  <1>6. IsSequence(backs)
    BY <1>4, MappedSequence
  <1>7. \A u : u \in ToSet(FlattenSeq(backs)) <=> \E i \in DOMAIN backs : u \in ToSet(backs[i])
    BY <1>5, <1>6, Flattened
  <1>8. QED
    BY <1>1, <1>2, <1>5, <1>7 DEF e

\* A document with the clips of one track changed has the locks and artifacts it had.
LEMMA ClipsAside ==
  ASSUME NEW d, IsDocument(d), NEW t, NEW s
  PROVE  WithClips(d, t, s).locks = d.locks /\ WithClips(d, t, s).artifacts = d.artifacts
  BY DocumentFacts DEF WithClips

\* An operation that leaves locks and artifacts alone, and whose inverse does.
LEMMA Unsupplied ==
  ASSUME NEW d, NEW L, NEW A, Stocked(d, L, A), NEW r, r.doc.locks = d.locks, r.doc.artifacts = d.artifacts,
         \A u \in ToSet(r.inverse) : PutsNothing(u)
  PROVE  Stocked(r.doc, L, A) /\ AllTakeBack(r.inverse, L, A)
  BY PutsNothingTakesBack DEF Stocked, AllTakeBack

\* The operations on the library.
LEMMA LibrarySupplied ==
  ASSUME NEW d, IsDocument(d), NEW op, IsOperation(op), op.type \in OnLibrary,
         NEW r, r = ApplyOperation(d, op), r.ok, NEW L, NEW A, Stocked(d, L, A), Supplies(op, L, A)
  PROVE  Stocked(r.doc, L, A) /\ AllTakeBack(r.inverse, L, A)
  <1>0. /\ IsSequence(d.assets) /\ IsSequence(d.artifacts)
        /\ d = [tracks |-> d.tracks, locks |-> d.locks, assets |-> d.assets, artifacts |-> d.artifacts]
    BY DocumentFacts
  <1>1. CASE op.type = "library.put"
    <2>1. r = PutObject(d, op)
      BY <1>1 DEF ApplyOperation
    <2>2. /\ r.doc.locks = d.locks /\ CanInsert(op.index, d[op.list]) /\ op.list \in {"assets", "artifacts"}
          /\ r.doc = WithList(d, op.list, Splice(d[op.list], op.index, op.object))
          /\ r.inverse = <<RemoveObjectOp(op.list, op.object)>>
      <3>1. IsDocument(d) /\ IsOperation(op) /\ op.type = "library.put" /\ r = PutObject(d, op) /\ r.ok
        BY <1>1, <2>1
      <3>2. QED
        BY ONLY <3>1, PutObjectKeeps
    <2>3. AllTakeBack(r.inverse, L, A)
      <3> DEFINE back == RemoveObjectOp(op.list, op.object)
      <3>1. PutsNothing(back) /\ r.inverse = <<back>>
        BY <2>2 DEF PutsNothing, RemoveObjectOp
      <3> HIDE DEF back
      <3>2. QED
        BY <3>1, PutsNothingTakesBack, OneTakesBack
    <2>4. ToSet(r.doc.artifacts) \subseteq A
      <3>1. CASE op.list = "assets"
        <4>1. r.doc.artifacts = d.artifacts
          BY <1>0, <2>2, <3>1 DEF WithList
        <4>2. QED
          BY <4>1 DEF Stocked
      <3>2. CASE op.list = "artifacts"
        <4> DEFINE s == d.artifacts
                   k == op.index
                   new == op.object
        <4>1. r.doc.artifacts = Splice(s, k, new)
          BY <1>0, <2>2, <3>2 DEF WithList
        <4>2. IsSequence(s) /\ k \in 0 .. Len(s) /\ new \in A /\ ToSet(s) \subseteq A
          BY <1>0, <1>1, <2>2, <3>2 DEF CanInsert, Supplies, Stocked
        <4> HIDE DEF s, k, new
        <4>3. ToSet(Splice(s, k, new)) = ToSet(s) \cup {new}
          BY <4>2, Spliced
        <4>4. QED
          BY <4>1, <4>2, <4>3
      <3>3. QED
        BY <2>2, <3>1, <3>2
    <2>5. QED
      BY <2>2, <2>3, <2>4 DEF Stocked
  <1>2. CASE op.type = "library.remove"
    <2>1. r = RemoveObject(d, op)
      BY <1>2 DEF ApplyOperation
    <2>2. r.doc.locks = d.locks /\ op.list \in {"assets", "artifacts"}
      BY <1>2, <2>1, RemoveObjectKeeps
    <2>3. PICK i \in DOMAIN d[op.list] :
            /\ d[op.list][i] = op.object
            /\ r.doc = WithList(d, op.list, RemoveAt(d[op.list], i))
            /\ r.inverse = <<PutObjectOp(op.list, op.object, i - 1)>>
      BY <1>2, <2>1, RemoveObjectKeeps
    <2>4. op.list = "artifacts" => op.object \in A
      BY <1>0, <2>3 DEF Stocked, ToSet
    <2>5. AllTakeBack(r.inverse, L, A)
      <3> DEFINE back == PutObjectOp(op.list, op.object, i - 1)
      <3>1. TakesBack(back, L, A) /\ r.inverse = <<back>>
        BY <2>3, <2>4 DEF TakesBack, Supplies, PutObjectOp
      <3> HIDE DEF back
      <3>2. QED
        BY <3>1, OneTakesBack
    <2>6. ToSet(r.doc.artifacts) \subseteq A
      <3>1. CASE op.list = "assets"
        <4>1. r.doc.artifacts = d.artifacts
          BY <1>0, <2>3, <3>1 DEF WithList
        <4>2. QED
          BY <4>1 DEF Stocked
      <3>2. CASE op.list = "artifacts"
        <4> DEFINE s == d.artifacts
        <4>1. r.doc.artifacts = RemoveAt(s, i)
          BY <1>0, <2>3, <3>2 DEF WithList
        <4>2. IsSequence(s) /\ i \in DOMAIN s /\ ToSet(s) \subseteq A
          BY <1>0, <3>2 DEF Stocked
        <4> HIDE DEF s
        <4>3. ToSet(RemoveAt(s, i)) \subseteq ToSet(s)
          BY <4>2, Taken
        <4>4. QED
          BY <4>1, <4>2, <4>3
      <3>3. QED
        BY <2>2, <3>1, <3>2
    <2>7. QED
      BY <2>2, <2>5, <2>6 DEF Stocked
  <1>3. QED
    BY <1>1, <1>2 DEF OnLibrary

\* The operations on locks.
LEMMA LocksSupplied ==
  ASSUME NEW d, IsDocument(d), NEW op, IsOperation(op), op.type \in {"lock.add", "lock.remove"}, Resolves(d, op),
         NEW r, r = ApplyOperation(d, op), r.ok, NEW L, NEW A, Stocked(d, L, A), Supplies(op, L, A)
  PROVE  Stocked(r.doc, L, A) /\ AllTakeBack(r.inverse, L, A)
  <1>0. /\ IsSequence(d.locks)
        /\ d = [tracks |-> d.tracks, locks |-> d.locks, assets |-> d.assets, artifacts |-> d.artifacts]
    BY DocumentFacts
  <1>1. CASE op.type = "lock.add"
    <2>1. r = AddLock(d, op)
      BY <1>1 DEF ApplyOperation
    <2>2. /\ CanInsert(op.index, d.locks) /\ r.doc = WithLocks(d, Splice(d.locks, op.index, op.lock))
          /\ r.doc.locks = Splice(d.locks, op.index, op.lock)
          /\ r.inverse = <<RemoveLockOp(op.lock.id)>>
      <3>1. IsDocument(d) /\ IsOperation(op) /\ op.type = "lock.add" /\ r = AddLock(d, op) /\ r.ok
        BY <1>1, <2>1
      <3>2. QED
        BY ONLY <3>1, AddLockKeeps
    <2>3. r.doc.artifacts = d.artifacts
      BY <1>0, <2>2 DEF WithLocks
    <2>4. AllTakeBack(r.inverse, L, A)
      <3> DEFINE back == RemoveLockOp(op.lock.id)
      <3>1. PutsNothing(back) /\ r.inverse = <<back>>
        BY <2>2 DEF PutsNothing, RemoveLockOp
      <3> HIDE DEF back
      <3>2. QED
        BY <3>1, PutsNothingTakesBack, OneTakesBack
    <2>5. ToSet(r.doc.locks) \subseteq L
      <3> DEFINE s == d.locks
                 k == op.index
                 new == op.lock
      <3>1. IsSequence(s) /\ k \in 0 .. Len(s) /\ new \in L /\ ToSet(s) \subseteq L /\ r.doc.locks = Splice(s, k, new)
        BY <1>0, <1>1, <2>2 DEF CanInsert, Supplies, Stocked
      <3> HIDE DEF s, k, new
      <3>2. ToSet(Splice(s, k, new)) = ToSet(s) \cup {new}
        BY <3>1, Spliced
      <3>3. QED
        BY <3>1, <3>2
    <2>6. QED
      BY <2>3, <2>4, <2>5 DEF Stocked
  <1>2. CASE op.type = "lock.remove"
    <2>1. r = RemoveLock(d, op)
      BY <1>2 DEF ApplyOperation
    <2>2. PICK i \in DOMAIN d.locks :
            /\ r.doc.locks = RemoveAt(d.locks, i)
            /\ r.doc = WithLocks(d, RemoveAt(d.locks, i))
            /\ r.inverse = <<AddLockOp(d.locks[i], i - 1)>>
      BY <1>2, <2>1, RemoveLockKeeps
    <2>3. r.doc.artifacts = d.artifacts /\ d.locks[i] \in L
      BY <1>0, <2>2 DEF WithLocks, Stocked, ToSet
    <2>4. AllTakeBack(r.inverse, L, A)
      <3> DEFINE back == AddLockOp(d.locks[i], i - 1)
      <3>1. TakesBack(back, L, A) /\ r.inverse = <<back>>
        BY <2>2, <2>3 DEF TakesBack, Supplies, AddLockOp
      <3> HIDE DEF back
      <3>2. QED
        BY <3>1, OneTakesBack
    <2>5. ToSet(r.doc.locks) \subseteq L
      <3> DEFINE s == d.locks
      <3>1. IsSequence(s) /\ i \in DOMAIN s /\ ToSet(s) \subseteq L /\ r.doc.locks = RemoveAt(s, i)
        BY <1>0, <2>2 DEF Stocked
      <3> HIDE DEF s
      <3>2. ToSet(RemoveAt(s, i)) \subseteq ToSet(s)
        BY <3>1, Taken
      <3>3. QED
        BY <3>1, <3>2
    <2>6. QED
      BY <2>3, <2>4, <2>5 DEF Stocked
  <1>3. QED
    BY <1>1, <1>2

\* One inverse operation that is on clips or tracks.
LEMMA OneTakenBack ==
  ASSUME NEW op, PutsNothing(op), NEW s, s = <<op>>
  PROVE  \A u \in ToSet(s) : PutsNothing(u)
  <1>1. ToSet(s) = {op}
    BY OneElement
  <1>2. QED
    BY <1>1

\* The operations on whole tracks.
LEMMA TracksSupplied ==
  ASSUME NEW d, IsDocument(d), NEW op, IsOperation(op), op.type \in {"track.add", "track.remove"}, Resolves(d, op),
         NEW r, r = ApplyOperation(d, op), r.ok, NEW L, NEW A, Stocked(d, L, A)
  PROVE  Stocked(r.doc, L, A) /\ AllTakeBack(r.inverse, L, A)
  <1>0. d = [tracks |-> d.tracks, locks |-> d.locks, assets |-> d.assets, artifacts |-> d.artifacts]
    BY DocumentFacts
  <1>1. CASE op.type = "track.add"
    <2>1. r = AddTrack(d, op)
      BY <1>1 DEF ApplyOperation
    <2>2. /\ r.doc.locks = d.locks /\ r.doc = WithTracks(d, Splice(d.tracks, op.index, op.track))
          /\ r.inverse = <<RemoveTrackOp(op.track.id)>>
      BY <1>1, <2>1, AddTrackKeeps
    <2>3. r.doc.artifacts = d.artifacts
      BY <1>0, <2>2 DEF WithTracks
    <2>4. \A u \in ToSet(r.inverse) : PutsNothing(u)
      <3> DEFINE back == RemoveTrackOp(op.track.id)
      <3>1. PutsNothing(back) /\ r.inverse = <<back>>
        BY <2>2 DEF PutsNothing, RemoveTrackOp
      <3> HIDE DEF back
      <3>2. QED
        BY <3>1, OneTakenBack
    <2>5. QED
      BY <2>2, <2>3, <2>4, Unsupplied
  <1>2. CASE op.type = "track.remove"
    <2>1. r = RemoveTrack(d, op)
      BY <1>2 DEF ApplyOperation
    <2>2. r.doc.locks = d.locks
      BY <1>2, <2>1, RemoveTrackKeeps
    <2>3. PICK t \in DOMAIN d.tracks :
            /\ r.doc = WithTracks(d, RemoveAt(d.tracks, t))
            /\ r.inverse = <<AddTrackOp(d.tracks[t], t - 1)>>
      BY <1>2, <2>1, RemoveTrackKeeps
    <2>4. r.doc.artifacts = d.artifacts
      BY <1>0, <2>3 DEF WithTracks
    <2>5. \A u \in ToSet(r.inverse) : PutsNothing(u)
      <3> DEFINE back == AddTrackOp(d.tracks[t], t - 1)
      <3>1. PutsNothing(back) /\ r.inverse = <<back>>
        BY <2>3 DEF PutsNothing, AddTrackOp
      <3> HIDE DEF back
      <3>2. QED
        BY <3>1, OneTakenBack
    <2>6. QED
      BY <2>2, <2>4, <2>5, Unsupplied
  <1>3. QED
    BY <1>1, <1>2

\* The operations that insert, remove, split, replace or ripple clips.
LEMMA ClipsSupplied ==
  ASSUME NEW d, IsDocument(d), NEW op, IsOperation(op),
         op.type \in {"clip.insert", "clip.remove", "clip.split", "range.deleteRipple"},
         Resolves(d, op), NEW r, r = ApplyOperation(d, op), r.ok, NEW L, NEW A, Stocked(d, L, A)
  PROVE  Stocked(r.doc, L, A) /\ AllTakeBack(r.inverse, L, A)
  <1> DEFINE at == FindClip(d, op.clipId)
             clip == ClipAt(d, at)
  <1>1. CASE op.type = "clip.insert"
    <2>1. r = InsertClip(d, op)
      BY <1>1 DEF ApplyOperation
    <2>2. PICK t \in DOMAIN d.tracks :
            /\ r.doc = WithClips(d, t, Splice(d.tracks[t].clips, op.index, op.clip))
            /\ r.inverse = <<RemoveClipOp(op.clip.id)>>
      BY <1>1, <2>1, InsertClipKeeps
    <2>3. r.doc.locks = d.locks /\ r.doc.artifacts = d.artifacts
      BY <2>2, ClipsAside
    <2>4. \A u \in ToSet(r.inverse) : PutsNothing(u)
      <3> DEFINE back == RemoveClipOp(op.clip.id)
      <3>1. PutsNothing(back) /\ r.inverse = <<back>>
        BY <2>2 DEF PutsNothing, RemoveClipOp
      <3> HIDE DEF back
      <3>2. QED
        BY <3>1, OneTakenBack
    <2>5. QED
      BY <2>3, <2>4, Unsupplied
  <1>2. CASE op.type = "clip.remove"
    <2>1. r = RemoveClip(d, op) /\ at = FindClip(d, op.clipId) /\ clip = ClipAt(d, at)
      BY <1>2 DEF ApplyOperation
    <2> HIDE DEF at, clip
    <2>2. /\ r.doc = WithClips(d, at.track, RemoveAt(d.tracks[at.track].clips, at.index))
          /\ r.inverse = <<InsertClipOp(d.tracks[at.track].id, clip, at.index - 1)>>
      BY <1>2, <2>1, RemoveClipKeeps
    <2>3. r.doc.locks = d.locks /\ r.doc.artifacts = d.artifacts
      BY <2>2, ClipsAside
    <2>4. \A u \in ToSet(r.inverse) : PutsNothing(u)
      <3> DEFINE back == InsertClipOp(d.tracks[at.track].id, clip, at.index - 1)
      <3>1. PutsNothing(back) /\ r.inverse = <<back>>
        BY <2>2 DEF PutsNothing, InsertClipOp
      <3> HIDE DEF back
      <3>2. QED
        BY <3>1, OneTakenBack
    <2>5. QED
      BY <2>3, <2>4, Unsupplied
  <1>3. CASE op.type = "clip.split"
    <2>1. r = SplitClip(d, op) /\ op.type \in OnClip /\ at = FindClip(d, op.clipId) /\ clip = ClipAt(d, at)
      BY <1>3 DEF ApplyOperation, OnClip
    <2> HIDE DEF at, clip
    <2>2. IsClip(clip)
      BY <2>1, AffectedByClip
    <2> DEFINE cut == op.at - clip.range.start
               out == RemoveClipOp(op.rightClipId)
               back == ReplaceClipOp(clip.id, clip)
               s == Splice(PutAt(d.tracks[at.track].clips, at.index, LeftPart(clip, cut)), at.index,
                           RightPart(clip, cut, op.rightClipId))
    <2>3. r.doc = WithClips(d, at.track, s) /\ r.inverse = <<out, back>>
      <3>1. cut = op.at - clip.range.start
        OBVIOUS
      <3> HIDE DEF cut
      <3>2. QED
        BY <2>1, <2>2, <3>1, SplitShape
    <2>4. PutsNothing(out) /\ PutsNothing(back)
      BY DEF PutsNothing, RemoveClipOp, ReplaceClipOp
    <2> HIDE DEF s, out, back
    <2>5. r.doc.locks = d.locks /\ r.doc.artifacts = d.artifacts
      BY <2>3, ClipsAside
    <2>6. \A u \in ToSet(r.inverse) : PutsNothing(u)
      <3>1. ToSet(r.inverse) = {out, back}
        BY <2>3, TwoElements
      <3>2. QED
        BY <2>4, <3>1
    <2>7. QED
      BY <2>5, <2>6, Unsupplied
  <1>4. CASE op.type = "range.deleteRipple"
    <2>1. r = RippleDelete(d, op) /\ op.range \in TimeRange /\ IsSequence(op.trackIds)
      BY <1>4 DEF ApplyOperation, IsOperation
    <2>2. r.doc.locks = d.locks /\ r.doc.artifacts = d.artifacts /\ \A u \in ToSet(r.inverse) : PutsNothing(u)
      BY <1>4, <2>1, RippledPutsNothing
    <2>3. QED
      BY <2>2, Unsupplied
  <1>5. QED
    BY <1>1, <1>2, <1>3, <1>4

\* The operations that move, trim, replace or patch one clip.
LEMMA ChangesSupplied ==
  ASSUME NEW d, IsDocument(d), NEW op, IsOperation(op),
         op.type \in {"clip.move", "clip.trim", "clip.replace", "clip.update"},
         Resolves(d, op), NEW r, r = ApplyOperation(d, op), r.ok, NEW L, NEW A, Stocked(d, L, A)
  PROVE  Stocked(r.doc, L, A) /\ AllTakeBack(r.inverse, L, A)
  <1> DEFINE at == FindClip(d, op.clipId)
             clip == ClipAt(d, at)
  <1>0. op.type \in OnClip /\ at = FindClip(d, op.clipId) /\ clip = ClipAt(d, at)
    BY DEF OnClip
  <1> HIDE DEF at, clip
  <1>9. clip = Clip(d, op.clipId) /\ IsClip(clip)
    BY <1>0, AffectedByClip
  <1>1. CASE op.type = "clip.move"
    <2> DEFINE new == MovedTo(clip, op.start)
               lifted == WithClips(d, at.track, RemoveAt(d.tracks[at.track].clips, at.index))
               to == FindTrack(d, op.toTrackId)
               back == MoveClipOp(clip.id, d.tracks[at.track].id, at.index - 1, clip.range.start)
               s == Splice(lifted.tracks[to].clips, op.toIndex, new)
    <2>1. r = MoveClip(d, op) /\ new = MovedTo(clip, op.start)
          /\ lifted = WithClips(d, at.track, RemoveAt(d.tracks[at.track].clips, at.index)) /\ to = FindTrack(d, op.toTrackId)
      BY <1>1 DEF ApplyOperation
    <2>2. lifted.locks = d.locks /\ lifted.artifacts = d.artifacts
      BY ClipsAside
    <2>3. PutsNothing(back)
      BY DEF PutsNothing, MoveClipOp
    <2> HIDE DEF new, lifted, to
    <2>4. IsDocument(lifted) /\ r.doc = WithClips(lifted, to, s) /\ r.inverse = <<back>>
      <3>1. IsDocument(d) /\ IsOperation(op) /\ op.type = "clip.move" /\ Resolves(d, op) /\ r.ok
        BY <1>1
      <3>2. QED
        BY ONLY <1>0, <2>1, <3>1, MoveClipKeeps
    <2> HIDE DEF s, back
    <2>5. r.doc.locks = d.locks /\ r.doc.artifacts = d.artifacts
      BY <2>2, <2>4, ClipsAside
    <2>6. \A u \in ToSet(r.inverse) : PutsNothing(u)
      BY <2>3, <2>4, OneTakenBack
    <2>7. QED
      BY <2>5, <2>6, Unsupplied
  <1>2. CASE op.type = "clip.trim"
    <2>1. r = TrimClip(d, op)
      BY <1>2 DEF ApplyOperation
    <2> DEFINE back == TrimClipOp(op.clipId, clip.range, clip.src)
    <2>2. r.inverse = <<back>> /\ \E s : r.doc = WithClips(d, at.track, s)
      BY <1>0, <1>2, <2>1, TrimClipKeeps
    <2>3. PutsNothing(back)
      BY DEF PutsNothing, TrimClipOp
    <2> HIDE DEF back
    <2>4. r.doc.locks = d.locks /\ r.doc.artifacts = d.artifacts
      BY <2>2, ClipsAside
    <2>5. \A u \in ToSet(r.inverse) : PutsNothing(u)
      BY <2>2, <2>3, OneTakenBack
    <2>6. QED
      BY <2>4, <2>5, Unsupplied
  <1>3. CASE op.type = "clip.replace"
    <2> DEFINE back == ReplaceClipOp(op.clipId, clip)
               s == PutAt(d.tracks[at.track].clips, at.index, op.clip)
    <2>1. r = ReplaceClip(d, op)
      BY <1>3 DEF ApplyOperation
    <2>2. r.doc = WithClips(d, at.track, s) /\ r.inverse = <<back>>
      BY <1>0, <1>3, <2>1, ReplaceClipKeeps
    <2>3. PutsNothing(back)
      BY DEF PutsNothing, ReplaceClipOp
    <2> HIDE DEF s, back
    <2>4. r.doc.locks = d.locks /\ r.doc.artifacts = d.artifacts
      BY <2>2, ClipsAside
    <2>5. \A u \in ToSet(r.inverse) : PutsNothing(u)
      BY <2>2, <2>3, OneTakenBack
    <2>6. QED
      BY <2>4, <2>5, Unsupplied
  <1>4. CASE op.type = "clip.update"
    <2> DEFINE new == Patched(clip, op.patch)
               back == ReplaceClipOp(new.id, clip)
               s == PutAt(d.tracks[at.track].clips, at.index, new)
    <2>1. r = UpdateClip(d, op) /\ new = Patched(clip, op.patch)
      BY <1>4 DEF ApplyOperation
    <2>3. PutsNothing(back)
      BY DEF PutsNothing, ReplaceClipOp
    <2> HIDE DEF new
    <2>2. r.doc = WithClips(d, at.track, s) /\ r.inverse = <<back>>
      BY <1>0, <1>4, <2>1, UpdateClipKeeps
    <2> HIDE DEF s, back
    <2>4. r.doc.locks = d.locks /\ r.doc.artifacts = d.artifacts
      BY <2>2, ClipsAside
    <2>5. \A u \in ToSet(r.inverse) : PutsNothing(u)
      BY <2>2, <2>3, OneTakenBack
    <2>6. QED
      BY <2>4, <2>5, Unsupplied
  <1>5. QED
    BY <1>1, <1>2, <1>3, <1>4

\* Every operation leaves only locks and artifacts that were there or that it
\* brings, and records to take itself back only what was there.
LEMMA OperationSupplied ==
  ASSUME NEW d, IsDocument(d), NEW op, IsOperation(op), Resolves(d, op),
         NEW r, r = ApplyOperation(d, op), r.ok, NEW L, NEW A, Stocked(d, L, A), Supplies(op, L, A)
  PROVE  Stocked(r.doc, L, A) /\ AllTakeBack(r.inverse, L, A)
  <1>1. op.type \in OperationTypes
    BY DEF IsOperation
  <1>2. CASE op.type \in {"library.put", "library.remove"}
    BY <1>2, LibrarySupplied DEF OnLibrary
  <1>3. CASE op.type \in {"lock.add", "lock.remove"}
    BY <1>3, LocksSupplied
  <1>4. CASE op.type \in {"track.add", "track.remove"}
    BY <1>4, TracksSupplied
  <1>5. CASE op.type \in {"clip.insert", "clip.remove", "clip.split", "range.deleteRipple"}
    BY <1>5, ClipsSupplied
  <1>6. CASE op.type \in {"clip.move", "clip.trim", "clip.replace", "clip.update"}
    BY <1>6, ChangesSupplied
  <1>7. QED
    BY <1>1, <1>2, <1>3, <1>4, <1>5, <1>6 DEF OperationTypes

\* What a run has reached.
RunSupplied(L, A, result) == Stocked(result.doc, L, A) /\ AllTakeBack(result.inverse, L, A)

\* One more operation.
LEMMA SupplyContinues ==
  ASSUME NEW b, NEW actor, NEW E, NEW L, NEW A,
         NEW result, result.ok => RunHolds(b, actor, E, result) /\ RunSupplied(L, A, result),
         NEW op \in E, IsOperation(op), Supplies(op, L, A), NEW new, new = ApplyNext(result, actor, op), new.ok
  PROVE  RunHolds(b, actor, E, new) /\ RunSupplied(L, A, new)
  <1> DEFINE d == result.doc
             one == ApplyOperation(d, op)
             inverse == one.inverse \o result.inverse
  <1>0. ~ Refused.ok
    BY DEF Refused
  <1>1. result.ok /\ Resolves(d, op) /\ OperationUnlocked(d, actor, op) /\ one.ok
    BY <1>0 DEF ApplyNext
  <1>2. new = Done(one.doc, inverse)
    BY <1>1 DEF ApplyNext
  <1>3. RunHolds(b, actor, E, result) /\ RunSupplied(L, A, result)
    BY <1>1
  <1>4. RunHolds(b, actor, E, new)
    BY <1>3, RunContinues
  <1>5. StepHolds(d, actor, op, one)
    <2>1. IsDocument(d) /\ TracksUnique(d) /\ one = ApplyOperation(d, op)
      BY <1>3 DEF RunHolds
    <2> HIDE DEF one, d
    <2>2. QED
      BY <1>1, <2>1, OperationStep
  <1>6. Stocked(one.doc, L, A) /\ AllTakeBack(one.inverse, L, A)
    <2>1. IsDocument(d) /\ one = ApplyOperation(d, op) /\ Stocked(d, L, A)
      BY <1>3 DEF RunHolds, RunSupplied
    <2> HIDE DEF one, d
    <2>2. QED
      BY <1>1, <2>1, OperationSupplied
  <1> DEFINE a == one.inverse
             c == result.inverse
  <1>7. IsSequence(a) /\ IsSequence(c) /\ inverse = a \o c
    BY <1>3, <1>5 DEF StepHolds, RunHolds, TypedInverse
  <1>8. AllTakeBack(a, L, A) /\ AllTakeBack(c, L, A)
    BY <1>3, <1>6 DEF RunSupplied
  <1>9. new.doc = one.doc /\ new.inverse = inverse
    <2> HIDE DEF inverse
    <2>1. QED
      BY <1>2 DEF Done
  <1> HIDE DEF a, c, inverse
  <1>10. ToSet(inverse) = ToSet(a) \cup ToSet(c)
    BY <1>7, Concatenated
  <1>11. AllTakeBack(inverse, L, A)
    BY <1>8, <1>10 DEF AllTakeBack
  <1>12. QED
    BY <1>4, <1>6, <1>9, <1>11 DEF RunSupplied

\* All the operations of a transaction together: they keep what locks protect
\* from its actor, and bring nothing that is not theirs or was not there.
LEMMA TransactionHolds ==
  ASSUME NEW b, IsDocument(b), TracksUnique(b), NEW actor, NEW ops, TypedInverse(ops),
         NEW L, NEW A, Stocked(b, L, A), \A op \in ToSet(ops) : Supplies(op, L, A),
         NEW result, result = ApplyAll(b, actor, ops), result.ok
  PROVE  RunHolds(b, actor, ToSet(ops), result) /\ RunSupplied(L, A, result)
  <1> DEFINE E == ToSet(ops)
             Good(s) == ApplyAll(b, actor, s).ok => RunHolds(b, actor, E, ApplyAll(b, actor, s)) /\ RunSupplied(L, A, ApplyAll(b, actor, s))
             Bad == {s \in Seq(E) : ~ Good(s)}
  <1>1. ops \in Seq(E) /\ \A op \in E : IsOperation(op) /\ Supplies(op, L, A)
    BY DEF TypedInverse, IsSequence
  <1> HIDE DEF E
  <1>2. ASSUME NEW s \in Seq(E), NEW e \in E
        PROVE  /\ ApplyAll(b, actor, <<>>) = Done(b, <<>>)
               /\ ApplyAll(b, actor, Append(s, e)) = ApplyNext(ApplyAll(b, actor, s), actor, e)
    BY ApplyAppend
  <1>3. <<>> \notin Bad
    <2>1. ApplyAll(b, actor, <<>>) = Done(b, <<>>)
      <3>1. <<>> \in Seq({0}) /\ 0 \in {0}
        OBVIOUS
      <3>2. QED
        BY <3>1, ApplyAppend
    <2>2. RunHolds(b, actor, E, Done(b, <<>>))
      BY RunBegins
    <2>3. RunSupplied(L, A, Done(b, <<>>))
      BY EmptySequence DEF RunSupplied, AllTakeBack, Done
    <2>4. QED
      BY <2>1, <2>2, <2>3
  <1>4. \A s \in Seq(E), e \in E : s \notin Bad => Append(s, e) \notin Bad
    <2> SUFFICES ASSUME NEW s \in Seq(E), NEW e \in E, s \notin Bad, ApplyAll(b, actor, Append(s, e)).ok
                 PROVE  /\ RunHolds(b, actor, E, ApplyAll(b, actor, Append(s, e)))
                        /\ RunSupplied(L, A, ApplyAll(b, actor, Append(s, e)))
      OBVIOUS
    <2> DEFINE before == ApplyAll(b, actor, s)
               new == ApplyAll(b, actor, Append(s, e))
    <2>1. /\ new = ApplyNext(before, actor, e) /\ new.ok /\ IsOperation(e) /\ Supplies(e, L, A)
          /\ before.ok => RunHolds(b, actor, E, before) /\ RunSupplied(L, A, before)
      BY <1>1, <1>2
    <2> HIDE DEF before, new
    <2>2. RunHolds(b, actor, E, new) /\ RunSupplied(L, A, new)
      BY <2>1, SupplyContinues
    <2>3. QED
      BY <2>2 DEF new
  <1>5. Bad \in SUBSET Seq(E)
    OBVIOUS
  <1>6. Bad = {}
    <2> HIDE DEF Bad
    <2>1. QED
      BY <1>3, <1>4, <1>5, SequenceInduction
  <1>7. QED
    BY <1>1, <1>6 DEF E

-----------------------------------------------------------------------------
(***************************************************************************)
(* What a document and the log that led to it keep between requests.       *)
(***************************************************************************)
\* The candidates of all the sets that were ever put.
SetIds(kn) == {id \in DOMAIN kn : kn[id].kind = "set"}
AllCandidates(kn) == UNION {kn[id].candidates : id \in SetIds(kn)}

\* A lock that keeps the range of a candidate that was put.
Keeper(lock, kn) ==
  /\ lock.mode = "deny_agent" /\ lock.owner = User.id
  /\ lock.scope.kind = "source_range" /\ lock.scope.assetId = Media
  /\ \E c \in AllCandidates(kn) : c.id = lock.note.candidate /\ c.range = lock.scope.range

\* What is known of the candidates: those that have one id have one range.
Manual(n) == ManualId(RequestName(n))
Found(c, n) == c \in UNION Findings \/ \E m \in 1 .. n : c.id = Manual(m)
KnownHolds(kn, n) ==
  /\ \A id \in DOMAIN kn : \E m \in 1 .. n : id \in ArtifactIds(m)
  /\ \A id \in SetIds(kn) : IsFiniteSet(kn[id].candidates)
  /\ \A c \in AllCandidates(kn) : c.range \in TimeRange /\ Found(c, n)
  /\ \A c, e \in AllCandidates(kn) : c.id = e.id => c.range = e.range

\* Every artifact of the document is known, every lock keeps a range.
DocumentHolds(d, kn) ==
  /\ \A id \in ToSet(d.artifacts) : id \in DOMAIN kn
  /\ \A lock \in ToSet(d.locks) : Keeper(lock, kn)

\* The operations that take a record back add only locks that keep a range and
\* put only artifacts that are known.
LoggedHolds(op, kn) ==
  /\ op.type = "lock.add" => Keeper(op.lock, kn)
  /\ op.type = "library.put" => "content" \notin DOMAIN op
  /\ op.type = "library.put" /\ op.list = "artifacts" => op.object \in DOMAIN kn
RecordsHold(log, kn) ==
  /\ IsSequence(log) /\ Len(log) <= MaxRevision
  /\ \A i \in DOMAIN log : /\ TypedInverse(log[i].inverse)
                           /\ \A op \in ToSet(log[i].inverse) : LoggedHolds(op, kn)

ProjectHolds(p, n) ==
  IsDocument(p.doc) /\ TracksUnique(p.doc) /\ DocumentHolds(p.doc, p.known) /\ KnownHolds(p.known, n)

ReviewInv ==
  /\ ProjectHolds(Project, Len(records))
  /\ RecordsHold(records, known)
  /\ review = <<>> \/ review = Review(Project, records)

\* What the operations of the n-th request may add: R is the range of the
\* candidate that is made of a selection, if there is one.
FitContent(content, kn, n, R) ==
  content.kind = "set" =>
    /\ IsFiniteSet(content.candidates)
    /\ \A c \in content.candidates :
         /\ c.range \in TimeRange
         /\ c \in AllCandidates(kn) \/ c \in UNION Findings \/ (c.id = Manual(n) /\ c.range = R)
FitOperation(op, kn, n, R) ==
  /\ IsOperation(op)
  /\ op.type = "lock.add" => Keeper(op.lock, kn)
  /\ op.type = "library.put" /\ op.list = "artifacts" /\ "content" \notin DOMAIN op => op.object \in DOMAIN kn
  /\ op.type = "library.put" /\ "content" \in DOMAIN op => op.object \in ArtifactIds(n) /\ FitContent(op.content, kn, n, R)
Fit(ops, kn, n, R) == IsSequence(ops) /\ \A op \in ToSet(ops) : FitOperation(op, kn, n, R)

\* Nothing done fits, and what fits one after the other fits.
LEMMA FitJoined ==
  ASSUME NEW a, NEW b, NEW kn, NEW n, NEW R, Fit(a, kn, n, R), Fit(b, kn, n, R), NEW c, c = a \o b
  PROVE  Fit(c, kn, n, R)
  <1>1. IsSequence(a) /\ IsSequence(b)
    BY DEF Fit
  <1>2. IsSequence(c) /\ ToSet(c) = ToSet(a) \cup ToSet(b)
    BY <1>1, Concatenated
  <1>3. QED
    BY <1>2 DEF Fit

\* Operations that fit, each at its place.
LEMMA FitMapped ==
  ASSUME NEW s, IsSequence(s), NEW f, DOMAIN f = DOMAIN s, f = [i \in DOMAIN s |-> f[i]], NEW kn, NEW n, NEW R,
         \A i \in DOMAIN s : FitOperation(f[i], kn, n, R)
  PROVE  Fit(f, kn, n, R)
  <1>1. IsSequence(f)
    BY MappedSequence
  <1>2. \A op \in ToSet(f) : FitOperation(op, kn, n, R)
    BY DEF ToSet
  <1>3. QED
    BY <1>1, <1>2 DEF Fit

\* One operation that fits.
LEMMA FitOne ==
  ASSUME NEW op, NEW kn, NEW n, NEW R, FitOperation(op, kn, n, R), NEW s, s = <<op>>
  PROVE  Fit(s, kn, n, R)
  <1>1. IsSequence(s) /\ ToSet(s) = {op}
    BY OneElement
  <1>2. QED
    BY <1>1 DEF Fit

\* Two operations that fit.
LEMMA FitTwo ==
  ASSUME NEW op, NEW oq, NEW kn, NEW n, NEW R, FitOperation(op, kn, n, R), FitOperation(oq, kn, n, R),
         NEW s, s = <<op, oq>>
  PROVE  Fit(s, kn, n, R)
  <1>1. IsSequence(s) /\ ToSet(s) = {op, oq}
    BY TwoElements
  <1>2. QED
    BY <1>1 DEF Fit

\* Transactions that fit, one after the other.
LEMMA FitFlattened ==
  ASSUME NEW s, IsSequence(s), NEW f, DOMAIN f = DOMAIN s, f = [i \in DOMAIN s |-> f[i]], NEW kn, NEW n, NEW R,
         \A i \in DOMAIN s : Fit(f[i], kn, n, R)
  PROVE  Fit(FlattenSeq(f), kn, n, R)
  <1>1. IsSequence(f) /\ \A i \in DOMAIN f : IsSequence(f[i])
    BY MappedSequence DEF Fit
  <1>2. IsSequence(FlattenSeq(f)) /\ \A x : x \in ToSet(FlattenSeq(f)) <=> \E i \in DOMAIN f : x \in ToSet(f[i])
    BY <1>1, Flattened
  <1>3. QED
    BY <1>2 DEF Fit

\* Taking a record back fits.
LEMMA FitLogged ==
  ASSUME NEW log, NEW kn, RecordsHold(log, kn), NEW i \in DOMAIN log, NEW n, NEW R
  PROVE  Fit(log[i].inverse, kn, n, R)
  BY DEF RecordsHold, TypedInverse, Fit, FitOperation, LoggedHolds

\* The greatest of a set of positions.
LEMMA MaxOfPositions ==
  ASSUME NEW k \in Nat, NEW S \in SUBSET (1 .. k), S # {}
  PROVE  Max(S) \in S /\ \A i \in S : Max(S) >= i
  <1> DEFINE key == [i \in S |-> 0 - i]
  <1>1. IsFiniteSet(S)
    <2>1. 1 \in Int /\ k \in Int
      OBVIOUS
    <2>2. IsFiniteSet(1 .. k)
      BY ONLY <2>1, FS_Interval
    <2>3. QED
      BY <2>2, FS_Subset
  <1>2. PICK x \in S : \A y \in S : key[x] <= key[y]
    <2>1. \A x \in S : key[x] \in Int
      OBVIOUS
    <2> HIDE DEF key
    <2>2. QED
      BY <1>1, <2>1, FiniteHasLeast
  <1>3. \A y \in S : x >= y
    BY <1>2
  <1>4. QED
    BY <1>3 DEF Max

\* A candidate that some set has is looked up in a set that was put.
LEMMA CandidateFound ==
  ASSUME NEW p, NEW n, ProjectHolds(p, n), NEW c, SetsWith(p, c) # {}
  PROVE  /\ Candidate(p, c) \in AllCandidates(p.known)
         /\ Candidate(p, c).id = c /\ Candidate(p, c).range \in TimeRange
  <1>1. IsSequence(p.doc.artifacts) /\ DOMAIN p.doc.artifacts = 1 .. Len(p.doc.artifacts) /\ Len(p.doc.artifacts) \in Nat
    BY DocumentFacts, SequenceFacts DEF ProjectHolds
  <1> DEFINE i == Max(SetsWith(p, c))
  <1>2. i \in SetsWith(p, c)
    <2>1. SetsWith(p, c) \in SUBSET (1 .. Len(p.doc.artifacts))
      BY <1>1 DEF SetsWith, Sets
    <2>2. QED
      BY <1>1, <2>1, MaxOfPositions
  <1> HIDE DEF i
  <1>3. PICK x \in CandidatesOf(p, i) : x.id = c
    BY <1>2 DEF SetsWith, Holds
  <1>4. Candidate(p, c) \in CandidatesOf(p, i) /\ Candidate(p, c).id = c
    BY <1>3 DEF Candidate, i
  <1>5. p.doc.artifacts[i] \in SetIds(p.known)
    <2>1. i \in DOMAIN p.doc.artifacts /\ p.known[p.doc.artifacts[i]].kind = "set"
      BY <1>2 DEF SetsWith, Sets
    <2>2. p.doc.artifacts[i] \in ToSet(p.doc.artifacts)
      BY <2>1 DEF ToSet
    <2>3. QED
      BY <2>1, <2>2 DEF ProjectHolds, DocumentHolds, SetIds
  <1>6. Candidate(p, c) \in AllCandidates(p.known)
    BY <1>4, <1>5 DEF AllCandidates, CandidatesOf
  <1>7. QED
    BY <1>4, <1>6 DEF ProjectHolds, KnownHolds

\* A lock that keeps a candidate fits.
LEMMA KeepLockFits ==
  ASSUME NEW p, NEW n, ProjectHolds(p, n), NEW c, SetsWith(p, c) # {}, NEW anchor, NEW k, NEW m, NEW R,
         NEW op, op = [KeepLock(p, c, anchor) EXCEPT !.index = k]
  PROVE  FitOperation(op, p.known, m, R)
  <1> DEFINE range == Candidate(p, c).range
             x == Candidate(p, c)
  <1>1. x \in AllCandidates(p.known) /\ x.id = c /\ range \in TimeRange /\ x.range = range
    BY CandidateFound
  <1> HIDE DEF x, range
  <1>2. /\ op.type = "lock.add"
        /\ op.lock = [id |-> KeepLockId(c), owner |-> User.id, mode |-> "deny_agent",
                      scope |-> [kind |-> "source_range", assetId |-> Media, range |-> range],
                      note |-> [anchor |-> anchor, candidate |-> c]]
    BY DEF KeepLock, range
  <1>3. Keeper(op.lock, p.known)
    BY <1>1, <1>2 DEF Keeper
  <1>4. IsLock(op.lock)
    BY <1>1, <1>2 DEF IsLock, ScopeKinds
  <1>5. IsOperation(op)
    BY <1>2, <1>4 DEF IsOperation, OperationTypes
  <1>6. QED
    BY <1>2, <1>3, <1>5 DEF FitOperation

\* The locks that keep several candidates fit.
LEMMA KeepLocksFit ==
  ASSUME NEW p, NEW n, ProjectHolds(p, n), NEW cs, IsSequence(cs), \A c \in ToSet(cs) : SetsWith(p, c) # {},
         NEW anchor, NEW m, NEW R
  PROVE  Fit(KeepLocks(p, cs, anchor), p.known, m, R)
  <1> DEFINE f == KeepLocks(p, cs, anchor)
  <1>1. DOMAIN f = DOMAIN cs /\ f = [i \in DOMAIN cs |-> f[i]]
    BY DEF KeepLocks
  <1>2. ASSUME NEW i \in DOMAIN cs PROVE FitOperation(f[i], p.known, m, R)
    <2> DEFINE c == cs[i]
               k == KeepLock(p, c, anchor).index + i - 1
    <2>1. SetsWith(p, c) # {}
      BY DEF ToSet
    <2> DEFINE op == f[i]
    <2>2. op = [KeepLock(p, c, anchor) EXCEPT !.index = k]
      BY DEF KeepLocks
    <2> HIDE DEF c, k, f, op
    <2>3. FitOperation(op, p.known, m, R)
      BY <2>1, <2>2, KeepLockFits
    <2>4. QED
      BY <2>3 DEF op
  <1> HIDE DEF f
  <1>3. Fit(f, p.known, m, R)
    BY <1>1, <1>2, FitMapped
  <1>4. QED
    BY <1>3 DEF f

\* Merged ranges are ranges, finitely many, of which no two start together.
StartsApart(ranges) ==
  /\ IsFiniteSet(ranges) /\ \A r \in ranges : r \in TimeRange
  /\ \A r, q \in ranges : r.start = q.start => r = q

\* A range has finitely many instants.
LEMMA InstantsFinite ==
  ASSUME NEW r \in TimeRange
  PROVE  IsFiniteSet(Instants(r)) /\ Instants(r) \subseteq Int
  <1>1. r.start \in Int /\ RangeEnd(r) - 1 \in Int
    BY DEF TimeRange, RangeEnd
  <1>2. IsFiniteSet(r.start .. (RangeEnd(r) - 1))
    BY <1>1, FS_Interval
  <1>3. QED
    BY <1>1, <1>2 DEF Instants

\* What mergeRanges makes of finitely many ranges: none empty, no two that start
\* together.
LEMMA MergedApart ==
  ASSUME NEW ranges, IsFiniteSet(ranges), \A r \in ranges : r \in TimeRange
  PROVE  StartsApart(Merged(ranges)) /\ \A r \in Merged(ranges) : r.dur > 0
  <1> DEFINE covered == UNION {Instants(r) : r \in ranges}
             N == Cardinality(covered)
             M == Merged(ranges)
  <1>1. IsFiniteSet(covered) /\ covered \subseteq Int
    <2> DEFINE f == [r \in ranges |-> Instants(r)]
               T == {f[r] : r \in ranges}
    <2>1. IsFiniteSet(T)
      <3>1. DOMAIN f = ranges /\ f = [r \in ranges |-> f[r]] /\ T = {f[r] : r \in ranges}
        OBVIOUS
      <3> HIDE DEF f, T
      <3>2. QED
        BY <3>1, ImageFinite
    <2>2. T = {Instants(r) : r \in ranges}
      OBVIOUS
    <2>3. \A t \in T : IsFiniteSet(t) /\ t \subseteq Int
      BY <2>2, InstantsFinite
    <2>4. covered = UNION T
      BY <2>2
    <2> HIDE DEF T
    <2>5. IsFiniteSet(UNION T)
      BY <2>1, <2>3, FS_UNION
    <2>6. QED
      BY <2>3, <2>4, <2>5
  <1> HIDE DEF covered
  <1>2. N \in Nat
    BY <1>1, FS_CardinalityType
  <1>3. M = {r \in [start : covered, dur : 1 .. N] :
               Instants(r) \subseteq covered /\ r.start - 1 \notin covered /\ RangeEnd(r) \notin covered}
    BY DEF Merged, covered
  <1> HIDE DEF N, M
  <1>4. ASSUME NEW r \in M PROVE r \in TimeRange /\ r.dur > 0
    <2>1. r.start \in covered /\ r.dur \in 1 .. N /\ r = [start |-> r.start, dur |-> r.dur]
      BY <1>3
    <2>2. r.start \in Int /\ r.dur \in Nat /\ r.dur > 0
      BY <1>1, <1>2, <2>1
    <2>3. QED
      BY <2>1, <2>2 DEF TimeRange
  <1>5. IsFiniteSet(M)
    <2> DEFINE pairs == covered \X (1 .. N)
               f == [pair \in pairs |-> [start |-> pair[1], dur |-> pair[2]]]
               T == {f[pair] : pair \in pairs}
    <2>1. IsFiniteSet(pairs)
      <3>1. IsFiniteSet(1 .. N)
        <4>1. 1 \in Int /\ N \in Int
          BY <1>2
        <4>2. QED
          BY <4>1, FS_Interval
      <3>2. QED
        BY <1>1, <3>1, FS_Product
    <2>2. IsFiniteSet(T)
      <3>1. DOMAIN f = pairs /\ f = [pair \in pairs |-> f[pair]] /\ T = {f[pair] : pair \in pairs}
        OBVIOUS
      <3> HIDE DEF pairs, f, T
      <3>2. QED
        BY <2>1, <3>1, ImageFinite
    <2>3. M \subseteq T
      <3> SUFFICES ASSUME NEW r \in M PROVE r \in T
        OBVIOUS
      <3>1. r.start \in covered /\ r.dur \in 1 .. N /\ r = [start |-> r.start, dur |-> r.dur]
        BY <1>3
      <3> DEFINE pair == <<r.start, r.dur>>
      <3>2. pair \in pairs /\ pair[1] = r.start /\ pair[2] = r.dur
        BY <3>1
      <3>3. f[pair] = r
        BY <3>1, <3>2
      <3>4. QED
        BY <3>2, <3>3
    <2>4. QED
      BY <2>2, <2>3, FS_Subset
  <1>6. ASSUME NEW a \in M, NEW b \in M, a.start = b.start, a.dur < b.dur PROVE FALSE
    <2>1. /\ a.start \in Int /\ a.dur \in Int /\ b.dur \in Int /\ a.dur > 0
          /\ RangeEnd(a) \notin covered /\ Instants(b) \subseteq covered
      BY <1>3, <1>4 DEF TimeRange
    <2>2. RangeEnd(a) \in Instants(b)
      BY <1>6, <2>1 DEF RangeEnd, Instants
    <2>3. QED
      BY <2>1, <2>2
  <1>7. ASSUME NEW a \in M, NEW b \in M, a.start = b.start PROVE a = b
    <2>1. /\ a = [start |-> a.start, dur |-> a.dur] /\ b = [start |-> b.start, dur |-> b.dur]
          /\ a.dur \in Int /\ b.dur \in Int
      BY <1>4, RangeFacts
    <2>2. a.dur = b.dur
      BY <1>6, <1>7, <2>1
    <2>3. QED
      BY <1>7, <2>1, <2>2
  <1>8. StartsApart(M) /\ \A r \in M : r.dur > 0
    BY <1>4, <1>5, <1>7 DEF StartsApart
  <1>9. QED
    BY <1>8 DEF M

\* Deletions that start apart are put in descending order.
LEMMA DescendingOrder ==
  ASSUME NEW ops, IsFiniteSet(ops), \A op \in ops : op.range.start \in Int,
         \A op, oq \in ops : op.range.start = oq.range.start => op = oq,
         NEW s, s = Descending(ops)
  PROVE  IsSequence(s) /\ ToSet(s) \subseteq ops
  <1> DEFINE key == [op \in ops |-> op.range.start]
             n == Cardinality(ops)
  <1>1. n \in Nat
    BY FS_CardinalityType
  <1>2. PICK u \in [1 .. n -> ops] : Down(u, key)
    <2>1. (\A op \in ops : key[op] \in Int) /\ \A op, oq \in ops : key[op] = key[oq] => op = oq
      OBVIOUS
    <2> HIDE DEF key
    <2>2. QED
      BY <2>1, FiniteDescends
  <1>3. \A i, j \in DOMAIN u : i < j => u[i].range.start > u[j].range.start
    BY <1>2 DEF Down
  <1>4. s \in [1 .. n -> ops]
    BY <1>2, <1>3 DEF Descending
  <1> HIDE DEF n
  <1>5. s \in Seq(ops)
    BY <1>1, <1>4
  <1>6. QED
    BY <1>5, SequenceOfElements

\* The deletions of ranges that start apart fit.
LEMMA RipplesFit ==
  ASSUME NEW track, NEW clip, NEW proposal, NEW ranges, StartsApart(ranges), NEW kn, NEW n, NEW R
  PROVE  Fit(Ripples(track, clip, proposal, ranges), kn, n, R)
  <1> DEFINE Later(range) == {r \in ranges : r.start > range.start}
             Parts(range) == /\ range.start > clip.range.start
                             /\ RangeEnd(range) < Min({RangeEnd(clip.range)} \cup {r.start : r \in Later(range)})
             Right(range) == [id \in IF Parts(range) THEN {clip.id} ELSE {} |->
                                RightId(id, proposal, Cardinality(Later(range)) + 1)]
             Op(range) == [type |-> "range.deleteRipple", range |-> range, trackIds |-> <<track>>,
                           proposal |-> proposal, right |-> Right(range)]
             f == [range \in ranges |-> Op(range)]
             ops == {f[range] : range \in ranges}
  <1>1. Ripples(track, clip, proposal, ranges) = Descending({Op(range) : range \in ranges})
    BY DEF Ripples
  <1>2. ops = {Op(range) : range \in ranges}
    OBVIOUS
  <1> HIDE DEF Right
  <1>3. \A range \in ranges : Op(range).range = range /\ Op(range).type = "range.deleteRipple" /\ Op(range).trackIds = <<track>>
    OBVIOUS
  <1>4. \A op \in ops : \E range \in ranges : op = Op(range)
    BY <1>2
  <1>5. IsFiniteSet(ops)
    <2>1. DOMAIN f = ranges /\ f = [range \in ranges |-> f[range]] /\ ops = {f[range] : range \in ranges}
      OBVIOUS
    <2> HIDE DEF f, ops
    <2>2. QED
      BY <2>1, ImageFinite DEF StartsApart
  <1>6. \A op \in ops : op.range.start \in Int
    BY <1>3, <1>4 DEF StartsApart, TimeRange
  <1>7. \A op, oq \in ops : op.range.start = oq.range.start => op = oq
    <2> SUFFICES ASSUME NEW op \in ops, NEW oq \in ops, op.range.start = oq.range.start PROVE op = oq
      OBVIOUS
    <2>1. PICK a \in ranges : op = Op(a)
      BY <1>4
    <2>2. PICK b \in ranges : oq = Op(b)
      BY <1>4
    <2>3. op.range = a /\ oq.range = b
      BY <1>3, <2>1, <2>2
    <2>4. a = b
      BY <2>3 DEF StartsApart
    <2>5. QED
      BY <2>1, <2>2, <2>4
  <1> DEFINE s == Descending(ops)
  <1>8. IsSequence(s) /\ ToSet(s) \subseteq ops
    <2>1. s = Descending(ops)
      OBVIOUS
    <2> HIDE DEF s, ops
    <2>2. QED
      BY <1>5, <1>6, <1>7, <2>1, DescendingOrder
  <1>9. ASSUME NEW op \in ops PROVE FitOperation(op, kn, n, R)
    <2>1. PICK range \in ranges : op = Op(range)
      BY <1>4
    <2>2. op.type = "range.deleteRipple" /\ op.range \in TimeRange /\ op.trackIds = <<track>>
      BY <1>3, <2>1 DEF StartsApart
    <2>3. IsSequence(op.trackIds)
      BY <2>2, OneElement
    <2> HIDE DEF Op
    <2>4. IsOperation(op)
      BY <2>2, <2>3 DEF IsOperation, OperationTypes
    <2>5. QED
      BY <2>2, <2>4 DEF FitOperation
  <1>10. Fit(s, kn, n, R)
    BY <1>8, <1>9 DEF Fit
  <1>11. QED
    BY <1>1, <1>2, <1>10

\* A new set and a proposal are put; that fits, when the candidates do.
CandidatesFit(candidates, kn, n, R) ==
  /\ IsFiniteSet(candidates)
  /\ \A c \in candidates :
       /\ c.range \in TimeRange
       /\ c \in AllCandidates(kn) \/ c \in UNION Findings \/ (c.id = Manual(n) /\ c.range = R)

\* Putting a set of candidates that fit fits.
LEMMA PutSetFits ==
  ASSUME NEW p, NEW id, NEW candidates, NEW clip, NEW from, NEW at, NEW kn, NEW n, NEW R,
         CandidatesFit(candidates, kn, n, R), id \in ArtifactIds(n),
         NEW op, op = Put(p, id, NewSet(p, candidates, clip, from), at)
  PROVE  FitOperation(op, kn, n, R)
  <1>1. /\ op.type = "library.put" /\ op.list = "artifacts" /\ "content" \in DOMAIN op
        /\ op.content.kind = "set" /\ op.content.candidates = candidates /\ op.object = id
    BY DEF Put, NewSet
  <1>2. IsOperation(op)
    BY <1>1 DEF IsOperation, OperationTypes
  <1>3. FitContent(op.content, kn, n, R)
    BY <1>1 DEF FitContent, CandidatesFit
  <1>4. QED
    BY <1>1, <1>2, <1>3 DEF FitOperation

\* Putting a proposal fits, whatever it selects.
LEMMA PutProposalFits ==
  ASSUME NEW p, NEW id, NEW set, NEW selected, NEW at, NEW kn, NEW n, NEW R,
         id \in ArtifactIds(n), NEW op, op = Put(p, id, NewProposal(p, set, selected), at)
  PROVE  FitOperation(op, kn, n, R)
  <1>1. /\ op.type = "library.put" /\ op.list = "artifacts" /\ "content" \in DOMAIN op
        /\ op.content.kind = "proposal" /\ op.object = id
    BY DEF Put, NewProposal
  <1>2. IsOperation(op)
    BY <1>1 DEF IsOperation, OperationTypes
  <1>3. FitContent(op.content, kn, n, R)
    BY <1>1 DEF FitContent
  <1>4. QED
    BY <1>1, <1>2, <1>3 DEF FitOperation

\* What is on the timeline for finitely many candidates.
LEMMA OnTimelineFinite ==
  ASSUME NEW clip, IsClip(clip), NEW candidates, IsFiniteSet(candidates), \A c \in candidates : c.range \in TimeRange,
         NEW ranges, ranges = {OnTimeline(clip, c.range) : c \in candidates}
  PROVE  IsFiniteSet(ranges) /\ \A r \in ranges : r \in TimeRange
  <1> DEFINE f == [c \in candidates |-> OnTimeline(clip, c.range)]
  <1>1. DOMAIN f = candidates /\ f = [c \in candidates |-> f[c]] /\ ranges = {f[c] : c \in candidates}
    OBVIOUS
  <1>2. ASSUME NEW c \in candidates PROVE f[c] \in TimeRange
    <2>1. /\ clip.range.start \in Int /\ clip.src.start \in Int /\ c.range.start \in Int /\ c.range.dur \in Int
      BY DEF IsClip, TimeRange
    <2>2. QED
      BY <2>1 DEF OnTimeline, TimeRange
  <1>5. IsFiniteSet(candidates)
    OBVIOUS
  <1> HIDE DEF f
  <1>3. IsFiniteSet(ranges)
    BY ONLY <1>1, <1>5, ImageFinite
  <1>4. QED
    BY <1>1, <1>2, <1>3

\* Every clip of a document is a clip.
LEMMA ClipsTyped ==
  ASSUME NEW d, IsDocument(d), NEW clip \in ClipsOf(d)
  PROVE  IsClip(clip)
  BY ClipsByPosition, ClipFacts

\* A bundle of candidates that fit fits.
LEMMA BundleFits ==
  ASSUME NEW p, NEW m, ProjectHolds(p, m), NEW id, NEW candidates, NEW selected, NEW clipId, NEW from, NEW n, NEW R,
         CandidatesFit(candidates, p.known, n, R), id \in ArtifactIds(n), "proposal_" \o id \in ArtifactIds(n),
         NEW ops, ops \in Bundle(p, id, candidates, selected, clipId, from)
  PROVE  Fit(ops, p.known, n, R)
  <1> DEFINE proposal == "proposal_" \o id
             chosen == {x \in candidates : x.id \in selected}
             Ranges(clip) == {OnTimeline(clip, c.range) : c \in chosen}
             track == p.doc.tracks[FindClip(p.doc, clipId).track].id
             a == Put(p, id, NewSet(p, candidates, clipId, from), 0)
             b == Put(p, proposal, NewProposal(p, id, selected), 1)
  <1>1. PICK clip \in ClipsOf(p.doc) :
          ops = <<a, b>> \o Ripples(track, clip, proposal, Merged(Ranges(clip)))
    BY DEF Bundle, Refusal
  <1>2. FitOperation(a, p.known, n, R) /\ FitOperation(b, p.known, n, R)
    <2>1. id \in ArtifactIds(n) /\ proposal \in ArtifactIds(n) /\ CandidatesFit(candidates, p.known, n, R)
      OBVIOUS
    <2> HIDE DEF proposal
    <2>2. QED
      BY <2>1, PutSetFits, PutProposalFits
  <1>3. IsClip(clip)
    BY ClipsTyped DEF ProjectHolds
  <1>4. IsFiniteSet(chosen) /\ \A c \in chosen : c.range \in TimeRange
    <2>1. chosen \in SUBSET candidates /\ IsFiniteSet(candidates)
      BY DEF CandidatesFit
    <2>2. QED
      BY <2>1, FS_Subset DEF CandidatesFit
  <1> DEFINE ranges == Ranges(clip)
  <1>5. ranges = {OnTimeline(clip, c.range) : c \in chosen} /\ ops = <<a, b>> \o Ripples(track, clip, proposal, Merged(ranges))
    BY <1>1
  <1> HIDE DEF a, b, chosen, ranges, track, proposal
  <1>6. IsFiniteSet(ranges) /\ \A r \in ranges : r \in TimeRange
    BY <1>3, <1>4, <1>5, OnTimelineFinite
  <1>7. StartsApart(Merged(ranges))
    BY <1>6, MergedApart
  <1> DEFINE cuts == Ripples(track, clip, proposal, Merged(ranges))
             puts == <<a, b>>
  <1>8. Fit(cuts, p.known, n, R)
    BY <1>7, RipplesFit
  <1>9. Fit(puts, p.known, n, R)
    BY <1>2, FitTwo
  <1>10. ops = puts \o cuts
    BY <1>5
  <1> HIDE DEF cuts, puts
  <1>11. QED
    BY <1>8, <1>9, <1>10, FitJoined

\* The elements of a sequence are finitely many.
LEMMA ElementsFinite ==
  ASSUME NEW s, IsSequence(s)
  PROVE  IsFiniteSet(ToSet(s))
  <1> DEFINE X == DOMAIN s
             Y == {s[i] : i \in X}
  <1>1. X = 1 .. Len(s) /\ 1 \in Int /\ Len(s) \in Int
    BY SequenceFacts
  <1>2. IsFiniteSet(1 .. Len(s))
    BY ONLY <1>1, FS_Interval
  <1>3. IsFiniteSet(X) /\ DOMAIN s = X /\ s = [i \in X |-> s[i]] /\ Y = {s[i] : i \in X}
    <2>1. s \in Seq(ToSet(s))
      BY SequenceFacts
    <2>2. s = [i \in DOMAIN s |-> s[i]]
      BY <2>1
    <2>3. QED
      BY <1>1, <1>2, <2>2
  <1>4. ToSet(s) = Y
    BY DEF ToSet
  <1> HIDE DEF X, Y
  <1>5. IsFiniteSet(Y)
    BY ONLY <1>3, ImageFinite
  <1>6. QED
    BY <1>4, <1>5

\* Accepting a candidate fits.
LEMMA AcceptFits ==
  ASSUME NEW p, NEW m, ProjectHolds(p, m), NEW c, NEW members, IsSequence(members), NEW confirmed,
         NEW n, NEW R, NEW ops, ops \in Accept(p, c, members, confirmed, RequestName(n))
  PROVE  Fit(ops, p.known, n, R)
  <1> DEFINE candidate == Candidate(p, c)
             id == "review_" \o RequestName(n)
             one == {candidate}
             selected == {c}
             clipId == CurrentClipId(p.doc, candidate.range)
             from == {SetOf(p, c)}
             locks == KeepLocks(p, members, c)
             bundles == Bundle(p, id, one, selected, clipId, from)
  <1>1. /\ SetsWith(p, c) # {}
        /\ members # <<>> => \A x \in ToSet(members) : SetsWith(p, x) # {}
        /\ ops \in {cut \o locks : cut \in bundles}
    BY DEF Accept, Refusal, CanKeep
  <1>2. CandidatesFit(one, p.known, n, R)
    <2>1. IsFiniteSet({candidate})
      BY FS_Singleton
    <2>2. candidate \in AllCandidates(p.known) /\ candidate.range \in TimeRange
      BY <1>1, CandidateFound
    <2>3. QED
      BY <2>1, <2>2 DEF CandidatesFit
  <1>3. \A x \in ToSet(members) : SetsWith(p, x) # {}
    BY <1>1, EmptySequence
  <1>0. id \in ArtifactIds(n) /\ "proposal_" \o id \in ArtifactIds(n)
    BY DEF ArtifactIds
  <1> HIDE DEF id, one, selected, clipId, from, locks, bundles
  <1>4. PICK cut \in bundles : ops = cut \o locks
    BY <1>1
  <1>5. Fit(cut, p.known, n, R)
    BY <1>0, <1>2, BundleFits DEF bundles
  <1>6. Fit(locks, p.known, n, R)
    BY <1>3, KeepLocksFit DEF locks
  <1>7. QED
    BY <1>4, <1>5, <1>6, FitJoined

\* Keeping a candidate fits.
LEMMA KeepFits ==
  ASSUME NEW p, NEW m, ProjectHolds(p, m), NEW c, NEW members, IsSequence(members),
         NEW n, NEW R, NEW ops, ops \in Keep(p, c, members)
  PROVE  Fit(ops, p.known, n, R)
  <1> DEFINE anchor == IF members = <<>> THEN None ELSE c
             one == <<c>>
             cs == one \o members
  <1>1. ops = KeepLocks(p, cs, anchor) /\ \A x \in {c} \cup ToSet(members) : SetsWith(p, x) # {}
    BY DEF Keep, Refusal, Compiled, CanKeep
  <1>2. IsSequence(cs) /\ ToSet(cs) = {c} \cup ToSet(members)
    <2>1. IsSequence(one) /\ ToSet(one) = {c} /\ IsSequence(members)
      BY OneElement
    <2>2. cs = one \o members
      OBVIOUS
    <2> HIDE DEF one, cs
    <2>3. IsSequence(cs) /\ ToSet(cs) = ToSet(one) \cup ToSet(members)
      BY ONLY <2>1, <2>2, Concatenated
    <2>4. QED
      BY <2>1, <2>3
  <1> HIDE DEF anchor, cs
  <1>3. \A x \in ToSet(cs) : SetsWith(p, x) # {}
    BY <1>1, <1>2
  <1>4. QED
    BY <1>1, <1>2, <1>3, KeepLocksFit

\* Keeping several candidates, each for itself, fits.
LEMMA KeepBatchFits ==
  ASSUME NEW p, NEW m, ProjectHolds(p, m), NEW cs, IsSequence(cs),
         NEW n, NEW R, NEW ops, ops \in KeepBatch(p, cs)
  PROVE  Fit(ops, p.known, n, R)
  <1>1. ops = KeepLocks(p, cs, None) /\ \A c \in ToSet(cs) : Keep(p, c, <<>>) # Refusal
    BY DEF KeepBatch, Refusal, Compiled
  <1>2. \A c \in ToSet(cs) : SetsWith(p, c) # {}
    BY <1>1 DEF Keep, CanKeep
  <1>3. QED
    BY <1>1, <1>2, KeepLocksFit

\* Accepting several candidates fits.
LEMMA AcceptBatchFits ==
  ASSUME NEW p, NEW m, ProjectHolds(p, m), NEW cs, IsSequence(cs), NEW membersOf,
         \A c \in ToSet(cs) : IsSequence(membersOf[c]),
         NEW n, NEW R, NEW ops, ops \in AcceptBatch(p, cs, membersOf, RequestName(n))
  PROVE  Fit(ops, p.known, n, R)
  <1> DEFINE candidates == {Candidate(p, c) : c \in ToSet(cs)}
             id == "batch_" \o RequestName(n)
             clipId == CHOOSE clip \in {CurrentClipId(p.doc, candidate.range) : candidate \in candidates} : TRUE
             from == {SetOf(p, c) : c \in ToSet(cs)}
             bundles == Bundle(p, id, candidates, ToSet(cs), clipId, from)
             group == [i \in DOMAIN cs |-> KeepLocks(p, membersOf[cs[i]], cs[i])]
             locks == FlattenSeq(group)
             placed == [i \in DOMAIN locks |-> [locks[i] EXCEPT !.index = Len(p.doc.locks) + i - 1]]
  <1>1. /\ \A c \in ToSet(cs) : SetsWith(p, c) # {}
        /\ \A c \in ToSet(cs) : membersOf[c] # <<>> => \A x \in ToSet(membersOf[c]) : SetsWith(p, x) # {}
        /\ ops \in {cut \o placed : cut \in bundles}
    BY DEF AcceptBatch, Refusal, CanKeep
  <1>2. CandidatesFit(candidates, p.known, n, R)
    <2> DEFINE X == ToSet(cs)
               f == [c \in X |-> Candidate(p, c)]
    <2>1. IsFiniteSet(X) /\ DOMAIN f = X /\ f = [c \in X |-> f[c]] /\ candidates = {f[c] : c \in X}
      BY ElementsFinite
    <2>2. \A x \in candidates : x \in AllCandidates(p.known) /\ x.range \in TimeRange
      BY <1>1, CandidateFound
    <2> HIDE DEF X, f, candidates
    <2>3. IsFiniteSet(candidates)
      BY ONLY <2>1, ImageFinite
    <2>4. QED
      BY <2>2, <2>3 DEF CandidatesFit
  <1>3. \A c \in ToSet(cs) : \A x \in ToSet(membersOf[c]) : SetsWith(p, x) # {}
    BY <1>1, EmptySequence
  <1>4. ASSUME NEW i \in DOMAIN cs PROVE IsSequence(group[i]) /\ \A op \in ToSet(group[i]) :
          \E x, anchor, k : SetsWith(p, x) # {} /\ op = [KeepLock(p, x, anchor) EXCEPT !.index = k]
    <2>1. cs[i] \in ToSet(cs)
      BY DEF ToSet
    <2> DEFINE members == membersOf[cs[i]]
    <2>2. IsSequence(members) /\ \A x \in ToSet(members) : SetsWith(p, x) # {}
      BY <1>3, <2>1
    <2>3. group[i] = KeepLocks(p, members, cs[i])
      OBVIOUS
    <2> HIDE DEF members
    <2> DEFINE s == KeepLocks(p, members, cs[i])
    <2>4. DOMAIN s = DOMAIN members /\ s = [j \in DOMAIN members |-> s[j]]
      BY DEF KeepLocks
    <2>5. \A op \in ToSet(s) : \E x, anchor, k : SetsWith(p, x) # {} /\ op = [KeepLock(p, x, anchor) EXCEPT !.index = k]
      <3> SUFFICES ASSUME NEW op \in ToSet(s)
                   PROVE  \E x, anchor, k : SetsWith(p, x) # {} /\ op = [KeepLock(p, x, anchor) EXCEPT !.index = k]
        OBVIOUS
      <3>1. PICK j \in DOMAIN members : op = s[j]
        BY <2>4 DEF ToSet
      <3>2. SetsWith(p, members[j]) # {}
        BY <2>2 DEF ToSet
      <3>3. s[j] = [KeepLock(p, members[j], cs[i]) EXCEPT !.index = KeepLock(p, members[j], cs[i]).index + j - 1]
        BY DEF KeepLocks
      <3>4. QED
        BY <3>1, <3>2, <3>3
    <2> HIDE DEF s
    <2>6. IsSequence(s)
      BY <2>2, <2>4, MappedSequence
    <2>7. QED
      BY <2>3, <2>5, <2>6 DEF s
  <1>5. DOMAIN group = DOMAIN cs /\ group = [i \in DOMAIN cs |-> group[i]]
    OBVIOUS
  <1>6. DOMAIN placed = DOMAIN locks /\ placed = [i \in DOMAIN locks |-> placed[i]]
    OBVIOUS
  <1> DEFINE At(i) == [locks[i] EXCEPT !.index = Len(p.doc.locks) + i - 1]
  <1>7. \A i \in DOMAIN locks : placed[i] = At(i)
    OBVIOUS
  <1>0. id \in ArtifactIds(n) /\ "proposal_" \o id \in ArtifactIds(n)
    BY DEF ArtifactIds
  <1> HIDE DEF candidates, id, clipId, from, bundles, group, placed
  <1>8. IsSequence(group)
    BY <1>5, MappedSequence
  <1>9. IsSequence(locks) /\ \A x : x \in ToSet(locks) <=> \E i \in DOMAIN group : x \in ToSet(group[i])
    BY <1>4, <1>5, <1>8, Flattened
  <1>10. ASSUME NEW i \in DOMAIN locks PROVE FitOperation(placed[i], p.known, n, R)
    <2>1. locks[i] \in ToSet(locks)
      BY DEF ToSet
    <2>2. PICK j \in DOMAIN group : locks[i] \in ToSet(group[j])
      BY <1>9, <2>1
    <2>3. PICK x, anchor, k : SetsWith(p, x) # {} /\ locks[i] = [KeepLock(p, x, anchor) EXCEPT !.index = k]
      BY <1>4, <1>5, <2>2
    <2> DEFINE op == placed[i]
    <2>4. op = [KeepLock(p, x, anchor) EXCEPT !.index = Len(p.doc.locks) + i - 1]
      BY <1>7, <2>3 DEF KeepLock
    <2> HIDE DEF op
    <2>5. FitOperation(op, p.known, n, R)
      BY <2>3, <2>4, KeepLockFits
    <2>6. QED
      BY <2>5 DEF op
  <1> HIDE DEF locks
  <1>11. Fit(placed, p.known, n, R)
    BY <1>6, <1>9, <1>10, FitMapped
  <1>12. PICK cut \in bundles : ops = cut \o placed
    BY <1>1
  <1>13. Fit(cut, p.known, n, R)
    BY <1>0, <1>2, BundleFits DEF bundles
  <1>14. QED
    BY <1>11, <1>12, <1>13, FitJoined

\* Taking locks away fits.
LEMMA UnlockFits ==
  ASSUME NEW d, IsDocument(d), NEW lockId, NEW kn, NEW n, NEW R, NEW ops, ops \in Unlock(d, lockId)
  PROVE  Fit(ops, kn, n, R)
  <1>1. PICK group : ops = FlattenSeq([i \in DOMAIN d.locks |->
                              IF d.locks[i].id \in group THEN <<[type |-> "lock.remove", lockId |-> d.locks[i].id]>> ELSE <<>>])
    <2>1. CASE lockId \in LockIds(d)
      BY <2>1 DEF Unlock, Compiled
    <2>2. CASE lockId \notin LockIds(d)
      BY <2>2 DEF Unlock, Refusal
    <2>3. QED
      BY <2>1, <2>2
  <1> DEFINE f == [i \in DOMAIN d.locks |->
                     IF d.locks[i].id \in group THEN <<[type |-> "lock.remove", lockId |-> d.locks[i].id]>> ELSE <<>>]
             locks == d.locks
  <1>2. DOMAIN f = DOMAIN locks /\ f = [i \in DOMAIN locks |-> f[i]] /\ ops = FlattenSeq(f)
    BY <1>1
  <1>3. IsSequence(locks)
    BY DocumentFacts
  <1>4. ASSUME NEW i \in DOMAIN locks PROVE Fit(f[i], kn, n, R)
    <2> DEFINE op == [type |-> "lock.remove", lockId |-> d.locks[i].id]
               one == <<op>>
    <2>1. FitOperation(op, kn, n, R)
      BY DEF FitOperation, IsOperation, OperationTypes
    <2>2. one = <<op>>
      OBVIOUS
    <2>3. f[i] = one \/ f[i] = <<>>
      OBVIOUS
    <2> HIDE DEF op, one
    <2>4. Fit(one, kn, n, R)
      BY <2>1, <2>2, FitOne
    <2>5. Fit(<<>>, kn, n, R)
      BY EmptySequence DEF Fit
    <2> HIDE DEF f
    <2>6. QED
      BY <2>3, <2>4, <2>5
  <1> HIDE DEF f, locks
  <1>5. Fit(FlattenSeq(f), kn, n, R)
    BY <1>2, <1>3, <1>4, FitFlattened
  <1>6. QED
    BY <1>2, <1>5

\* Deleting what a person selected fits: the range is the selection.
LEMMA DeleteRangeFits ==
  ASSUME NEW p, NEW m, ProjectHolds(p, m), NEW range \in TimeRange, NEW kind, NEW words, NEW n,
         NEW ops, ops \in DeleteRange(p, range, kind, words, RequestName(n))
  PROVE  Fit(ops, p.known, n, range)
  <1> DEFINE candidate == [id |-> ManualId(RequestName(n)), range |-> range, kind |-> kind, words |-> words,
                           risk |-> "low", decision |-> "definite_remove", reason |-> "manual"]
             one == {candidate}
             id == "manual_set_" \o RequestName(n)
             selected == {candidate.id}
             clipId == CurrentClipId(p.doc, range)
  <1>1. ops \in Bundle(p, id, one, selected, clipId, {})
    BY DEF DeleteRange, Refusal
  <1>2. CandidatesFit(one, p.known, n, range)
    <2>1. IsFiniteSet({candidate})
      BY FS_Singleton
    <2>2. \A x \in one : x.id = Manual(n) /\ x.range = range
      BY DEF Manual
    <2>3. QED
      BY <2>1, <2>2 DEF CandidatesFit
  <1>0. id \in ArtifactIds(n) /\ "proposal_" \o id \in ArtifactIds(n)
    BY DEF ArtifactIds
  <1> HIDE DEF one, id, selected, clipId
  <1>3. QED
    BY <1>0, <1>1, <1>2, BundleFits

\* Deleting a selection of words fits.
LEMMA DeleteWordsFits ==
  ASSUME NEW p, NEW m, ProjectHolds(p, m), NEW from \in DOMAIN Words, NEW to \in DOMAIN Words, NEW n,
         NEW ops, ops \in DeleteWords(p, from, to, RequestName(n))
  PROVE  \E R : Fit(ops, p.known, n, R)
  <1> DEFINE range == [start |-> Words[from].start, dur |-> RangeEnd(Words[to]) - Words[from].start]
             words == from .. to
             kind == "words"
  <1>1. range \in TimeRange
    <2>1. Words[from] \in TimeRange /\ Words[to] \in TimeRange
      BY RangesTyped
    <2>2. Words[from].start \in Int /\ Words[to].start \in Int /\ Words[to].dur \in Int
      BY <2>1 DEF TimeRange
    <2>3. QED
      BY <2>2 DEF TimeRange, RangeEnd
  <1>2. ops \in DeleteRange(p, range, kind, words, RequestName(n))
    BY DEF DeleteWords
  <1> HIDE DEF range, words, kind
  <1>3. Fit(ops, p.known, n, range)
    BY <1>1, <1>2, DeleteRangeFits
  <1>4. QED
    BY <1>3

\* Deleting a speech gap fits.
LEMMA DeleteGapFits ==
  ASSUME NEW p, NEW m, ProjectHolds(p, m), NEW gap, NEW n, NEW ops, ops \in DeleteGap(p, gap, RequestName(n))
  PROVE  \E R : Fit(ops, p.known, n, R)
  <1>1. gap \in SpeechGaps(p.doc) /\ ops \in DeleteRange(p, gap, "gap", {}, RequestName(n))
    BY DEF DeleteGap, Refusal
  <1>2. PICK clip \in ClipsOf(p.doc) :
          /\ clip.src # NoRange /\ clip.enabled
          /\ gap \in Merged({[start |-> t, dur |-> 1] : t \in Instants(clip.src) \ Spoken})
    BY <1>1 DEF SpeechGaps
  <1>3. clip.src \in TimeRange
    BY <1>2, ClipsTyped DEF IsClip, ProjectHolds
  <1> DEFINE X == Instants(clip.src) \ Spoken
             f == [t \in X |-> [start |-> t, dur |-> 1]]
             ranges == {[start |-> t, dur |-> 1] : t \in X}
  <1>4. IsFiniteSet(X) /\ X \subseteq Int
    BY <1>3, InstantsFinite, FS_Subset
  <1>5. DOMAIN f = X /\ f = [t \in X |-> f[t]] /\ ranges = {f[t] : t \in X}
    OBVIOUS
  <1>6. \A r \in ranges : r \in TimeRange
    BY <1>4 DEF TimeRange
  <1> HIDE DEF X, f
  <1>7. IsFiniteSet(ranges)
    <2> HIDE DEF ranges
    <2>1. QED
      BY ONLY <1>4, <1>5, ImageFinite
  <1>8. gap \in Merged(ranges)
    BY <1>2 DEF X
  <1> HIDE DEF ranges
  <1>9. gap \in TimeRange
    BY <1>6, <1>7, <1>8, MergedApart DEF StartsApart
  <1>10. Fit(ops, p.known, n, gap)
    BY <1>1, <1>9, DeleteRangeFits
  <1>11. QED
    BY <1>10

\* What is found fits.
LEMMA FindingsFit ==
  ASSUME NEW found \in Findings, NEW kn, NEW n, NEW R
  PROVE  CandidatesFit(found, kn, n, R)
  BY FindingsTyped DEF CandidatesFit

\* What a semantic review suggests fits.
LEMMA SuggestFits ==
  ASSUME NEW p, NEW found \in Findings, NEW n, NEW R, NEW ops, ops \in Suggest(p, found, RequestName(n))
  PROVE  Fit(ops, p.known, n, R)
  <1> DEFINE id == "semantic_" \o RequestName(n)
             from == {}
             at == 0
  <1>1. PICK clip \in FirstClip(p.doc, FALSE) : ops = <<Put(p, id, NewSet(p, found, clip.id, from), at)>>
    BY DEF Suggest
  <1> DEFINE op == Put(p, id, NewSet(p, found, clip.id, from), at)
             clipId == clip.id
  <1>2. op = Put(p, id, NewSet(p, found, clipId, from), at) /\ ops = <<op>>
    BY <1>1
  <1>0. id \in ArtifactIds(n) /\ "proposal_" \o id \in ArtifactIds(n)
    BY DEF ArtifactIds
  <1> HIDE DEF op, id, from, at, clipId
  <1>3. CandidatesFit(found, p.known, n, R)
    BY FindingsFit
  <1>4. FitOperation(op, p.known, n, R)
    BY <1>0, <1>2, <1>3, PutSetFits
  <1>5. QED
    BY <1>2, <1>4, FitOne

\* What is generated of what was detected fits.
LEMMA GenerateFits ==
  ASSUME NEW p, NEW m, ProjectHolds(p, m), NEW found \in Findings, NEW n, NEW R,
         NEW ops, ops \in Generate(p, found, RequestName(n))
  PROVE  Fit(ops, p.known, n, R)
  <1> DEFINE id == "found_" \o RequestName(n)
             from == {}
             at == 0
             chosen == Definite(found)
  <1>1. PICK clip \in FirstClip(p.doc, TRUE) :
          \/ ops \in Bundle(p, id, found, chosen, clip.id, from)
          \/ ops = <<Put(p, id, NewSet(p, found, clip.id, from), at)>>
    BY DEF Generate, Compiled
  <1> DEFINE clipId == clip.id
             op == Put(p, id, NewSet(p, found, clipId, from), at)
  <1>2. ops \in Bundle(p, id, found, chosen, clipId, from) \/ ops = <<op>>
    BY <1>1
  <1>3. CandidatesFit(found, p.known, n, R)
    BY FindingsFit
  <1>4. op = Put(p, id, NewSet(p, found, clipId, from), at)
    OBVIOUS
  <1>0. id \in ArtifactIds(n) /\ "proposal_" \o id \in ArtifactIds(n)
    BY DEF ArtifactIds
  <1> HIDE DEF id, from, at, chosen, clipId, op
  <1>5. CASE ops \in Bundle(p, id, found, chosen, clipId, from)
    BY <1>0, <1>3, <1>5, BundleFits
  <1>6. CASE ops = <<op>>
    <2>1. FitOperation(op, p.known, n, R)
      BY <1>0, <1>3, <1>4, PutSetFits
    <2>2. QED
      BY <1>6, <2>1, FitOne
  <1>7. QED
    BY <1>2, <1>5, <1>6

\* An agent's transaction on the timeline fits: it adds no lock and no artifact.
LEMMA AgentEditFits ==
  ASSUME NEW ops, AgentEdit(ops), NEW kn, NEW n, NEW R
  PROVE  Fit(ops, kn, n, R)
  <1>1. IsSequence(ops) /\ \A op \in ToSet(ops) :
          IsOperation(op) /\ op.type \in OnClip \cup {"clip.insert", "range.deleteRipple"}
    BY DEF AgentEdit
  <1>2. \A op \in ToSet(ops) : op.type # "lock.add" /\ op.type # "library.put"
    BY <1>1 DEF OnClip
  <1>3. QED
    BY <1>1, <1>2 DEF Fit, FitOperation

-----------------------------------------------------------------------------
(***************************************************************************)
(* What is shown is finite, so that it is decided in some order.           *)
(***************************************************************************)
\* A project shows finitely many candidates.
LEMMA ShownFinite ==
  ASSUME NEW p, NEW n, ProjectHolds(p, n)
  PROVE  IsFiniteSet(Shown(p)) /\ IsFiniteSet(Sets(p))
  <1>1. DOMAIN p.doc.artifacts = 1 .. Len(p.doc.artifacts) /\ 1 \in Int /\ Len(p.doc.artifacts) \in Int
    BY DocumentFacts, SequenceFacts DEF ProjectHolds
  <1>2. IsFiniteSet(Sets(p))
    <2>1. IsFiniteSet(1 .. Len(p.doc.artifacts))
      BY ONLY <1>1, FS_Interval
    <2>2. Sets(p) \in SUBSET (1 .. Len(p.doc.artifacts))
      BY <1>1 DEF Sets
    <2>3. QED
      BY ONLY <2>1, <2>2, FS_Subset
  <1>3. ASSUME NEW i \in Sets(p) PROVE IsFiniteSet({c.id : c \in CandidatesOf(p, i)})
    <2> DEFINE X == CandidatesOf(p, i)
               f == [c \in X |-> c.id]
               Y == {c.id : c \in X}
    <2>1. p.doc.artifacts[i] \in SetIds(p.known)
      <3>1. p.doc.artifacts[i] \in ToSet(p.doc.artifacts) /\ p.known[p.doc.artifacts[i]].kind = "set"
        BY DEF ToSet, Sets
      <3>2. QED
        BY <3>1 DEF ProjectHolds, DocumentHolds, SetIds
    <2>2. IsFiniteSet(X)
      BY <2>1 DEF ProjectHolds, KnownHolds, CandidatesOf
    <2>3. DOMAIN f = X /\ f = [c \in X |-> f[c]] /\ Y = {f[c] : c \in X}
      OBVIOUS
    <2> HIDE DEF X, f, Y
    <2>4. IsFiniteSet(Y)
      BY ONLY <2>2, <2>3, ImageFinite
    <2>5. QED
      BY <2>4 DEF Y, X
  <1> DEFINE X == Sets(p)
             f == [i \in X |-> {c.id : c \in CandidatesOf(p, i)}]
             Y == {f[i] : i \in X}
  <1>4. DOMAIN f = X /\ f = [i \in X |-> f[i]] /\ Y = {f[i] : i \in X} /\ IsFiniteSet(X)
    BY <1>2
  <1>5. Shown(p) = UNION Y
    BY DEF Shown
  <1>6. \A y \in Y : IsFiniteSet(y)
    BY <1>3
  <1> HIDE DEF X, f, Y
  <1>7. IsFiniteSet(Y)
    BY ONLY <1>4, ImageFinite
  <1>8. QED
    BY <1>2, <1>5, <1>6, <1>7, FS_UNION

\* A review shows finitely many candidates.
LEMMA ReviewFinite ==
  ASSUME ReviewInv
  PROVE  IsFiniteSet(DOMAIN review)
  <1>1. CASE review = <<>>
    BY <1>1, FS_EmptySet
  <1>2. CASE review = Review(Project, records)
    <2>1. DOMAIN review = Shown(Project)
      BY <1>2 DEF Review
    <2>2. QED
      BY <2>1, ShownFinite DEF ReviewInv
  <1>3. QED
    BY <1>1, <1>2 DEF ReviewInv

\* The other members of a group, and what is undecided, are put in some order.
LEMMA GroupsOrdered ==
  ASSUME ReviewInv
  PROVE  /\ \A c : IsSequence(Members(review, c))
         /\ IsSequence(SetToSeq(Undecided(review)))
         /\ \A cs \in SUBSET Undecided(review) : IsSequence(SetToSeq(cs)) /\ ToSet(SetToSeq(cs)) \subseteq cs
  <1>1. \A X \in SUBSET Undecided(review) : IsFiniteSet(X)
    <2>1. \A X \in SUBSET Undecided(review) : X \in SUBSET (DOMAIN review)
      BY DEF Undecided
    <2>2. QED
      BY <2>1, ReviewFinite, FS_Subset
  <1>2. \A X \in SUBSET Undecided(review) : IsSequence(SetToSeq(X)) /\ ToSet(SetToSeq(X)) \subseteq X
    BY <1>1, Enumerated
  <1>3. \A c : Group(review, c) \ {c} \in SUBSET Undecided(review)
    BY DEF Group, Linked
  <1>4. QED
    BY <1>2, <1>3 DEF Members

-----------------------------------------------------------------------------
(***************************************************************************)
(* Committing: what is known only grows, and a lock that keeps a range     *)
(* keeps it.                                                               *)
(***************************************************************************)
Grows(kn, km) == DOMAIN kn \subseteq DOMAIN km /\ \A id \in DOMAIN kn : km[id] = kn[id]

\* What held of what was known holds when more is known.
LEMMA GrowsOn ==
  ASSUME NEW kn, NEW km, Grows(kn, km)
  PROVE  /\ AllCandidates(kn) \subseteq AllCandidates(km)
         /\ \A lock : Keeper(lock, kn) => Keeper(lock, km)
         /\ \A op : LoggedHolds(op, kn) => LoggedHolds(op, km)
  <1>1. AllCandidates(kn) \subseteq AllCandidates(km)
    BY DEF Grows, AllCandidates, SetIds
  <1>2. \A lock : Keeper(lock, kn) => Keeper(lock, km)
    BY <1>1 DEF Keeper
  <1>3. \A op : LoggedHolds(op, kn) => LoggedHolds(op, km)
    BY <1>2 DEF LoggedHolds, Grows
  <1>4. QED
    BY <1>1, <1>2, <1>3

\* What a transaction that fits teaches of an id that was not known.
LEMMA ContentFits ==
  ASSUME NEW ops, NEW kn, NEW n, NEW R, Fit(ops, kn, n, R), NEW id \in DOMAIN Contents(ops)
  PROVE  FitContent(Contents(ops)[id], kn, n, R) /\ id \in ArtifactIds(n)
  <1> DEFINE puts == {op \in ToSet(ops) : op.type = "library.put" /\ "content" \in DOMAIN op}
  <1>1. \A op \in puts : FitContent(op.content, kn, n, R) /\ op.object \in ArtifactIds(n)
    BY DEF Fit, FitOperation
  <1>2. DOMAIN Contents(ops) = {op.object : op \in puts} /\ Contents(ops)[id] = (CHOOSE op \in puts : op.object = id).content
    BY DEF Contents
  <1> HIDE DEF puts
  <1>3. \E op \in puts : op.object = id
    BY <1>2
  <1>4. QED
    BY <1>1, <1>2, <1>3

\* What is known after a transaction that fits is as it must be.
LEMMA LearnedHolds ==
  ASSUME NEW ops, NEW R, NEW n, n = Len(records) + 1, n \in 1 .. MaxRevision, Fit(ops, known, n, R),
         KnownHolds(known, Len(records)), NEW km, km = Learned(Contents(ops))
  PROVE  Grows(known, km) /\ KnownHolds(km, n)
  <1>1. /\ DOMAIN km = DOMAIN known \cup DOMAIN Contents(ops)
        /\ \A id \in DOMAIN km : km[id] = IF id \in DOMAIN known THEN known[id] ELSE Contents(ops)[id]
    BY DEF Learned
  <1>2. Grows(known, km)
    BY <1>1 DEF Grows
  <1>3. \A id \in DOMAIN km : id \in DOMAIN known \/ FitContent(km[id], known, n, R)
    BY <1>1, ContentFits
  <1> DEFINE New(c) == c \in AllCandidates(known) \/ c \in UNION Findings \/ (c.id = Manual(n) /\ c.range = R)
  <1>4. ASSUME NEW id \in SetIds(km)
        PROVE  IsFiniteSet(km[id].candidates) /\ \A c \in km[id].candidates : c.range \in TimeRange /\ New(c)
    <2>1. CASE id \in DOMAIN known
      <3>1. id \in SetIds(known) /\ km[id] = known[id]
        BY <1>1, <2>1 DEF SetIds
      <3>2. QED
        BY <3>1 DEF KnownHolds, AllCandidates
    <2>2. CASE id \notin DOMAIN known
      <3>1. km[id].kind = "set" /\ FitContent(km[id], known, n, R)
        BY <1>3, <2>2 DEF SetIds
      <3>2. QED
        BY <3>1 DEF FitContent
    <2>3. QED
      BY <2>1, <2>2
  <1>5. \A c \in AllCandidates(km) : c.range \in TimeRange /\ New(c)
    BY <1>4 DEF AllCandidates
  <1>6. \A c \in AllCandidates(known) : Found(c, Len(records))
    BY DEF KnownHolds
  <1>7. Len(records) \in Int /\ n \in Int
    BY <1>6
  <1> HIDE DEF New
  <1>8. \A c \in AllCandidates(km) : Found(c, n)
    <2> SUFFICES ASSUME NEW c \in AllCandidates(km) PROVE Found(c, n)
      OBVIOUS
    <2>1. CASE c \in AllCandidates(known)
      BY <1>6, <1>7, <2>1 DEF Found
    <2>2. CASE c \in UNION Findings
      BY <2>2 DEF Found
    <2>3. CASE c.id = Manual(n)
      BY <2>3 DEF Found
    <2>4. QED
      BY <1>5, <2>1, <2>2, <2>3 DEF New
  <1>9. ASSUME NEW c \in AllCandidates(km), NEW e \in AllCandidates(km), c.id = e.id PROVE c.range = e.range
    <2> DEFINE F(x) == x \in UNION Findings
               O(x) == \E m \in 1 .. n - 1 : x.id = Manual(m)
               K(x) == x \in AllCandidates(known)
               M(x) == x.id = Manual(n) /\ x.range = R
    <2>1. \A x : K(x) => F(x) \/ O(x)
      BY <1>6, <1>7 DEF Found
    <2>2. (K(c) \/ F(c) \/ M(c)) /\ (K(e) \/ F(e) \/ M(e))
      BY <1>5 DEF New
    <2> DEFINE k == n
    <2>12. k \in 1 .. MaxRevision /\ \A m \in 1 .. k - 1 : m \in 1 .. MaxRevision /\ m # k
      BY <1>7, SessionBounds
    <2>13. \A x \in UNION Findings : \A m \in 1 .. MaxRevision : x.id # Manual(m)
      BY RequestsNamed DEF Manual
    <2>14. \A i, j \in 1 .. MaxRevision : Manual(i) = Manual(j) => i = j
      BY RequestsNamed DEF Manual
    <2> HIDE DEF k
    <2>15. (\A x : F(x) => ~ (\E m \in 1 .. k - 1 : x.id = Manual(m)) /\ x.id # Manual(k))
           /\ \A x : (\E m \in 1 .. k - 1 : x.id = Manual(m)) => x.id # Manual(k)
      BY <2>12, <2>13, <2>14
    <2>3. \A x : F(x) => ~ O(x) /\ x.id # Manual(n)
      BY <2>15 DEF k
    <2>4. \A x : O(x) => x.id # Manual(n)
      BY <2>15 DEF k
    <2>5. K(c) /\ K(e) => c.range = e.range
      BY <1>9 DEF KnownHolds
    <2>6. F(c) /\ F(e) => c.range = e.range
      BY <1>9, FindingsNamed
    <2>7. F(c) => ~ O(e) /\ e.id # Manual(n)
      BY <1>9, <2>3, RequestsNamed, <1>7 DEF Manual
    <2>8. F(e) => ~ O(c) /\ c.id # Manual(n)
      BY <1>9, <2>3, RequestsNamed, <1>7 DEF Manual
    <2>9. O(c) => e.id # Manual(n)
      BY <1>9, <2>4
    <2>10. O(e) => c.id # Manual(n)
      BY <1>9, <2>4
    <2> HIDE DEF F, O, K
    <2>11. QED
      BY <2>1, <2>2, <2>5, <2>6, <2>7, <2>8, <2>9, <2>10
  <1>10. \A id \in DOMAIN km : \E m \in 1 .. n : id \in ArtifactIds(m)
    <2>1. \A id \in DOMAIN known : \E m \in 1 .. n - 1 : id \in ArtifactIds(m)
      BY <1>7 DEF KnownHolds
    <2>2. \A id \in DOMAIN Contents(ops) : id \in ArtifactIds(n)
      BY ContentFits
    <2>3. QED
      BY <1>1, <1>7, <2>1, <2>2
  <1>11. QED
    BY <1>2, <1>4, <1>5, <1>8, <1>9, <1>10 DEF KnownHolds

\* A transaction that fits, once committed, leaves everything as it must be,
\* and what its actor may not touch as it was.
LEMMA CommitHolds ==
  ASSUME ReviewInv, NEW actor, NEW compiled, NEW what, Commit(actor, compiled, what),
         \A ops \in compiled : \E R : Fit(ops, known, Len(records) + 1, R)
  PROVE  /\ ReviewInv'
         /\ \E ops \in compiled : \E inverse :
             /\ records' = Append(records, [what |-> what, actor |-> actor.kind, ops |-> ops, inverse |-> inverse])
             /\ known' = Learned(Contents(ops))
             /\ Keeps(doc, doc', actor, ToSet(ops))
        /\ Grows(known, known') /\ Len(records) + 1 \in 1 .. MaxRevision
  <1> DEFINE n == Len(records) + 1
  <1>1. IsSequence(records) /\ Len(records) \in Nat /\ MaxRevision \in Nat /\ n \in 1 .. MaxRevision
    <2>1. IsSequence(records) /\ Len(records) < MaxRevision
      BY DEF ReviewInv, RecordsHold, Commit, MoreRecords
    <2>2. Len(records) \in Nat /\ MaxRevision \in Nat
      BY <2>1, SequenceFacts, SessionBounds
    <2>3. QED
      BY <2>1, <2>2
  <1>2. PICK ops, result :
          /\ ops \in compiled /\ result = ApplyAll(doc, actor, ops) /\ result.ok
          /\ known' = Learned(Contents(ops)) /\ doc' = result.doc
          /\ records' = Append(records, [what |-> what, actor |-> actor.kind, ops |-> ops, inverse |-> result.inverse])
          /\ review' = Review([doc |-> doc', known |-> known', rev |-> Len(records')], records')
    BY DEF Commit
  <1>3. PICK R : Fit(ops, known, n, R)
    BY <1>2
  <1>4. /\ IsDocument(doc) /\ TracksUnique(doc) /\ DocumentHolds(doc, known) /\ KnownHolds(known, Len(records))
        /\ RecordsHold(records, known)
    BY DEF ReviewInv, ProjectHolds, Project
  <1>5. Grows(known, known') /\ KnownHolds(known', n)
    BY <1>1, <1>2, <1>3, <1>4, LearnedHolds
  <1> DEFINE L == ToSet(doc.locks) \cup {op.lock : op \in {o \in ToSet(ops) : o.type = "lock.add"}}
             A == DOMAIN known'
  <1>6. \A lock \in L : Keeper(lock, known')
    <2>1. \A lock \in L : Keeper(lock, known)
      BY <1>3, <1>4 DEF DocumentHolds, Fit, FitOperation
    <2>2. QED
      BY <1>5, <2>1, GrowsOn
  <1>7. DOMAIN known \subseteq A /\ DOMAIN Contents(ops) \subseteq A
    BY <1>2 DEF Learned
  <1>8. Stocked(doc, L, A)
    BY <1>4, <1>7 DEF Stocked, DocumentHolds
  <1>9. \A op \in ToSet(ops) : Supplies(op, L, A)
    <2> SUFFICES ASSUME NEW op \in ToSet(ops) PROVE Supplies(op, L, A)
      OBVIOUS
    <2>1. op.type = "lock.add" => op.lock \in L
      OBVIOUS
    <2>2. op.type = "library.put" /\ op.list = "artifacts" /\ "content" \notin DOMAIN op => op.object \in A
      BY <1>3, <1>7 DEF Fit, FitOperation
    <2>3. op.type = "library.put" /\ "content" \in DOMAIN op => op.object \in A
      BY <1>7 DEF Contents
    <2>4. QED
      BY <2>1, <2>2, <2>3 DEF Supplies
  <1>10. TypedInverse(ops)
    BY <1>3 DEF Fit, FitOperation, TypedInverse
  <1> HIDE DEF L, A
  <1>11. RunHolds(doc, actor, ToSet(ops), result) /\ RunSupplied(L, A, result)
    BY <1>2, <1>4, <1>8, <1>9, <1>10, TransactionHolds
  <1> DEFINE record == [what |-> what, actor |-> actor.kind, ops |-> ops, inverse |-> result.inverse]
  <1>12. record.inverse = result.inverse /\ records' = Append(records, record)
    BY <1>2
  <1> HIDE DEF record
  <1>13. IsSequence(records') /\ Len(records') = n
    <2>1. records \in Seq(ToSet(records) \cup {record})
      BY <1>1 DEF IsSequence, ToSet
    <2>2. records' \in Seq(ToSet(records) \cup {record}) /\ Len(records') = n
      BY <1>12, <2>1
    <2>3. QED
      BY <2>2, SequenceOfElements
  <1>14. \A i \in DOMAIN records' : (i \in DOMAIN records /\ records'[i] = records[i]) \/ records'[i] = record
    <2>1. DOMAIN records = 1 .. Len(records) /\ records \in Seq(ToSet(records))
      BY <1>1, SequenceFacts
    <2>2. QED
      BY <1>12, <2>1
  <1>15. RecordsHold(records', known')
    <2>1. ASSUME NEW i \in DOMAIN records
          PROVE  TypedInverse(records[i].inverse) /\ \A op \in ToSet(records[i].inverse) : LoggedHolds(op, known')
      BY <1>4, <1>5, GrowsOn DEF RecordsHold
    <2>2. TypedInverse(result.inverse) /\ \A op \in ToSet(result.inverse) : LoggedHolds(op, known')
      BY <1>6, <1>11 DEF RunHolds, RunSupplied, AllTakeBack, TakesBack, Supplies, LoggedHolds, A
    <2>3. QED
      BY <1>1, <1>12, <1>13, <1>14, <2>1, <2>2 DEF RecordsHold
  <1>16. ProjectHolds(Project', Len(records'))
    <2>1. DocumentHolds(result.doc, known')
      BY <1>6, <1>11 DEF RunSupplied, Stocked, DocumentHolds, A
    <2>2. IsDocument(result.doc) /\ TracksUnique(result.doc)
      BY <1>11 DEF RunHolds
    <2>3. QED
      BY <1>2, <1>5, <1>13, <2>1, <2>2 DEF ProjectHolds, Project
  <1>17. review' = Review(Project', records')
    BY <1>2 DEF Project
  <1>18. Keeps(doc, doc', actor, ToSet(ops))
    BY <1>2, <1>11 DEF RunHolds
  <1>19. QED
    BY <1>1, <1>2, <1>5, <1>15, <1>16, <1>17, <1>18 DEF ReviewInv

\* What a step of no person leaves of what the locks of a person keep.
ByMachine == Len(records') > Len(records) /\ Last(records').actor # "user"
MachineKeeps ==
  ByMachine => \E actor \in {Workflow, Agent} : Keeps(doc, doc', actor, ToSet(Last(records').ops))

\* A transaction that fits is recorded as its actor's.
LEMMA CommitRecorded ==
  ASSUME ReviewInv, NEW actor \in {User, Workflow, Agent}, NEW compiled, NEW what, Commit(actor, compiled, what),
         \A ops \in compiled : \E R : Fit(ops, known, Len(records) + 1, R)
  PROVE  ReviewInv' /\ MachineKeeps
  <1>1. ReviewInv'
    BY CommitHolds
  <1>2. PICK record : /\ record.actor = actor.kind /\ records' = Append(records, record)
                      /\ Keeps(doc, doc', actor, ToSet(record.ops))
    <2>1. PICK ops, inverse :
            /\ records' = Append(records, [what |-> what, actor |-> actor.kind, ops |-> ops, inverse |-> inverse])
            /\ Keeps(doc, doc', actor, ToSet(ops))
      BY CommitHolds
    <2> DEFINE record == [what |-> what, actor |-> actor.kind, ops |-> ops, inverse |-> inverse]
    <2>2. record.ops = ops /\ record.actor = actor.kind /\ records' = Append(records, record)
      BY <2>1
    <2> HIDE DEF record
    <2>3. QED
      BY <2>1, <2>2
  <1>3. Last(records') = record
    <2>1. records \in Seq(ToSet(records) \cup {record})
      BY SequenceFacts DEF ReviewInv, RecordsHold, IsSequence, ToSet
    <2>2. QED
      BY <1>2, <2>1 DEF Last
  <1>4. actor # User => actor \in {Workflow, Agent}
    OBVIOUS
  <1>5. actor = User => Last(records').actor = "user"
    BY <1>2, <1>3 DEF User
  <1>6. QED
    BY <1>1, <1>2, <1>3, <1>4, <1>5 DEF MachineKeeps, ByMachine

\* A step that commits nothing.
LEMMA NothingCommitted ==
  ASSUME ReviewInv, UNCHANGED <<doc, known, records, review>>
  PROVE  ReviewInv' /\ MachineKeeps
  <1>1. ReviewInv'
    BY DEF ReviewInv, Project
  <1>2. Len(records) \in Nat
    BY SequenceFacts DEF ReviewInv, RecordsHold
  <1>3. QED
    BY <1>1, <1>2 DEF MachineKeeps, ByMachine

\* The kinds of steps: one that commits nothing, one that commits a transaction
\* that fits and is no suggestion, and one that puts what a review came to.
Quiet ==
  /\ UNCHANGED <<doc, known, records, review>>
  /\ UNCHANGED job \/ BeginSemanticReview \/ FailSemanticReview \/ Restart
Committed(what) ==
  \E compiled : \E actor \in {User, Workflow, Agent} :
    Commit(actor, compiled, what) /\ \A ops \in compiled : \E R : Fit(ops, known, Len(records) + 1, R)
Decision == UNCHANGED job /\ \E what : what # "suggest" /\ Committed(what)
ReviewPut == (PutFindings \/ SubmitFindings) /\ Committed("suggest")

\* Every step is of one of these kinds.
LEMMA StepKinds ==
  ASSUME ReviewInv, [Next]_vars
  PROVE  Quiet \/ Decision \/ ReviewPut
  <1> DEFINE n == Len(records) + 1
             p == Project
  <1>1. ProjectHolds(p, Len(records)) /\ p.known = known /\ p.doc = doc /\ Request = RequestName(n)
    BY DEF ReviewInv, Project, Request
  <1>2. /\ \A c : IsSequence(Members(review, c))
        /\ IsSequence(SetToSeq(Undecided(review)))
        /\ \A cs \in SUBSET Undecided(review) : IsSequence(SetToSeq(cs)) /\ ToSet(SetToSeq(cs)) \subseteq cs
    BY GroupsOrdered
  <1> DEFINE FitAll(compiled) == \A ops \in compiled : \E R : Fit(ops, known, n, R)
  <1>3. ASSUME NEW actor \in {User, Workflow, Agent}, NEW compiled, NEW what, Commit(actor, compiled, what), FitAll(compiled)
        PROVE  Committed(what)
    BY <1>3 DEF Committed
  <1>4. ASSUME NEW compiled, NEW what, Decide(compiled, what), FitAll(compiled), what # "suggest"
        PROVE  Decision
    BY <1>3, <1>4 DEF Decide, Decision
  <1> HIDE DEF p
  <1>5. ASSUME NEW c, NEW confirmed, AcceptCandidate(c, confirmed) PROVE Quiet \/ Decision \/ ReviewPut
    <2>1. FitAll(Accept(p, c, Members(review, c), confirmed, Request))
      BY <1>1, <1>2, AcceptFits
    <2>2. Decide(Accept(p, c, Members(review, c), confirmed, Request), "accept")
      BY <1>5 DEF AcceptCandidate, p
    <2>3. QED
      BY <1>4, <2>1, <2>2
  <1>6. ASSUME NEW c, KeepCandidate(c) PROVE Quiet \/ Decision \/ ReviewPut
    <2>1. FitAll(Keep(p, c, Members(review, c)))
      BY <1>1, <1>2, KeepFits
    <2>2. Decide(Keep(p, c, Members(review, c)), "keep")
      BY <1>6 DEF KeepCandidate, p
    <2>3. QED
      BY <1>4, <2>1, <2>2
  <1>7. ASSUME NEW cs \in SUBSET Undecided(review), AcceptMany(cs) PROVE Quiet \/ Decision \/ ReviewPut
    <2> DEFINE s == SetToSeq(cs)
               membersOf == [c \in cs |-> Members(review, c)]
    <2>1. IsSequence(s) /\ \A c \in ToSet(s) : IsSequence(membersOf[c])
      BY <1>2
    <2>2. Decide(AcceptBatch(p, s, membersOf, Request), "accept")
      BY <1>7 DEF AcceptMany, p
    <2> HIDE DEF s, membersOf
    <2>3. FitAll(AcceptBatch(p, s, membersOf, Request))
      BY <1>1, <2>1, AcceptBatchFits
    <2>4. QED
      BY <1>4, <2>2, <2>3
  <1>8. ASSUME KeepRemaining PROVE Quiet \/ Decision \/ ReviewPut
    <2> DEFINE s == SetToSeq(Undecided(review))
    <2>1. IsSequence(s)
      BY <1>2
    <2>2. Decide(KeepBatch(p, s), "keep")
      BY <1>8 DEF KeepRemaining, p
    <2> HIDE DEF s
    <2>3. FitAll(KeepBatch(p, s))
      BY <1>1, <2>1, KeepBatchFits
    <2>4. QED
      BY <1>4, <2>2, <2>3
  <1>9. ASSUME NEW lockId, UnlockReview(lockId) PROVE Quiet \/ Decision \/ ReviewPut
    <2>1. FitAll(Unlock(doc, lockId))
      BY <1>1, UnlockFits DEF ProjectHolds
    <2>2. QED
      BY <1>4, <1>9, <2>1 DEF UnlockReview
  <1>10. ASSUME DeleteSelection PROVE Quiet \/ Decision \/ ReviewPut
    <2>1. PICK from \in DOMAIN Words, to \in DOMAIN Words : Decide(DeleteWords(p, from, to, Request), "manual")
      BY <1>10 DEF DeleteSelection, p
    <2>2. FitAll(DeleteWords(p, from, to, Request))
      BY <1>1, DeleteWordsFits
    <2>3. QED
      BY <1>4, <2>1, <2>2
  <1>11. ASSUME NEW gap, DeleteSpeechGap(gap) PROVE Quiet \/ Decision \/ ReviewPut
    <2>1. FitAll(DeleteGap(p, gap, Request))
      BY <1>1, DeleteGapFits
    <2>2. Decide(DeleteGap(p, gap, Request), "manual")
      BY <1>11 DEF DeleteSpeechGap, p
    <2>3. QED
      BY <1>4, <2>1, <2>2
  <1>12. ASSUME NEW i \in DOMAIN records, Restore(i) PROVE Quiet \/ Decision \/ ReviewPut
    <2>1. FitAll(Compiled(records[i].inverse))
      BY FitLogged DEF ReviewInv, Compiled
    <2>2. Commit(User, Compiled(records[i].inverse), "restore") /\ UNCHANGED job
      BY <1>12 DEF Restore
    <2>3. QED
      BY <1>3, <2>1, <2>2 DEF Decision
  <1>13. ASSUME GenerateRoughCut PROVE Quiet \/ Decision \/ ReviewPut
    <2>1. FitAll(Generate(p, Detected, Request))
      BY <1>1, GenerateFits DEF Findings
    <2>2. Commit(Workflow, Generate(p, Detected, Request), "generate") /\ UNCHANGED job
      BY <1>13 DEF GenerateRoughCut, p
    <2>3. QED
      BY <1>3, <2>1, <2>2 DEF Decision
  <1>14. ASSUME BeginSemanticReview \/ FailSemanticReview \/ Restart PROVE Quiet \/ Decision \/ ReviewPut
    BY <1>14 DEF Quiet, BeginSemanticReview, FailSemanticReview, Restart
  <1>15. ASSUME PutFindings PROVE Quiet \/ Decision \/ ReviewPut
    <2>1. PICK found \in LocalReviews : Commit(Workflow, Suggest(p, found, Request), "suggest")
      BY <1>15 DEF PutFindings, p
    <2>2. FitAll(Suggest(p, found, Request))
      BY <1>1, SuggestFits DEF Findings
    <2>3. QED
      BY <1>3, <1>15, <2>1, <2>2 DEF ReviewPut
  <1>16. ASSUME SubmitFindings PROVE Quiet \/ Decision \/ ReviewPut
    <2>1. PICK found \in AgentReviews : Commit(Agent, Suggest(p, found, Request), "suggest")
      BY <1>16 DEF SubmitFindings, p
    <2>2. FitAll(Suggest(p, found, Request))
      BY <1>1, SuggestFits DEF Findings
    <2>3. QED
      BY <1>3, <1>16, <2>1, <2>2 DEF ReviewPut
  <1>17. ASSUME NEW ops, AgentEdit(ops) PROVE Quiet \/ Decision \/ ReviewPut
    <2>1. Fit(ops, known, n, None)
      BY <1>17, AgentEditFits
    <2>2. FitAll(Compiled(ops))
      BY <2>1 DEF Compiled
    <2>3. Commit(Agent, Compiled(ops), "agent") /\ UNCHANGED job
      BY <1>17 DEF AgentEdit
    <2>4. QED
      BY <1>3, <2>2, <2>3 DEF Decision
  <1>18. ASSUME UNCHANGED vars PROVE Quiet \/ Decision \/ ReviewPut
    BY <1>18 DEF Quiet, vars
  <1> HIDE DEF FitAll
  <1>19. QED
    BY <1>5, <1>6, <1>7, <1>8, <1>9, <1>10, <1>11, <1>12, <1>13, <1>14, <1>15, <1>16, <1>17, <1>18 DEF Next

\* Every step keeps everything as it must be.
LEMMA ReviewStep ==
  ASSUME ReviewInv, [Next]_vars
  PROVE  ReviewInv' /\ MachineKeeps
  <1>1. CASE Quiet
    BY <1>1, NothingCommitted DEF Quiet
  <1>2. ASSUME NEW what, Committed(what) PROVE ReviewInv' /\ MachineKeeps
    BY <1>2, CommitRecorded DEF Committed
  <1>3. QED
    BY <1>1, <1>2, StepKinds DEF Decision, ReviewPut

-----------------------------------------------------------------------------
(***************************************************************************)
(* What a semantic review puts.                                            *)
(***************************************************************************)
\* A record of a suggestion: it put one set, of what one review came to.
PutsFound(record, kn) ==
  \E op \in ToSet(record.ops) :
    /\ ToSet(record.ops) = {op} /\ op.type = "library.put" /\ op.object \in DOMAIN kn
    /\ kn[op.object].candidates \in LocalReviews \cup AgentReviews
IsReview(record) == record.what = "suggest" /\ record.actor = "workflow"

SuggestInv ==
  /\ \A i \in DOMAIN records : records[i].what = "suggest" => PutsFound(records[i], known)
  /\ job \in [status : {"none", "running", "succeeded", "failed"}, rev : Nat, served : BOOLEAN]
  /\ job.served => job.status = "running"
  /\ \A i \in DOMAIN records : IsReview(records[i]) => i = job.rev + 1
  /\ job.status = "succeeded" => job.rev + 1 \in DOMAIN records /\ IsReview(records[job.rev + 1])
  /\ job.status = "none" \/ job.served => \A i \in DOMAIN records : ~ IsReview(records[i])

\* A record that is appended is the last; the others stay.
LEMMA RecordsGrow ==
  ASSUME NEW log, IsSequence(log), NEW record, NEW longer, longer = Append(log, record)
  PROVE  /\ DOMAIN longer = DOMAIN log \cup {Len(log) + 1} /\ Len(log) + 1 \notin DOMAIN log
         /\ longer[Len(log) + 1] = record /\ \A i \in DOMAIN log : longer[i] = log[i]
  <1>1. log \in Seq(ToSet(log) \cup {record}) /\ DOMAIN log = 1 .. Len(log) /\ Len(log) \in Nat
    BY SequenceFacts DEF IsSequence, ToSet
  <1>2. QED
    BY <1>1

\* A transaction that is no suggestion, besides the job, leaves the suggestions
\* as they were.
LEMMA SuggestionsStay ==
  ASSUME ReviewInv, SuggestInv, NEW actor, NEW compiled, NEW what, Commit(actor, compiled, what),
         \A ops \in compiled : \E R : Fit(ops, known, Len(records) + 1, R), what # "suggest", UNCHANGED job
  PROVE  SuggestInv'
  <1>1. PICK record : record.what = what /\ records' = Append(records, record) /\ Grows(known, known')
    <2>1. PICK ops, inverse : /\ records' = Append(records, [what |-> what, actor |-> actor.kind, ops |-> ops, inverse |-> inverse])
                              /\ Grows(known, known')
      BY CommitHolds
    <2>2. QED
      BY <2>1
  <1>2. IsSequence(records)
    BY DEF ReviewInv, RecordsHold
  <1>3. /\ DOMAIN records' = DOMAIN records \cup {Len(records) + 1}
        /\ records'[Len(records) + 1] = record /\ \A i \in DOMAIN records : records'[i] = records[i]
        /\ Len(records) + 1 \notin DOMAIN records
    BY <1>1, <1>2, RecordsGrow
  <1>4. \A i \in DOMAIN records : PutsFound(records[i], known) => PutsFound(records[i], known')
    BY <1>1 DEF PutsFound, Grows
  <1>5. QED
    BY <1>1, <1>3, <1>4 DEF SuggestInv, IsReview

\* A suggestion puts what its review came to.
LEMMA SuggestionRecorded ==
  ASSUME ReviewInv, SuggestInv, NEW actor, NEW found \in LocalReviews \cup AgentReviews,
         Commit(actor, Suggest(Project, found, Request), "suggest")
  PROVE  \E record :
           /\ record.what = "suggest" /\ record.actor = actor.kind /\ records' = Append(records, record)
           /\ PutsFound(record, known') /\ Grows(known, known')
  <1> DEFINE n == Len(records) + 1
             id == "semantic_" \o RequestName(n)
             compiled == Suggest(Project, found, Request)
  <1>1. \A ops \in compiled : \E R : Fit(ops, known, n, R)
    <2>1. Project.known = known /\ Request = RequestName(n) /\ found \in Findings
      BY DEF Project, Request, Findings
    <2> HIDE DEF n
    <2>2. \A ops \in compiled : Fit(ops, Project.known, n, None)
      BY <2>1, SuggestFits
    <2>3. QED
      BY <2>1, <2>2
  <1>2. PICK ops, inverse :
          /\ ops \in compiled /\ known' = Learned(Contents(ops)) /\ Grows(known, known')
          /\ records' = Append(records, [what |-> "suggest", actor |-> actor.kind, ops |-> ops, inverse |-> inverse])
          /\ n \in 1 .. MaxRevision
    BY <1>1, CommitHolds
  <1>3. PICK clip : ops = <<Put(Project, id, NewSet(Project, found, clip, {}), 0)>>
    BY <1>2 DEF Suggest, Request
  <1> DEFINE op == Put(Project, id, NewSet(Project, found, clip, {}), 0)
  <1>4. op.type = "library.put" /\ op.object = id /\ "content" \in DOMAIN op /\ op.content.candidates = found
    BY DEF Put, NewSet
  <1>5. ToSet(ops) = {op}
    <2>1. ops = <<op>>
      BY <1>3
    <2> HIDE DEF op
    <2>2. QED
      BY <2>1, OneElement
  <1> HIDE DEF op
  <1>6. DOMAIN Contents(ops) = {id} /\ Contents(ops)[id] = op.content
    <2> DEFINE puts == {o \in ToSet(ops) : o.type = "library.put" /\ "content" \in DOMAIN o}
    <2>1. puts = {op}
      BY <1>4, <1>5
    <2>2. Contents(ops) = [x \in {o.object : o \in puts} |-> (CHOOSE o \in puts : o.object = x).content]
      BY DEF Contents
    <2>3. {o.object : o \in puts} = {id}
      BY <1>4, <2>1
    <2>4. (CHOOSE o \in puts : o.object = id) = op
      BY <1>4, <2>1
    <2> HIDE DEF puts, id
    <2>5. QED
      BY <2>2, <2>3, <2>4
  <1>7. id \notin DOMAIN known
    <2>1. id \in ArtifactIds(n)
      BY DEF ArtifactIds
    <2>2. Len(records) \in Nat
      BY SequenceFacts DEF ReviewInv, RecordsHold
    <2>3. \A m \in 1 .. Len(records) : m \in 1 .. MaxRevision /\ m # n
      BY <1>2, <2>2, SessionBounds
    <2>4. \A x \in DOMAIN known : \E m \in 1 .. Len(records) : x \in ArtifactIds(m)
      BY DEF ReviewInv, ProjectHolds, KnownHolds, Project
    <2> HIDE DEF n, id
    <2>5. QED
      BY <1>2, <2>1, <2>3, <2>4, RequestsNamed
  <1> DEFINE record == [what |-> "suggest", actor |-> actor.kind, ops |-> ops, inverse |-> inverse]
  <1>8. record.what = "suggest" /\ record.actor = actor.kind /\ record.ops = ops /\ records' = Append(records, record)
    BY <1>2
  <1> HIDE DEF record, id, n
  <1>9. id \in DOMAIN known' /\ known'[id].candidates = found
    BY <1>2, <1>4, <1>6, <1>7 DEF Learned
  <1>10. PutsFound(record, known')
    BY <1>4, <1>5, <1>8, <1>9 DEF PutsFound
  <1>11. QED
    BY <1>2, <1>8, <1>10

\* Every step leaves the suggestions as they were reviewed.
LEMMA SuggestStep ==
  ASSUME ReviewInv, SuggestInv, [Next]_vars
  PROVE  SuggestInv'
  <1>1. IsSequence(records) /\ DOMAIN records = 1 .. Len(records) /\ Len(records) \in Nat
    BY SequenceFacts DEF ReviewInv, RecordsHold
  <1>2. CASE Quiet
    <2>1. CASE UNCHANGED job
      BY <1>2, <2>1 DEF Quiet, SuggestInv
    <2>2. CASE BeginSemanticReview
      <3>1. job.status = "none" /\ job' = [status |-> "running", rev |-> Len(records), served |-> TRUE]
        BY <2>2 DEF BeginSemanticReview
      <3>2. QED
        BY <1>1, <1>2, <3>1 DEF Quiet, SuggestInv
    <2>3. CASE FailSemanticReview \/ Restart
      <3>1. PICK status \in {"failed", "running"} :
              job.served /\ job.status = "running" /\ job' = [status |-> status, rev |-> job.rev, served |-> FALSE]
        BY <2>3 DEF FailSemanticReview, Restart, Served, SuggestInv
      <3>2. QED
        BY <1>2, <3>1 DEF Quiet, SuggestInv
    <2>4. QED
      BY <1>2, <2>1, <2>2, <2>3 DEF Quiet
  <1>3. CASE Decision
    BY <1>3, SuggestionsStay DEF Decision, Committed
  <1>4. ASSUME PutFindings \/ SubmitFindings PROVE SuggestInv'
    <2>1. PICK actor \in {Workflow, Agent}, found \in LocalReviews \cup AgentReviews :
            /\ Commit(actor, Suggest(Project, found, Request), "suggest")
            /\ actor = Workflow => PutFindings
            /\ actor = Agent => UNCHANGED job
      BY <1>4 DEF PutFindings, SubmitFindings, Workflow, Agent
    <2>2. PICK record :
            /\ record.what = "suggest" /\ record.actor = actor.kind /\ records' = Append(records, record)
            /\ PutsFound(record, known') /\ Grows(known, known')
      BY <2>1, SuggestionRecorded
    <2> DEFINE n == Len(records) + 1
    <2>3. /\ DOMAIN records' = DOMAIN records \cup {n} /\ n \notin DOMAIN records
          /\ records'[n] = record /\ \A i \in DOMAIN records : records'[i] = records[i]
      BY <1>1, <2>2, RecordsGrow
    <2>4. \A i \in DOMAIN records : PutsFound(records[i], known) => PutsFound(records[i], known')
      BY <2>2 DEF PutsFound, Grows
    <2> HIDE DEF n
    <2>5. \A i \in DOMAIN records' : records'[i].what = "suggest" => PutsFound(records'[i], known')
      BY <2>2, <2>3, <2>4 DEF SuggestInv
    <2>6. CASE actor = Agent
      BY <2>1, <2>2, <2>3, <2>5, <2>6 DEF SuggestInv, IsReview, Agent
    <2>7. CASE actor = Workflow
      <3>1. PICK status \in {"succeeded", "failed", "running"} :
              /\ job.served /\ job.status = "running" /\ job.rev + 1 = n
              /\ job' = [status |-> status, rev |-> job.rev, served |-> FALSE]
        BY <2>1, <2>7 DEF PutFindings, Served, SuggestInv, n
      <3>2. IsReview(record) /\ \A i \in DOMAIN records : ~ IsReview(records[i])
        BY <2>2, <2>7, <3>1 DEF SuggestInv, IsReview, Workflow
      <3>3. \A i \in DOMAIN records' : IsReview(records'[i]) <=> i = n
        BY <2>3, <3>2
      <3>4. QED
        BY <2>3, <2>5, <3>1, <3>3 DEF SuggestInv
    <2>8. QED
      BY <2>6, <2>7
  <1>5. QED
    BY <1>2, <1>3, <1>4, StepKinds DEF ReviewPut

-----------------------------------------------------------------------------
(***************************************************************************)
(* What is shown as kept is kept by a lock.                                *)
(***************************************************************************)
\* Of finitely many sets, the last of those in which a candidate got furthest.
LEMMA FurthestExists ==
  ASSUME NEW X, IsFiniteSet(X), X # {}, \A x \in X : x \in Int, NEW pr, \A x \in X : pr[x] \in Int
  PROVE  \E x \in X : \A y \in X : pr[x] > pr[y] \/ (pr[x] = pr[y] /\ x >= y)
  <1> DEFINE key == [x \in X |-> 0 - pr[x]]
  <1>1. \A x \in X : key[x] \in Int /\ key[x] = 0 - pr[x]
    OBVIOUS
  <1> HIDE DEF key
  <1>2. PICK a \in X : \A y \in X : key[a] <= key[y]
    BY <1>1, FiniteHasLeast
  <1>3. \A y \in X : pr[a] >= pr[y]
    BY <1>1, <1>2
  <1> DEFINE Y == {y \in X : pr[y] = pr[a]}
             late == [y \in Y |-> 0 - y]
  <1>4. IsFiniteSet(Y) /\ Y # {}
    <2>1. Y \in SUBSET X /\ a \in Y /\ IsFiniteSet(X)
      OBVIOUS
    <2>2. QED
      BY <2>1, FS_Subset
  <1>5. \A y \in Y : late[y] \in Int /\ late[y] = 0 - y
    OBVIOUS
  <1> HIDE DEF late
  <1>6. PICK b \in Y : \A y \in Y : late[b] <= late[y]
    <2> HIDE DEF Y
    <2>1. QED
      BY <1>4, <1>5, FiniteHasLeast
  <1>7. \A y \in Y : b >= y
    BY <1>5, <1>6
  <1>8. QED
    BY <1>3, <1>7

\* A candidate as one set has it.
LEMMA InSetFacts ==
  ASSUME NEW p, NEW log, NEW i, NEW c, i \in SetsWith(p, c)
  PROVE  LET shown == InSet(p, log, i, c)
         IN  /\ shown.candidate \in CandidatesOf(p, i) /\ shown.candidate.id = c /\ shown.set = i
             /\ shown.state \in DOMAIN Priority
             /\ shown.state = "reviewed_keep" => ReviewLocks(p.doc, c) # {}
  <1> DEFINE keeps == ReviewLocks(p.doc, c)
             commits == CommitOf(p, log, p.doc.artifacts[i], c)
             Form(x) == IF commits # {} THEN Decided(p, i, x, commits)
                        ELSE IF keeps # {} THEN [Open(p, i, x) EXCEPT !.lock = p.doc.locks[Max(keeps)].id,
                                                                      !.state = "reviewed_keep"]
                        ELSE Open(p, i, x)
             X == {x \in CandidatesOf(p, i) : x.id = c}
             forms == {Form(x) : x \in X}
  <1>1. InSet(p, log, i, c) = CHOOSE shown \in forms : TRUE
    <2> DEFINE all == {IF cs # {} THEN Decided(p, i, x, cs)
                       ELSE IF ks # {} THEN [Open(p, i, x) EXCEPT !.lock = p.doc.locks[Max(ks)].id,
                                                                  !.state = "reviewed_keep"]
                       ELSE Open(p, i, x) : x \in X, cs \in {commits}, ks \in {keeps}}
    <2>1. InSet(p, log, i, c) = CHOOSE shown \in all : TRUE
      BY DEF InSet
    <2>2. all = forms
      OBVIOUS
    <2> HIDE DEF all, forms
    <2>3. QED
      BY <2>1, <2>2
  <1>2. X # {}
    BY DEF SetsWith, Holds
  <1>3. \E shown \in forms : TRUE
    BY <1>2
  <1> DEFINE it == InSet(p, log, i, c)
  <1>4. it \in forms
    <2> HIDE DEF forms
    <2>1. QED
      BY <1>1, <1>3
  <1>5. PICK x \in X : it = Form(x)
    BY <1>4
  <1>6. /\ Form(x).candidate = x /\ Form(x).set = i
        /\ Form(x).state \in {"committed_deleted", "reviewed_keep", "candidate_keep", "candidate_remove"}
        /\ Form(x).state = "reviewed_keep" => keeps # {}
    <2>1. /\ Open(p, i, x).candidate = x /\ Open(p, i, x).set = i
          /\ Open(p, i, x).state \in {"candidate_keep", "candidate_remove"}
      BY DEF Open
    <2>2. /\ Decided(p, i, x, commits).candidate = x /\ Decided(p, i, x, commits).set = i
          /\ Decided(p, i, x, commits).state = "committed_deleted"
      BY DEF Decided
    <2> DEFINE kept == [Open(p, i, x) EXCEPT !.lock = p.doc.locks[Max(keeps)].id, !.state = "reviewed_keep"]
    <2>3. kept.candidate = x /\ kept.set = i /\ kept.state = "reviewed_keep"
      BY DEF Open
    <2> HIDE DEF keeps, commits, kept
    <2>4. \/ Form(x) = Decided(p, i, x, commits)
          \/ Form(x) = kept /\ keeps # {}
          \/ Form(x) = Open(p, i, x)
      BY DEF kept
    <2> HIDE DEF Form
    <2>5. CASE Form(x) = Decided(p, i, x, commits)
      BY <2>2, <2>5
    <2>6. CASE Form(x) = kept /\ keeps # {}
      BY <2>3, <2>6
    <2>7. CASE Form(x) = Open(p, i, x)
      BY <2>1, <2>7
    <2>8. QED
      BY <2>4, <2>5, <2>6, <2>7
  <1>7. DOMAIN Priority = {"committed_deleted", "reviewed_keep", "candidate_keep", "candidate_remove"}
    BY DEF Priority
  <1> HIDE DEF Form
  <1>8. QED
    BY <1>5, <1>6, <1>7

\* A candidate that is shown has one of the forms its sets give it.
LEMMA ReviewFacts ==
  ASSUME NEW p, NEW n, ProjectHolds(p, n), NEW log, NEW c \in Shown(p)
  PROVE  \E i \in SetsWith(p, c) : Review(p, log)[c] = InSet(p, log, i, c)
  <1> DEFINE X == SetsWith(p, c)
             At(i) == InSet(p, log, i, c)
             pr == [i \in X |-> Priority[At(i).state]]
             Of == {At(i) : i \in X}
             Further(a, b) == \/ Priority[a.state] > Priority[b.state]
                              \/ Priority[a.state] = Priority[b.state] /\ a.set >= b.set
  <1>1. X \in SUBSET Sets(p) /\ X # {}
    BY DEF Shown, SetsWith, Holds
  <1>2. IsFiniteSet(X)
    <2>1. IsFiniteSet(Sets(p))
      BY ShownFinite
    <2>2. QED
      BY ONLY <1>1, <2>1, FS_Subset
  <1>3. \A x \in X : x \in Int
    <2>1. DOMAIN p.doc.artifacts = 1 .. Len(p.doc.artifacts) /\ Len(p.doc.artifacts) \in Int
      BY DocumentFacts, SequenceFacts DEF ProjectHolds
    <2>2. QED
      BY <1>1, <2>1 DEF Sets
  <1>4. \A i \in X : At(i).set = i /\ At(i).state \in DOMAIN Priority
    BY InSetFacts
  <1>5. \A i \in X : pr[i] \in Int /\ pr[i] = Priority[At(i).state]
    <2>1. \A state \in DOMAIN Priority : Priority[state] \in Int
      BY DEF Priority
    <2>2. QED
      BY <1>4, <2>1
  <1>6. Review(p, log)[c] = CHOOSE shown \in Of : \A other \in Of : Further(shown, other)
    BY DEF Review
  <1> HIDE DEF X, pr, At
  <1>7. PICK x \in X : \A y \in X : pr[x] > pr[y] \/ (pr[x] = pr[y] /\ x >= y)
    BY <1>1, <1>2, <1>3, <1>5, FurthestExists
  <1>8. \E shown \in Of : \A other \in Of : Further(shown, other)
    <2>1. \A y \in X : Further(At(x), At(y))
      BY <1>4, <1>5, <1>7
    <2>2. QED
      BY <2>1
  <1> HIDE DEF Further
  <1>9. Review(p, log)[c] \in Of
    <2> HIDE DEF Of
    <2>1. QED
      BY <1>6, <1>8
  <1>10. QED
    BY <1>9 DEF X, At

\* A candidate that is shown as kept is known, and a lock keeps its range.
LEMMA KeptLocked ==
  ASSUME ReviewInv, NEW c \in Kept(review)
  PROVE  \E lock \in ToSet(doc.locks) :
           /\ lock.mode = "deny_agent" /\ lock.owner = User.id
           /\ lock.scope.kind = "source_range" /\ lock.scope.assetId = Media
           /\ lock.scope.range = review[c].candidate.range
  <1>1. review = Review(Project, records) /\ c \in DOMAIN review /\ review[c].state = "reviewed_keep"
    BY DEF ReviewInv, Kept
  <1>2. ProjectHolds(Project, Len(records)) /\ Project.doc = doc /\ Project.known = known
    BY DEF ReviewInv, Project
  <1>3. c \in Shown(Project)
    BY <1>1 DEF Review
  <1>4. PICK i \in SetsWith(Project, c) : review[c] = InSet(Project, records, i, c)
    BY <1>1, <1>2, <1>3, ReviewFacts
  <1>5. review[c].candidate \in CandidatesOf(Project, i) /\ review[c].candidate.id = c /\ ReviewLocks(doc, c) # {}
    BY <1>1, <1>2, <1>4, InSetFacts
  <1>6. review[c].candidate \in AllCandidates(known)
    <2>1. doc.artifacts[i] \in ToSet(doc.artifacts) /\ known[doc.artifacts[i]].kind = "set"
      BY <1>2 DEF SetsWith, Sets, ToSet
    <2>2. doc.artifacts[i] \in SetIds(known)
      BY <1>2, <2>1 DEF ProjectHolds, DocumentHolds, SetIds
    <2>3. QED
      BY <1>2, <1>5, <2>2 DEF AllCandidates, CandidatesOf
  <1>7. PICK k \in DOMAIN doc.locks : doc.locks[k].note.candidate = c
    BY <1>5 DEF ReviewLocks
  <1> DEFINE lock == doc.locks[k]
  <1>8. lock \in ToSet(doc.locks) /\ Keeper(lock, known)
    BY <1>2 DEF ToSet, ProjectHolds, DocumentHolds
  <1>9. PICK x \in AllCandidates(known) : x.id = c /\ x.range = lock.scope.range
    BY <1>7, <1>8 DEF Keeper
  <1>10. review[c].candidate.range = lock.scope.range
    BY <1>2, <1>5, <1>6, <1>9 DEF ProjectHolds, KnownHolds
  <1>11. QED
    BY <1>8, <1>10 DEF Keeper

\* What plays of the source is what the clips show of it.
LEMMA PlayedIsShown ==
  ASSUME NEW d
  PROVE  Played(d) = SourceShown(d, Media)
  <1>1. Instants(NoRange) = {}
    BY DEF NoRange, Instants, RangeEnd
  <1>2. QED
    BY <1>1 DEF Played, SourceShown

\* No document of the review holds a thing it should not, and none of its locks
\* or records: what review, candidates, locks and log hold of each other.
THEOREM ReviewHolds == Spec => []ReviewInv
  <1>1. Init => ReviewInv
    <2> SUFFICES ASSUME Init PROVE ReviewInv
      OBVIOUS
    <2> DEFINE c == [id |-> "c", asset |-> Media, range |-> Source, src |-> Source, look |-> 0,
                     enabled |-> TRUE]
               clips == <<c>>
               track == [id |-> "v1", locked |-> FALSE, clips |-> clips]
               tracks == <<track>>
               assets == <<Media>>
    <2>1. Source \in TimeRange
      BY SessionBounds DEF Source, TimeRange
    <2>2. IsClip(c)
      BY <2>1 DEF IsClip
    <2>3. IsSequence(clips) /\ ToSet(clips) = {c} /\ Len(clips) = 1 /\ DOMAIN clips = {1} /\ clips[1] = c
      <3> HIDE DEF c
      <3>1. QED
        BY OneElement
    <2>4. IsTrack(track)
      <3>1. track.clips = clips /\ track = [id |-> track.id, locked |-> track.locked, clips |-> track.clips]
            /\ track.locked \in BOOLEAN
        OBVIOUS
      <3> HIDE DEF clips, c, track
      <3>2. QED
        BY <2>2, <2>3, <3>1 DEF IsTrack
    <2>5. IsSequence(tracks) /\ ToSet(tracks) = {track} /\ Len(tracks) = 1 /\ DOMAIN tracks = {1} /\ tracks[1] = track
      <3> HIDE DEF track
      <3>1. QED
        BY OneElement
    <2>6. IsSequence(assets)
      BY OneElement
    <2>7. /\ doc = [tracks |-> tracks, locks |-> <<>>, assets |-> assets, artifacts |-> <<>>]
          /\ known = <<>> /\ records = <<>> /\ review = <<>>
      BY DEF Init
    <2>8. IsDocument(doc) /\ TracksUnique(doc) /\ doc.locks = <<>> /\ doc.artifacts = <<>>
      <3>1. doc.tracks = tracks /\ doc.locks = <<>> /\ doc.assets = assets /\ doc.artifacts = <<>>
            /\ doc = [tracks |-> doc.tracks, locks |-> doc.locks, assets |-> doc.assets, artifacts |-> doc.artifacts]
        BY <2>7
      <3> HIDE DEF tracks, track, assets
      <3>2. QED
        BY <2>4, <2>5, <2>6, <3>1, EmptySequence DEF IsDocument, TracksUnique
    <2>9. DocumentHolds(doc, known) /\ KnownHolds(known, Len(records))
      BY <2>7, <2>8, EmptySequence DEF DocumentHolds, KnownHolds, AllCandidates, SetIds
    <2>10. RecordsHold(records, known)
      BY <2>7, EmptySequence, SessionBounds DEF RecordsHold
    <2>11. QED
      BY <2>7, <2>8, <2>9, <2>10 DEF ReviewInv, ProjectHolds, Project
  <1>2. ReviewInv /\ [Next]_vars => ReviewInv'
    BY ReviewStep
  <1>3. QED
    BY <1>1, <1>2, PTL DEF Spec

\* What a person kept, no agent and no analysis takes out of the cut: the lock
\* that shows a candidate as kept protects its range against every other actor.
THEOREM KeptStaysInTheCut == Spec => KeptFromMachines
  <1>1. ReviewInv /\ [Next]_vars =>
          [/\ Len(records') > Len(records) /\ Last(records').actor # "user"
           /\ \A op \in ToSet(Last(records').ops) : ~Escapes(op, [kind |-> "source_range"])
           => \A c \in Kept(review) :
               Instants(review[c].candidate.range) \cap Played(doc) \subseteq Played(doc')]_vars
    <2> SUFFICES ASSUME ReviewInv, [Next]_vars, ByMachine, NEW c \in Kept(review),
                        \A op \in ToSet(Last(records').ops) : ~Escapes(op, [kind |-> "source_range"])
                 PROVE  Instants(review[c].candidate.range) \cap Played(doc) \subseteq Played(doc')
      BY DEF ByMachine
    <2>1. PICK actor \in {Workflow, Agent} : Keeps(doc, doc', actor, ToSet(Last(records').ops))
      BY ReviewStep DEF MachineKeeps
    <2>2. IsDocument(doc) /\ IsDocument(doc')
      <3>1. ReviewInv'
        BY ReviewStep
      <3>2. QED
        BY <3>1 DEF ReviewInv, ProjectHolds, Project
    <2>3. PICK lock \in ToSet(doc.locks) :
            /\ lock.mode = "deny_agent" /\ lock.owner = User.id
            /\ lock.scope.kind = "source_range" /\ lock.scope.assetId = Media
            /\ lock.scope.range = review[c].candidate.range
      BY KeptLocked
    <2>4. Blocks(lock, actor)
      BY <2>1, <2>3 DEF Blocks, LockBlocksActor, Workflow, Agent, User
    <2>5. Protected(doc, doc', lock.scope)
      <3>1. \A op \in ToSet(Last(records').ops) : ~Escapes(op, lock.scope)
        BY <2>3 DEF Escapes
      <3>2. QED
        BY <2>1, <2>4, <3>1 DEF Keeps
    <2>6. ShownOf(doc, Media, review[c].candidate.range) \subseteq ShownOf(doc', Media, review[c].candidate.range)
      BY <2>3, <2>5 DEF Protected
    <2>7. QED
      BY <2>2, <2>6, PlayedIsShown DEF ShownOf
  <1>2. QED
    BY <1>1, ReviewHolds, PTL DEF Spec, KeptFromMachines

\* What a semantic review of the local model puts stands on the very document
\* it has read, or is not there (the analyze-semantic route), and no two
\* suggestions of one review are about the same words.
THEOREM SuggestionsStandAsReviewed == Spec => []SuggestionsAsReviewed
  <1>1. Init => SuggestInv
    BY EmptySequence DEF Init, SuggestInv
  <1>2. ReviewInv /\ SuggestInv /\ [Next]_vars => SuggestInv'
    BY SuggestStep
  <1>3. SuggestInv => SuggestionsAsReviewed
    <2> SUFFICES ASSUME SuggestInv PROVE SuggestionsAsReviewed
      OBVIOUS
    <2> DEFINE Suggested(i) == known[(CHOOSE op \in ToSet(records[i].ops) : op.type = "library.put").object].candidates
               reviews == {i \in DOMAIN records : records[i].what = "suggest"}
    <2>1. \A i \in reviews : \A a, b \in Suggested(i) : a = b \/ a.words \cap b.words = {}
      <3> SUFFICES ASSUME NEW i \in reviews PROVE Suggested(i) \in LocalReviews \cup AgentReviews
        BY SuggestionsApart
      <3>1. PutsFound(records[i], known)
        BY DEF SuggestInv
      <3>2. PICK op \in ToSet(records[i].ops) :
              /\ ToSet(records[i].ops) = {op} /\ op.type = "library.put"
              /\ known[op.object].candidates \in LocalReviews \cup AgentReviews
        BY <3>1 DEF PutsFound
      <3>3. (CHOOSE o \in ToSet(records[i].ops) : o.type = "library.put") = op
        BY <3>2
      <3>4. QED
        BY <3>2, <3>3
    <2> DEFINE own == {i \in reviews : records[i].actor = "workflow"}
    <2>2. own = {i \in DOMAIN records : IsReview(records[i])}
      BY DEF IsReview
    <2> HIDE DEF own
    <2>3. /\ own \subseteq {job.rev + 1}
          /\ job.status = "succeeded" => own # {}
          /\ job.status = "none" \/ job.served => own = {}
      BY <2>2 DEF SuggestInv
    <2>4. QED
      BY <2>1, <2>3 DEF SuggestionsAsReviewed, own
  <1>4. QED
    BY <1>1, <1>2, <1>3, ReviewHolds, PTL DEF Spec
=============================================================================
