----------------------------- MODULE DataLemmas -----------------------------
(***************************************************************************)
(* What the proofs need to know about numbers and sequences: least and     *)
(* greatest elements, loops, ranks in an order, an element taken out of a  *)
(* sequence, the elements of a sequence that has each of them once.        *)
(***************************************************************************)
EXTENDS Integers, Sequences, FiniteSets, SequencesExt,
        FiniteSetTheorems, SequenceTheorems, WellFoundedInduction, TLAPS

-----------------------------------------------------------------------------
(* Least and greatest elements *)

LEMMA LeastNatural ==
  ASSUME NEW S \in SUBSET Nat, S # {}
  PROVE  \E x \in S : \A y \in S : x <= y
<1>1. PICK x \in S : \A y \in S : ~ (<<y, x>> \in OpToRel(<, Nat))
  BY WFMin, NatLessThanWellFounded, Zenon
<1>2. \A y \in S : ~ (y < x)
  BY <1>1 DEF OpToRel
<1>. QED
  BY <1>2

LEMMA GreatestNatural ==
  ASSUME NEW S \in SUBSET Nat, IsFiniteSet(S), S # {}
  PROVE  \E x \in S : \A y \in S : y <= x
<1>. DEFINE Above(x) == {y \in S : x < y}
            Counts == {n \in Nat : \E x \in S : n = Cardinality(Above(x))}
<1>1. \A x \in S : IsFiniteSet(Above(x)) /\ Cardinality(Above(x)) \in Nat
  BY FS_Subset, FS_CardinalityType
<1>2. Counts # {} /\ Counts \in SUBSET Nat
  BY <1>1
<1>. HIDE DEF Counts
<1>3. PICK n \in Counts : \A m \in Counts : n <= m
  BY <1>2, LeastNatural
<1>4. PICK x \in S : n = Cardinality(Above(x))
  BY <1>3 DEF Counts
<1>5. ASSUME NEW y \in S, x < y PROVE FALSE
  <2>0. /\ \A z \in S : z \in Nat
        /\ x \in Nat /\ y \in Nat
    OBVIOUS
  <2>1. /\ \A z \in Above(y) : z \in Above(x)
        /\ y \in Above(x) /\ y \notin Above(y)
    BY <1>5, <2>0
  <2>2. Cardinality(Above(y)) <= Cardinality(Above(x)) /\ Cardinality(Above(x)) # Cardinality(Above(y))
    BY <2>1, <1>1, FS_Subset
  <2>3. Cardinality(Above(y)) \in Counts
    BY <1>1 DEF Counts
  <2>. QED
    BY <2>2, <2>3, <1>1, <1>3, <1>4
<1>. QED
  BY <1>5

-----------------------------------------------------------------------------
(* Loops *)

\* The states of a loop of n steps that starts with a.
LoopStates(f, A, a, n, step) ==
  /\ f \in [0..n -> A] /\ f[0] = a
  /\ \A k \in 1..n : f[k] = step[<<f[k - 1], k>>]

\* A loop has a state after each of its steps.
LEMMA LoopExists ==
  ASSUME NEW A, NEW a \in A, NEW n \in Nat, NEW step \in [A \X (1..n) -> A]
  PROVE  \E f : LoopStates(f, A, a, n, step)
<1>. DEFINE Runs(m) == \E f \in [0..m -> A] : f[0] = a /\ \A k \in 1..m : f[k] = step[<<f[k - 1], k>>]
            Bad == {m \in Nat : m <= n /\ ~Runs(m)}
<1>1. ASSUME Bad # {}  PROVE FALSE
  <2>1. PICK m \in Bad : \A l \in Bad : m <= l
    BY <1>1, LeastNatural
  <2>2. m \in Nat /\ m <= n /\ ~Runs(m)
    OBVIOUS
  <2>. HIDE DEF Bad
  <2>3. CASE m = 0
    <3>1. [k \in 0..m |-> a] \in [0..m -> A] /\ [k \in 0..m |-> a][0] = a /\ 1..m = {}
      BY <2>3
    <3>. QED  BY <2>2, <3>1
  <2>4. CASE m # 0
    <3>1. m - 1 \in Nat /\ m - 1 <= n /\ m - 1 \notin Bad
      BY <2>1, <2>2, <2>4
    <3>2. Runs(m - 1)
      BY <3>1 DEF Bad
    <3>3. PICK f \in [0..(m - 1) -> A] :
            f[0] = a /\ \A k \in 1..(m - 1) : f[k] = step[<<f[k - 1], k>>]
      BY <3>2
    <3>. DEFINE g == [k \in 0..m |-> IF k = m THEN step[<<f[m - 1], m>>] ELSE f[k]]
    <3>4. /\ g \in [0..m -> A]
          /\ g[m] = step[<<f[m - 1], m>>]
          /\ \A k \in 0..(m - 1) : g[k] = f[k]
      <4>1. m \in 1..n /\ f[m - 1] \in A
        BY <2>2, <3>1
      <4>2. step[<<f[m - 1], m>>] \in A
        BY <4>1
      <4>3. \A k \in 0..m : k = m \/ (k \in 0..(m - 1) /\ f[k] \in A)
        BY <2>2
      <4>4. m \in 0..m /\ \A k \in 0..(m - 1) : k \in 0..m /\ k # m
        BY <2>2
      <4>. QED  BY <4>2, <4>3, <4>4
    <3>. HIDE DEF g
    <3>5. g[0] = a
      BY <3>1, <3>3, <3>4
    <3>6. ASSUME NEW k \in 1..m  PROVE g[k] = step[<<g[k - 1], k>>]
      <4>1. k - 1 \in 0..(m - 1) /\ g[k - 1] = f[k - 1]
        BY <2>2, <3>4
      <4>2. CASE k = m
        BY <3>4, <4>1, <4>2
      <4>3. CASE k # m
        <5>1. k \in 1..(m - 1) /\ k \in 0..(m - 1)
          BY <2>2, <4>3
        <5>. QED  BY <3>3, <3>4, <4>1, <5>1
      <4>. QED  BY <4>2, <4>3
    <3>. QED  BY <2>2, <3>4, <3>5, <3>6
  <2>. QED  BY <2>3, <2>4
<1>. QED
  <2>1. n \notin Bad
    BY <1>1
  <2>. QED  BY <2>1 DEF LoopStates

\* A property of the numbers up to n that holds of 0 and of each next one.
LEMMA UpTo ==
  ASSUME NEW n \in Nat, NEW S, 0 \in S, \A k \in 1..n : k - 1 \in S => k \in S
  PROVE  \A k \in 0..n : k \in S
<1>. DEFINE Bad == {k \in Nat : k <= n /\ k \notin S}
<1>1. ASSUME Bad # {}  PROVE FALSE
  <2>1. PICK k \in Bad : \A l \in Bad : k <= l
    BY <1>1, LeastNatural
  <2>2. k # 0 /\ k \in 1..n
    OBVIOUS
  <2>3. k - 1 \in Nat /\ k - 1 <= n /\ k - 1 \notin Bad
    BY <2>1, <2>2
  <2>. QED  BY <2>2, <2>3
<1>. QED  BY <1>1
-----------------------------------------------------------------------------
(* Ranks *)

\* In a strict total order of n places each has a rank of its own, the number of
\* places before it.
LEMMA RanksAreDistinct ==
  ASSUME NEW n \in Nat, NEW before,
         \A i, j \in 1..n : i # j => (<<i, j>> \in before <=> <<j, i>> \notin before),
         \A i \in 1..n : <<i, i>> \notin before,
         \A i, j, k \in 1..n : <<i, j>> \in before /\ <<j, k>> \in before => <<i, k>> \in before,
         NEW rank, \A i \in 1..n : rank[i] = Cardinality({j \in 1..n : <<j, i>> \in before})
  PROVE  /\ \A i \in 1..n : rank[i] \in 0..(n - 1)
         /\ \A i, j \in 1..n : <<i, j>> \in before <=> rank[i] < rank[j]
         /\ \A m \in 0..(n - 1) : \E i \in 1..n : rank[i] = m
<1>. DEFINE D == 1..n
            Low(i) == {j \in D : <<j, i>> \in before}
<1>0. IsFiniteSet(D) /\ Cardinality(D) = n
  BY FS_Interval
<1>1. ASSUME NEW i \in D
      PROVE  /\ IsFiniteSet(Low(i)) /\ rank[i] = Cardinality(Low(i)) /\ rank[i] \in 0..(n - 1)
  <2>0. rank[i] = Cardinality(Low(i)) /\ Low(i) \subseteq D
    OBVIOUS
  <2>. HIDE DEF Low
  <2>1. IsFiniteSet(Low(i)) /\ rank[i] = Cardinality(Low(i)) /\ rank[i] \in Nat
    BY <1>0, <2>0, FS_Subset, FS_CardinalityType
  <2>2. IsFiniteSet(D \ {i}) /\ Cardinality(D \ {i}) = n - 1
    BY <1>0, FS_RemoveElement
  <2>3. Low(i) \subseteq D \ {i}
    BY <2>0 DEF Low
  <2>4. Cardinality(Low(i)) <= n - 1
    BY <2>2, <2>3, FS_Subset
  <2>. QED  BY <2>1, <2>4
<1>2. ASSUME NEW i \in D, NEW j \in D, <<i, j>> \in before  PROVE rank[i] < rank[j]
  <2>1. Low(i) \subseteq Low(j) /\ i \in Low(j) /\ i \notin Low(i)
    BY <1>2
  <2>2. Low(i) \subseteq Low(j) /\ Low(i) # Low(j)
    BY <2>1
  <2>. HIDE DEF Low
  <2>3. Cardinality(Low(i)) < Cardinality(Low(j))
    <3>1. IsFiniteSet(Low(j)) /\ Cardinality(Low(i)) \in Nat /\ Cardinality(Low(j)) \in Nat
      BY <1>1, FS_CardinalityType
    <3>2. Cardinality(Low(i)) <= Cardinality(Low(j)) /\ Cardinality(Low(i)) # Cardinality(Low(j))
      BY <2>2, <3>1, FS_Subset
    <3>. QED  BY <3>1, <3>2
  <2>. QED  BY <1>1, <2>3
<1>. HIDE DEF Low
<1>3. \A i, j \in D : rank[i] = rank[j] => i = j
  <2>1. ASSUME NEW i \in D, NEW j \in D, rank[i] = rank[j], i # j  PROVE FALSE
    <3>1. <<i, j>> \in before \/ <<j, i>> \in before
      BY <2>1
    <3>2. rank[i] \in Int /\ rank[j] \in Int
      BY <1>1
    <3>. QED  BY <1>2, <2>1, <3>1, <3>2
  <2>. QED  BY <2>1
<1>4. \A i, j \in D : <<i, j>> \in before <=> rank[i] < rank[j]
  <2>1. ASSUME NEW i \in D, NEW j \in D, rank[i] < rank[j]  PROVE <<i, j>> \in before
    <3>1. i # j /\ rank[i] \in Int /\ rank[j] \in Int
      BY <1>1, <2>1
    <3>2. <<j, i>> \notin before
      BY <1>2, <2>1, <3>1
    <3>. QED  BY <3>1, <3>2
  <2>. QED  BY <1>2, <2>1
<1>5. \A m \in 0..(n - 1) : \E i \in D : rank[i] = m
  <2>. DEFINE f == [i \in D |-> rank[i]]
              T == 0..(n - 1)
  <2>1. f \in Injection(D, T)
    BY <1>1, <1>3 DEF Injection, IsInjective
  <2>2. IsFiniteSet(T) /\ Cardinality(T) = n
    BY FS_Interval
  <2>3. f \in Surjection(D, T)
    BY <1>0, <2>1, <2>2, FS_Injection
  <2>. QED  BY <2>3 DEF Surjection
<1>. QED  BY <1>1, <1>4, <1>5
-----------------------------------------------------------------------------
(* Sequences *)

LEMMA RemoveAtShortens ==
  ASSUME NEW S, NEW q \in Seq(S), NEW i \in 1..Len(q)
  PROVE  RemoveAt(q, i) \in Seq(S) /\ Len(RemoveAt(q, i)) = Len(q) - 1
<1>1. \A k \in 1..Len(q) : q[k] \in S
  OBVIOUS
<1>2. /\ SubSeq(q, 1, i - 1) \in Seq(S)
      /\ Len(SubSeq(q, 1, i - 1)) = i - 1
  BY <1>1, SubSeqProperties
<1>3. /\ SubSeq(q, i + 1, Len(q)) \in Seq(S)
      /\ Len(SubSeq(q, i + 1, Len(q))) = Len(q) - i
  BY <1>1, SubSeqProperties
<1>. DEFINE left == SubSeq(q, 1, i - 1)
            right == SubSeq(q, i + 1, Len(q))
<1>4. RemoveAt(q, i) = left \o right
  BY DEF RemoveAt
<1>5. /\ left \in Seq(S) /\ right \in Seq(S)
      /\ Len(left) = i - 1 /\ Len(right) = Len(q) - i
  BY <1>2, <1>3
<1>. HIDE DEF left, right
<1>6. left \o right \in Seq(S) /\ Len(left \o right) = Len(left) + Len(right)
  BY <1>5, ConcatProperties
<1>7. Len(q) \in Nat /\ i \in Int
  OBVIOUS
<1>. QED
  BY <1>4, <1>5, <1>6, <1>7

LEMMA RemoveAtElements ==
  ASSUME NEW S, NEW q \in Seq(S), NEW i \in 1..Len(q)
  PROVE  \A k \in 1..(Len(q) - 1) : RemoveAt(q, i)[k] = IF k < i THEN q[k] ELSE q[k + 1]
<1>1. \A k \in 1..Len(q) : q[k] \in S
  OBVIOUS
<1>2. /\ SubSeq(q, 1, i - 1) \in Seq(S)
      /\ Len(SubSeq(q, 1, i - 1)) = i - 1
      /\ \A k \in 1..(i - 1) : SubSeq(q, 1, i - 1)[k] = q[k]
  BY <1>1, SubSeqProperties
<1>3. /\ SubSeq(q, i + 1, Len(q)) \in Seq(S)
      /\ Len(SubSeq(q, i + 1, Len(q))) = Len(q) - i
      /\ \A k \in 1..(Len(q) - i) : SubSeq(q, i + 1, Len(q))[k] = q[i + k]
  <2>1. \A k \in 1..(Len(q) - i) : SubSeq(q, i + 1, Len(q))[k] = q[(i + 1) + k - 1]
    BY <1>1, SubSeqProperties
  <2>2. \A k \in 1..(Len(q) - i) : (i + 1) + k - 1 = i + k
    OBVIOUS
  <2>. QED  BY <1>1, <2>1, <2>2, SubSeqProperties
<1>. DEFINE left == SubSeq(q, 1, i - 1)
            right == SubSeq(q, i + 1, Len(q))
<1>4. RemoveAt(q, i) = left \o right
  BY DEF RemoveAt
<1>5. /\ left \in Seq(S) /\ right \in Seq(S)
      /\ Len(left) = i - 1 /\ Len(right) = Len(q) - i
      /\ \A k \in 1..(i - 1) : left[k] = q[k]
      /\ \A k \in 1..(Len(q) - i) : right[k] = q[i + k]
  BY <1>2, <1>3
<1>. HIDE DEF left, right
<1>6. \A k \in 1..(Len(left) + Len(right)) :
        (left \o right)[k] = IF k <= Len(left) THEN left[k] ELSE right[k - Len(left)]
  BY <1>5, ConcatProperties
<1>7. SUFFICES ASSUME NEW k \in 1..(Len(q) - 1)
               PROVE  (left \o right)[k] = IF k < i THEN q[k] ELSE q[k + 1]
  BY <1>4
<1>8. /\ k \in 1..(Len(left) + Len(right)) /\ Len(q) \in Nat /\ i \in Nat
      /\ (k < i <=> k <= Len(left))
      /\ ~(k < i) => k - Len(left) \in 1..(Len(q) - i) /\ i + (k - Len(left)) = k + 1
      /\ k < i => k \in 1..(i - 1)
  BY <1>5
<1>9. CASE k < i
  BY <1>5, <1>6, <1>8, <1>9
<1>10. CASE ~(k < i)
  BY <1>5, <1>6, <1>8, <1>10
<1>. QED  BY <1>9, <1>10

LEMMA ToSetElements ==
  ASSUME NEW S, NEW q \in Seq(S)
  PROVE  /\ ToSet(q) = {q[i] : i \in 1..Len(q)}
         /\ ToSet(q) \subseteq S
BY DEF ToSet

LEMMA ToSetEmpty == ToSet(<<>>) = {}
BY DEF ToSet

LEMMA ToSetAppend ==
  ASSUME NEW S, NEW s \in Seq(S)
  PROVE  /\ ToSet(s) \subseteq S
         /\ \A e \in S : ToSet(Append(s, e)) = ToSet(s) \cup {e}
         /\ ToSet(<<>>) = {}
<1>1. ToSet(s) \subseteq S /\ ToSet(<<>>) = {}
  BY DEF ToSet
<1>2. ASSUME NEW e \in S PROVE ToSet(Append(s, e)) = ToSet(s) \cup {e}
  <2>1. /\ DOMAIN Append(s, e) = 1..(Len(s) + 1) /\ DOMAIN s = 1..Len(s) /\ Len(s) \in Nat
    BY LenProperties, AppendProperties
  <2>2. /\ \A i \in 1..Len(s) : Append(s, e)[i] = s[i]
        /\ Append(s, e)[Len(s) + 1] = e
    BY AppendProperties
  <2>3. 1..(Len(s) + 1) = (1..Len(s)) \cup {Len(s) + 1}
    BY <2>1
  <2>. QED
    BY <2>1, <2>2, <2>3 DEF ToSet
<1>. QED
  BY <1>1, <1>2

-----------------------------------------------------------------------------
(* Queues whose entries are distinct *)

Distinct(q) == \A i, j \in 1..Len(q) : q[i] = q[j] => i = j

LEMMA AppendDistinct ==
  ASSUME NEW S, NEW q \in Seq(S), NEW e \in S, Distinct(q), e \notin ToSet(q)
  PROVE  Distinct(Append(q, e)) /\ ToSet(Append(q, e)) = ToSet(q) \cup {e}
<1>. DEFINE a == Append(q, e)
            n == Len(q)
<1>1. /\ a \in Seq(S) /\ Len(a) = n + 1 /\ a[n + 1] = e /\ n \in Nat
      /\ \A i \in 1..n : a[i] = q[i]
  OBVIOUS
<1>2. ToSet(a) = {a[i] : i \in 1..(n + 1)} /\ ToSet(q) = {q[i] : i \in 1..n}
  <2>. HIDE DEF a
  <2>1. ToSet(a) = {a[i] : i \in 1..Len(a)} /\ ToSet(q) = {q[i] : i \in 1..n}
    BY <1>1, ToSetElements
  <2>. QED  BY <1>1, <2>1
<1>. HIDE DEF a, n
<1>3. \A i \in 1..n : a[i] # e
  BY <1>1, <1>2
<1>4. \A i \in 1..(n + 1) : i \in 1..n \/ i = n + 1
  BY <1>1
<1>5. Distinct(a)
  <2>1. \A i, j \in 1..(n + 1) : a[i] = a[j] => i = j
    BY <1>1, <1>3, <1>4 DEF Distinct, n
  <2>. QED  BY <1>1, <2>1 DEF Distinct
<1>6. ToSet(a) = ToSet(q) \cup {e}
  <2>1. n + 1 \in 1..(n + 1) /\ \A i \in 1..n : i \in 1..(n + 1)
    BY <1>1
  <2>. QED  BY <1>1, <1>2, <1>4, <2>1
<1>. QED  BY <1>5, <1>6 DEF a

\* A sequence that has the elements of another at an increasing choice of places.
LEMMA ChosenPlaces ==
  ASSUME NEW S, NEW q \in Seq(S), NEW a \in Seq(S), NEW i \in 1..Len(q), Distinct(q),
         Len(a) = Len(q) - 1,
         \A k \in 1..(Len(q) - 1) : a[k] = IF k < i THEN q[k] ELSE q[k + 1]
  PROVE  Distinct(a) /\ ToSet(a) = ToSet(q) \ {q[i]}
<1>. DEFINE n == Len(q)
            from == [k \in 1..(n - 1) |-> IF k < i THEN k ELSE k + 1]
<1>1. n \in Nat /\ i \in 1..n /\ Len(a) = n - 1 /\ \A j, k \in 1..n : q[j] = q[k] => j = k
  BY DEF Distinct
<1>2. ToSet(a) = {a[k] : k \in 1..(n - 1)} /\ ToSet(q) = {q[k] : k \in 1..n}
  <2>1. ToSet(a) = {a[k] : k \in 1..Len(a)} /\ ToSet(q) = {q[k] : k \in 1..n}
    BY ToSetElements
  <2>. QED  BY <1>1, <2>1
<1>3. \A k \in 1..(n - 1) : a[k] = q[from[k]]
  OBVIOUS
<1>. HIDE DEF n
<1>4. /\ \A k \in 1..(n - 1) : from[k] \in 1..n /\ from[k] # i
      /\ \A j, k \in 1..(n - 1) : from[j] = from[k] => j = k
  BY <1>1
<1>5. ASSUME NEW j \in 1..n, j # i  PROVE \E k \in 1..(n - 1) : from[k] = j
  <2>1. CASE j < i
    <3>1. j \in 1..(n - 1) /\ from[j] = j
      BY <1>1, <2>1
    <3>. QED  BY <3>1
  <2>2. CASE ~(j < i)
    <3>1. j - 1 \in 1..(n - 1) /\ from[j - 1] = j
      BY <1>1, <1>5, <2>2
    <3>. QED  BY <3>1
  <2>. QED  BY <2>1, <2>2
<1>. HIDE DEF from
<1>6. Distinct(a)
  <2>1. ASSUME NEW j \in 1..(n - 1), NEW k \in 1..(n - 1), a[j] = a[k]  PROVE j = k
    <3>1. q[from[j]] = q[from[k]]
      BY <1>3, <2>1
    <3>2. from[j] = from[k]
      BY <1>1, <1>4, <3>1
    <3>. QED  BY <1>4, <3>2
  <2>. QED  BY <1>1, <2>1 DEF Distinct
<1>7. ASSUME NEW e \in ToSet(a)  PROVE e \in ToSet(q) \ {q[i]}
  <2>1. PICK k \in 1..(n - 1) : e = a[k]
    BY <1>2, <1>7
  <2>2. e = q[from[k]] /\ from[k] \in 1..n /\ from[k] # i
    BY <1>3, <1>4, <2>1
  <2>. QED  BY <1>1, <1>2, <2>2
<1>8. ASSUME NEW e \in ToSet(q) \ {q[i]}  PROVE e \in ToSet(a)
  <2>1. PICK j \in 1..n : e = q[j]
    BY <1>2, <1>8
  <2>2. PICK k \in 1..(n - 1) : from[k] = j
    BY <1>5, <1>8, <2>1
  <2>. QED  BY <1>2, <1>3, <2>1, <2>2
<1>. QED  BY <1>6, <1>7, <1>8

LEMMA RemoveDistinct ==
  ASSUME NEW S, NEW q \in Seq(S), NEW i \in 1..Len(q), Distinct(q)
  PROVE  /\ Distinct(RemoveAt(q, i)) /\ ToSet(RemoveAt(q, i)) = ToSet(q) \ {q[i]}
BY RemoveAtShortens, RemoveAtElements, ChosenPlaces

LEMMA TailDistinct ==
  ASSUME NEW S, NEW q \in Seq(S), q # <<>>, Distinct(q)
  PROVE  /\ Distinct(Tail(q)) /\ ToSet(Tail(q)) = ToSet(q) \ {Head(q)}
         /\ Head(q) \in ToSet(q) /\ Tail(q) \in Seq(S)
<1>1. PICK i \in 1..Len(q) : i = 1
  OBVIOUS
<1>2. Tail(q) \in Seq(S) /\ Len(Tail(q)) = Len(q) - 1 /\ Head(q) = q[i]
  BY <1>1
<1>3. \A k \in 1..(Len(q) - 1) : Tail(q)[k] = IF k < i THEN q[k] ELSE q[k + 1]
  BY <1>1
<1>4. \A a \in Seq(S) :
        Len(a) = Len(q) - 1 /\ (\A k \in 1..(Len(q) - 1) : a[k] = IF k < i THEN q[k] ELSE q[k + 1])
          => Distinct(a) /\ ToSet(a) = ToSet(q) \ {q[i]}
  BY ChosenPlaces, ZenonT(40)
<1>5. q[i] \in ToSet(q)
  BY ToSetElements
<1>. QED  BY <1>2, <1>3, <1>4, <1>5
\* A sequence without repetitions is no longer than the set of its elements.
LEMMA DistinctLength ==
  ASSUME NEW S, IsFiniteSet(S), NEW q \in Seq(S), Distinct(q)
  PROVE  Len(q) <= Cardinality(S)
<1>1. Len(q) \in Nat /\ q \in [1..Len(q) -> S]
  BY LenProperties
<1>2. q \in Injection(1..Len(q), S)
  BY <1>1 DEF Injection, IsInjective, Distinct
<1>3. Cardinality(1..Len(q)) <= Cardinality(S)
  BY <1>2, FS_Injection
<1>4. Cardinality(1..Len(q)) = Len(q)
  BY <1>1, FS_Interval
<1>. QED  BY <1>3, <1>4

=============================================================================
