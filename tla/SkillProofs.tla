------------------------------ MODULE SkillProofs ------------------------------
(***************************************************************************)
(* Proofs about the composer skill with the choice of a model, about the   *)
(* calls of skills, and about Services, which composes these two with the  *)
(* components of GatewayProofs and KernelServiceProofs.                    *)
(***************************************************************************)
EXTENDS Services, GatewayProofs, KernelServiceProofs

-----------------------------------------------------------------------------
(***************************************************************************)
(* Proofs about the composer, for every set of blocks and of what they may *)
(* be, every configuration of the router and any number of compositions.   *)
(*                                                                         *)
(* What a prompt holds is decided by a sort and a loop.  The sort puts     *)
(* each entry where its rank is, the number of entries that come earlier;  *)
(* the ranks are all different (RanksAreDistinct), so that the result has  *)
(* every entry once and in order (SortedForm).  The loop takes entries in  *)
(* that order: after k of them either all k are taken whole, or it has     *)
(* stopped at one of them, which is then cut or too large for what is left *)
(* (Packed).  That this holds after every round is shown by the least      *)
(* round after which it would not (UpTo).                                  *)
(***************************************************************************)

(* The order of the blocks *)

Content == [type : Nat, priority : Nat, tokens : Nat]
GivenEntry == [id : Ids, content : Content, whole : BOOLEAN]

LEMMA PlaceIsNumber ==
  ASSUME NEW profile \in Profiles, NEW type
  PROVE  PlaceOf(profile, type) \in Nat
<1>. DEFINE order == TypeOrder[profile]
<1>1. Len(order) \in Nat /\ DOMAIN order = 1..Len(order)
  <2>1. CASE profile = "prime"
    BY <2>1 DEF TypeOrder
  <2>2. CASE profile = "session"
    BY <2>2 DEF TypeOrder
  <2>3. CASE profile = "task"
    BY <2>3 DEF TypeOrder
  <2>. QED  BY <2>1, <2>2, <2>3 DEF Profiles
<1>. HIDE DEF order
<1>2. CASE Contains(order, type)
  <2>1. \E i \in DOMAIN order : order[i] = type
    BY <1>1, <1>2 DEF Contains
  <2>2. (CHOOSE i \in DOMAIN order : order[i] = type) \in DOMAIN order
    BY <2>1, Zenon
  <2>. QED  BY <1>1, <1>2, <2>2 DEF PlaceOf, order
<1>3. CASE ~Contains(order, type)
  BY <1>1, <1>3 DEF PlaceOf, order
<1>. QED  BY <1>2, <1>3

\* One entry comes before the other by its place, then by its priority.
LEMMA OrderOfPlaces ==
  ASSUME NEW profile \in Profiles, NEW given \in Seq(GivenEntry)
  PROVE  \E place, weight \in [1..Len(given) -> Nat] :
           \A i, j \in 1..Len(given) :
             Before(profile, given[i], given[j]) <=>
               place[i] < place[j] \/ (place[i] = place[j] /\ weight[i] > weight[j])
<1>. DEFINE place == [i \in 1..Len(given) |-> PlaceOf(profile, given[i].content.type)]
            weight == [i \in 1..Len(given) |-> given[i].content.priority]
<1>1. \A i \in 1..Len(given) : given[i] \in GivenEntry
  OBVIOUS
<1>2. place \in [1..Len(given) -> Nat] /\ weight \in [1..Len(given) -> Nat]
  BY <1>1, PlaceIsNumber DEF GivenEntry, Content
<1>3. \A i, j \in 1..Len(given) :
        Before(profile, given[i], given[j]) <=>
          place[i] < place[j] \/ (place[i] = place[j] /\ weight[i] > weight[j])
  BY Zenon DEF Before
<1>. HIDE DEF place, weight
<1>. QED  BY <1>2, <1>3

\* sort_by gives each entry once, and none that comes before one it follows.
LEMMA SortedForm ==
  ASSUME NEW profile \in Profiles, NEW given \in Seq(GivenEntry)
  PROVE  \E pos \in [1..Len(given) -> 1..Len(given)] :
           /\ \A k \in 1..Len(given) : Sorted(profile, given)[k] = given[pos[k]]
           /\ \A i \in 1..Len(given) : \E k \in 1..Len(given) : pos[k] = i
           /\ \A k, m \in 1..Len(given) : k # m => pos[k] # pos[m]
           /\ \A k, m \in 1..Len(given) : k < m => ~Before(profile, given[pos[m]], given[pos[k]])
<1>. DEFINE n == Len(given)
            D == 1..n
            before == {e \in D \X D : e[1] \in Earlier(profile, given, e[2])}
            rank == [i \in D |-> Cardinality(Earlier(profile, given, i))]
            pos == [k \in D |-> CHOOSE i \in D : rank[i] = k - 1]
<1>1. n \in Nat /\ DOMAIN given = D
  OBVIOUS
<1>2. PICK place \in [D -> Nat], weight \in [D -> Nat] :
        \A i, j \in D :
          Before(profile, given[i], given[j]) <=>
            place[i] < place[j] \/ (place[i] = place[j] /\ weight[i] > weight[j])
  BY OrderOfPlaces
<1>3. \A i, j \in D : <<i, j>> \in before <=>
        Before(profile, given[i], given[j]) \/ (i < j /\ ~Before(profile, given[j], given[i]))
  <2>1. \A i, j \in D : <<i, j>> \in before <=> i \in Earlier(profile, given, j)
    BY Zenon
  <2>. QED  BY <1>1, <2>1, Zenon DEF Earlier
<1>4. \A j \in D : Earlier(profile, given, j) = {i \in D : <<i, j>> \in before}
  <2>1. \A j \in D : Earlier(profile, given, j) \subseteq D
    BY <1>1 DEF Earlier
  <2>2. \A i, j \in D : <<i, j>> \in before <=> i \in Earlier(profile, given, j)
    BY Zenon
  <2>. QED  BY <2>1, <2>2
<1>5. \A i \in D : rank[i] = Cardinality({j \in D : <<j, i>> \in before})
  BY <1>4
<1>. HIDE DEF before, rank, D
<1>6. \A i, j \in D : <<i, j>> \in before <=>
        \/ place[i] < place[j]
        \/ place[i] = place[j] /\ weight[i] > weight[j]
        \/ place[i] = place[j] /\ weight[i] = weight[j] /\ i < j
  <2>1. ASSUME NEW i \in D, NEW j \in D
        PROVE  <<i, j>> \in before <=>
                 \/ place[i] < place[j]
                 \/ place[i] = place[j] /\ weight[i] > weight[j]
                 \/ place[i] = place[j] /\ weight[i] = weight[j] /\ i < j
    <3>1. /\ place[i] \in Nat /\ place[j] \in Nat /\ weight[i] \in Nat /\ weight[j] \in Nat
          /\ i \in Nat /\ j \in Nat
      BY <1>1, <1>2 DEF D
    <3>2. /\ Before(profile, given[i], given[j]) <=>
               place[i] < place[j] \/ (place[i] = place[j] /\ weight[i] > weight[j])
          /\ Before(profile, given[j], given[i]) <=>
               place[j] < place[i] \/ (place[j] = place[i] /\ weight[j] > weight[i])
      BY <1>2
    <3>3. <<i, j>> \in before <=>
            Before(profile, given[i], given[j]) \/ (i < j /\ ~Before(profile, given[j], given[i]))
      BY <1>3
    <3>. QED  BY <3>1, <3>2, <3>3
  <2>. QED  BY <2>1
<1>7. /\ \A i, j \in D : i # j => (<<i, j>> \in before <=> <<j, i>> \notin before)
      /\ \A i \in D : <<i, i>> \notin before
      /\ \A i, j, k \in D : <<i, j>> \in before /\ <<j, k>> \in before => <<i, k>> \in before
  <2>0. /\ \A i \in D : place[i] \in Nat /\ weight[i] \in Nat /\ i \in Nat
    BY <1>1, <1>2 DEF D
  <2>. DEFINE Lex(i, j) == \/ place[i] < place[j]
                           \/ place[i] = place[j] /\ weight[i] > weight[j]
                           \/ place[i] = place[j] /\ weight[i] = weight[j] /\ i < j
  <2>a. \A i, j \in D : <<i, j>> \in before <=> Lex(i, j)
    BY <1>6, Zenon
  <2>1. \A i, j \in D : i # j => (Lex(i, j) <=> ~Lex(j, i))
    BY <2>0
  <2>2. \A i \in D : ~Lex(i, i)
    BY <2>0
  <2>3. \A i, j, k \in D : Lex(i, j) /\ Lex(j, k) => Lex(i, k)
    BY <2>0
  <2>. HIDE DEF Lex
  <2>4. \A i, j \in D : i # j => (<<i, j>> \in before <=> <<j, i>> \notin before)
    BY <2>a, <2>1, Zenon
  <2>5. \A i \in D : <<i, i>> \notin before
    BY <2>a, <2>2, Zenon
  <2>6. \A i, j, k \in D : <<i, j>> \in before /\ <<j, k>> \in before => <<i, k>> \in before
    BY <2>a, <2>3, Zenon
  <2>. QED  BY <2>4, <2>5, <2>6
<1>8. /\ \A i \in D : rank[i] \in 0..(n - 1)
      /\ \A i, j \in D : <<i, j>> \in before <=> rank[i] < rank[j]
      /\ \A m \in 0..(n - 1) : \E i \in D : rank[i] = m
  BY <1>1, <1>5, <1>7, RanksAreDistinct, ZenonT(40) DEF D
<1>9. \A k \in D : pos[k] \in D /\ rank[pos[k]] = k - 1
  <2>1. \A k \in D : \E i \in D : rank[i] = k - 1
    BY <1>1, <1>8 DEF D
  <2>2. ASSUME NEW k \in D  PROVE pos[k] \in D /\ rank[pos[k]] = k - 1
    <3>1. \E i \in D : rank[i] = k - 1
      BY <2>1
    <3>. QED  BY <3>1, Zenon
  <2>. QED  BY <2>2
<1>10. \A k \in D : Sorted(profile, given)[k] = given[pos[k]]
  <2>1. \A i \in D : rank[i] = Cardinality(Earlier(profile, given, i))
    BY DEF rank
  <2>2. ASSUME NEW k \in D
        PROVE (CHOOSE i \in D : rank[i] = k - 1)
                = CHOOSE i \in D : Cardinality(Earlier(profile, given, i)) = k - 1
    BY <2>1, Zenon
  <2>3. Sorted(profile, given) =
          [k \in D |-> given[CHOOSE i \in D : Cardinality(Earlier(profile, given, i)) = k - 1]]
    <3>1. DOMAIN given = D
      BY <1>1
    <3>. QED  BY <3>1 DEF Sorted
  <2>4. ASSUME NEW k \in D  PROVE Sorted(profile, given)[k] = given[pos[k]]
    <3>1. Sorted(profile, given)[k] =
            given[CHOOSE i \in D : Cardinality(Earlier(profile, given, i)) = k - 1]
      BY <2>3, Zenon
    <3>2. pos[k] = CHOOSE i \in D : rank[i] = k - 1
      BY Zenon
    <3>. QED  BY <2>2, <3>1, <3>2
  <2>. QED  BY <2>4, Zenon
<1>11. pos \in [D -> D]
  BY <1>9
<1>. HIDE DEF pos
<1>12. \A i \in D : \E k \in D : pos[k] = i
  <2>1. ASSUME NEW i \in D  PROVE \E k \in D : pos[k] = i
    <3>1. rank[i] + 1 \in D /\ rank[i] \in 0..(n - 1)
      BY <1>1, <1>8 DEF D
    <3>2. PICK k \in D : k = rank[i] + 1
      BY <3>1
    <3>3. pos[k] \in D /\ rank[pos[k]] = rank[i]
      BY <1>9, <3>1, <3>2
    <3>4. ~(rank[i] < rank[pos[k]]) /\ ~(rank[pos[k]] < rank[i])
      BY <3>1, <3>3
    <3>5. <<i, pos[k]>> \notin before /\ <<pos[k], i>> \notin before
      BY <1>8, <3>3, <3>4
    <3>6. pos[k] = i
      BY <1>7, <3>3, <3>5
    <3>. QED  BY <3>6
  <2>. QED  BY <2>1
<1>13. \A k, m \in D : k # m => pos[k] # pos[m]
  <2>1. ASSUME NEW k \in D, NEW m \in D, pos[k] = pos[m]  PROVE k = m
    <3>1. k - 1 = m - 1 /\ k \in Nat /\ m \in Nat
      BY <1>1, <1>9, <2>1 DEF D
    <3>. QED  BY <3>1
  <2>. QED  BY <2>1
<1>14. \A k, m \in D : k < m => ~Before(profile, given[pos[m]], given[pos[k]])
  <2>1. ASSUME NEW k \in D, NEW m \in D, k < m  PROVE ~Before(profile, given[pos[m]], given[pos[k]])
    <3>1. rank[pos[k]] < rank[pos[m]]
      BY <1>1, <1>9, <2>1 DEF D
    <3>2. <<pos[m], pos[k]>> \notin before
      BY <1>7, <1>8, <1>9, <3>1
    <3>. QED  BY <1>3, <1>9, <3>2
  <2>. QED  BY <2>1
<1>. QED  BY <1>10, <1>11, <1>12, <1>13, <1>14 DEF D
-----------------------------------------------------------------------------
(* The sum of the tokens *)

\* f sums up the tokens of the first k entries.
SumsUp(f, s, n) ==
  /\ f \in [0..n -> Nat] /\ f[0] = 0
  /\ \A k \in 1..n : f[k] = f[k - 1] + s[k].content.tokens

LEMMA TokensOfForm ==
  ASSUME NEW s \in Seq(GivenEntry)
  PROVE  \E f : SumsUp(f, s, Len(s)) /\ TokensOf(s) = f[Len(s)]
<1>. DEFINE n == Len(s)
            step == [e \in Nat \X (1..n) |-> e[1] + s[e[2]].content.tokens]
            Sum(f) == [k \in 0..n |-> IF k = 0 THEN 0 ELSE f[k - 1] + s[k].content.tokens]
            upTo == CHOOSE f : f = Sum(f)
<1>1. n \in Nat /\ \A k \in 1..n : s[k].content.tokens \in Nat
  <2>1. \A k \in 1..n : s[k] \in GivenEntry
    OBVIOUS
  <2>. QED  BY <2>1 DEF GivenEntry, Content
<1>2. step \in [Nat \X (1..n) -> Nat]
  BY <1>1
<1>3. \A k \in 1..n, x \in Nat : step[<<x, k>>] = x + s[k].content.tokens
  OBVIOUS
<1>. HIDE DEF step, n
<1>4. PICK f : LoopStates(f, Nat, 0, n, step)
  <2>1. 0 \in Nat
    OBVIOUS
  <2>. QED  BY <1>1, <1>2, <2>1, LoopExists, Zenon
<1>5. \A k \in 1..n : f[k] = f[k - 1] + s[k].content.tokens
  <2>1. \A k \in 1..n : k - 1 \in 0..n
    BY <1>1
  <2>. QED  BY <1>3, <1>4, <2>1 DEF LoopStates
<1>6. f = Sum(f)
  <2>1. \A k \in 0..n : f[k] = Sum(f)[k]
    <3>1. \A k \in 0..n : k = 0 \/ k \in 1..n
      BY <1>1
    <3>. QED  BY <1>4, <1>5, <3>1 DEF LoopStates
  <2>. QED  BY <1>4, <2>1 DEF LoopStates
<1>. HIDE DEF Sum
<1>7. upTo = Sum(upTo)
  BY <1>6, Zenon
<1>. HIDE DEF upTo
<1>8. \A k \in 0..n : upTo[k] = IF k = 0 THEN 0 ELSE upTo[k - 1] + s[k].content.tokens
  BY <1>7 DEF Sum
<1>9. upTo \in [0..n -> Nat]
  <2>1. \A k \in 0..n : k \in {j \in 0..n : upTo[j] \in Nat}
    <3>1. 0 \in {j \in 0..n : upTo[j] \in Nat}
      BY <1>1, <1>8
    <3>2. \A k \in 1..n :
            k - 1 \in {j \in 0..n : upTo[j] \in Nat} => k \in {j \in 0..n : upTo[j] \in Nat}
      <4>1. ASSUME NEW k \in 1..n, upTo[k - 1] \in Nat  PROVE upTo[k] \in Nat
        <5>1. k \in 0..n /\ k # 0 /\ s[k].content.tokens \in Nat
          BY <1>1
        <5>2. upTo[k] = upTo[k - 1] + s[k].content.tokens
          BY <1>8, <5>1
        <5>. QED  BY <4>1, <5>1, <5>2
      <4>2. \A k \in 1..n : k \in 0..n
        BY <1>1
      <4>. QED  BY <4>1, <4>2
    <3>. QED  BY <1>1, <3>1, <3>2, UpTo
  <2>2. upTo = [k \in 0..n |-> upTo[k]]
    BY <1>7 DEF Sum
  <2>. QED  BY <2>1, <2>2
<1>10. SumsUp(upTo, s, n)
  <2>1. 0 \in 0..n /\ \A k \in 1..n : k \in 0..n /\ k # 0
    BY <1>1
  <2>. QED  BY <1>8, <1>9, <2>1 DEF SumsUp
<1>11. TokensOf(s) = upTo[n]
  BY DEF TokensOf, upTo, Sum, n
<1>. QED  BY <1>10, <1>11 DEF n

LEMMA SumsAreUnique ==
  ASSUME NEW n \in Nat, NEW s, NEW t, NEW f, NEW g, NEW m \in Nat, n <= m,
         SumsUp(f, s, n), SumsUp(g, t, m), \A k \in 1..n : s[k] = t[k]
  PROVE  f[n] = g[n]
<1>. DEFINE S == {k \in 0..n : f[k] = g[k]}
<1>1. 0 \in S
  BY DEF SumsUp
<1>2. \A k \in 1..n : k - 1 \in S => k \in S
  <2>1. ASSUME NEW k \in 1..n, f[k - 1] = g[k - 1]  PROVE f[k] = g[k]
    <3>1. k \in 1..m /\ s[k] = t[k]
      OBVIOUS
    <3>2. f[k] = f[k - 1] + s[k].content.tokens
      BY DEF SumsUp
    <3>3. g[k] = g[k - 1] + t[k].content.tokens
      BY <3>1 DEF SumsUp
    <3>. QED  BY <2>1, <3>1, <3>2, <3>3
  <2>. QED  BY <2>1
<1>. HIDE DEF S
<1>3. n \in S
  BY <1>1, <1>2, UpTo
<1>. QED  BY <1>3 DEF S

LEMMA TokensOfAppend ==
  ASSUME NEW s \in Seq(GivenEntry)
  PROVE  /\ TokensOf(s) \in Nat
         /\ TokensOf(<<>>) = 0
         /\ \A e \in GivenEntry : TokensOf(Append(s, e)) = TokensOf(s) + e.content.tokens
<1>1. TokensOf(s) \in Nat
  <2>1. PICK f : SumsUp(f, s, Len(s)) /\ TokensOf(s) = f[Len(s)]
    BY TokensOfForm
  <2>2. Len(s) \in 0..Len(s)
    OBVIOUS
  <2>. QED  BY <2>1, <2>2 DEF SumsUp
<1>2. TokensOf(<<>>) = 0
  <2>1. <<>> \in Seq(GivenEntry) /\ Len(<<>>) = 0
    OBVIOUS
  <2>2. PICK f : SumsUp(f, <<>>, 0) /\ TokensOf(<<>>) = f[0]
    BY <2>1, TokensOfForm
  <2>. QED  BY <2>2 DEF SumsUp
<1>3. ASSUME NEW e \in GivenEntry  PROVE TokensOf(Append(s, e)) = TokensOf(s) + e.content.tokens
  <2>. DEFINE t == Append(s, e)
              n == Len(s)
  <2>1. /\ t \in Seq(GivenEntry) /\ Len(t) = n + 1 /\ n \in Nat /\ t[n + 1] = e
        /\ \A k \in 1..n : s[k] = t[k]
    OBVIOUS
  <2>. HIDE DEF t
  <2>2. PICK f : SumsUp(f, s, n) /\ TokensOf(s) = f[n]
    BY TokensOfForm
  <2>3. PICK g : SumsUp(g, t, n + 1) /\ TokensOf(t) = g[n + 1]
    BY <2>1, TokensOfForm
  <2>4. f[n] = g[n]
    BY <2>1, <2>2, <2>3, SumsAreUnique
  <2>5. g[n + 1] = g[n] + t[n + 1].content.tokens
    <3>1. n + 1 \in 1..(n + 1) /\ n + 1 - 1 = n
      BY <2>1
    <3>. QED  BY <2>3, <3>1 DEF SumsUp
  <2>. QED  BY <2>1, <2>2, <2>3, <2>4, <2>5 DEF t
<1>. QED  BY <1>1, <1>2, <1>3
-----------------------------------------------------------------------------
(* The loop over the blocks *)

Packing == [taken : Seq(GivenEntry), left : Nat, open : BOOLEAN]
Cut(entry, left) == [entry EXCEPT !.whole = FALSE, !.content.tokens = left]

LEMMA CutForm ==
  ASSUME NEW entry \in GivenEntry, NEW left \in Nat
  PROVE  /\ Cut(entry, left) \in GivenEntry
         /\ Cut(entry, left).id = entry.id /\ ~Cut(entry, left).whole
         /\ Cut(entry, left).content.tokens = left
         /\ Cut(entry, left).content.type = entry.content.type
         /\ Cut(entry, left).content.priority = entry.content.priority
BY DEF Cut, GivenEntry, Content

LEMMA AddBlockForm ==
  ASSUME NEW acc \in Packing, NEW entry \in GivenEntry
  PROVE  LET next == AddBlock(acc, entry)
             fits == entry.content.tokens <= acc.left
         IN  /\ next \in Packing
             /\ ~acc.open => next = acc
             /\ acc.open /\ fits =>
                  next.open /\ next.taken = Append(acc.taken, entry)
                            /\ next.left + entry.content.tokens = acc.left
             /\ acc.open /\ ~fits => ~next.open /\ next.left = acc.left
             /\ acc.open /\ ~fits /\ acc.left > Truncatable =>
                  next.taken = Append(acc.taken, Cut(entry, acc.left))
             /\ acc.open /\ ~fits /\ acc.left <= Truncatable => next.taken = acc.taken
<1>0. /\ acc.taken \in Seq(GivenEntry) /\ acc.left \in Nat /\ acc.open \in BOOLEAN
      /\ entry.content.tokens \in Nat /\ Truncatable \in Nat
  BY DEF Packing, GivenEntry, Content, Truncatable
<1>. DEFINE next == AddBlock(acc, entry)
            tokens == entry.content.tokens
            whole == Append(acc.taken, entry)
            cut == Append(acc.taken, Cut(entry, acc.left))
<1>1. whole \in Seq(GivenEntry) /\ cut \in Seq(GivenEntry)
  <2>1. Cut(entry, acc.left) \in GivenEntry
    BY <1>0, CutForm
  <2>. QED  BY <1>0, <2>1
<1>. HIDE DEF whole, cut
<1>2. CASE ~acc.open
  <2>1. next = acc
    BY <1>2 DEF AddBlock
  <2>. QED  BY <1>2, <2>1
<1>3. CASE acc.open /\ tokens <= acc.left
  <2>1. next = [acc EXCEPT !.taken = whole, !.left = acc.left - tokens]
    <3>1. ~(tokens > acc.left)
      BY <1>0, <1>3
    <3>. QED  BY <1>3, <3>1 DEF AddBlock, whole
  <2>2. acc.left - tokens \in Nat
    BY <1>0, <1>3
  <2>3. /\ next.taken = whole /\ next.left = acc.left - tokens
        /\ next.open = acc.open /\ next \in Packing
    BY <1>0, <1>1, <2>1, <2>2 DEF Packing
  <2>. HIDE DEF next
  <2>4. next.left + tokens = acc.left
    BY <1>0, <2>3
  <2>. QED  BY <1>3, <2>3, <2>4 DEF whole, next
<1>4. CASE acc.open /\ tokens > acc.left /\ acc.left > Truncatable
  <2>0. ~(tokens <= acc.left) /\ ~(acc.left <= Truncatable)
    BY <1>0, <1>4
  <2>1. next = [acc EXCEPT !.open = FALSE, !.taken = cut]
    BY <1>4, <2>0 DEF AddBlock, cut, Cut
  <2>2. next.taken = cut /\ next.left = acc.left /\ ~next.open /\ next \in Packing
    BY <1>1, <2>1 DEF Packing
  <2>. HIDE DEF next
  <2>. QED  BY <1>4, <2>0, <2>2 DEF cut, next
<1>5. CASE acc.open /\ tokens > acc.left /\ ~(acc.left > Truncatable)
  <2>0. ~(tokens <= acc.left)
    BY <1>0, <1>5
  <2>1. next = [acc EXCEPT !.open = FALSE]
    BY <1>5, <2>0 DEF AddBlock
  <2>2. next.taken = acc.taken /\ next.left = acc.left /\ ~next.open /\ next \in Packing
    BY <2>1 DEF Packing
  <2>. HIDE DEF next
  <2>. QED  BY <1>5, <2>0, <2>2 DEF next
<1>. QED  BY <1>0, <1>2, <1>3, <1>4, <1>5

\* The loop of compose_blocks, block by block.
PackingStates(after, profile, given) ==
  LET n == Len(given) IN
  /\ after \in [0..n -> Packing] /\ after[0] = NoneTaken(profile)
  /\ \A k \in 1..n : after[k] = AddBlock(after[k - 1], Sorted(profile, given)[k])

LEMMA ComposeLoop ==
  ASSUME NEW profile \in Profiles, NEW given \in Seq(GivenEntry)
  PROVE  \E after : PackingStates(after, profile, given)
                    /\ ComposeBlocks(profile, given) = after[Len(given)].taken
<1>. DEFINE n == Len(given)
            sorted == Sorted(profile, given)
            start == NoneTaken(profile)
            step == [e \in Packing \X (1..n) |-> AddBlock(e[1], sorted[e[2]])]
            Body(f) == [k \in 0..n |-> IF k = 0 THEN start ELSE AddBlock(f[k - 1], sorted[k])]
            after == CHOOSE f : f = Body(f)
<1>1. n \in Nat /\ \A k \in 1..n : sorted[k] \in GivenEntry
  <2>1. PICK pos \in [1..n -> 1..n] : \A k \in 1..n : sorted[k] = given[pos[k]]
    BY SortedForm
  <2>2. \A k \in 1..n : given[pos[k]] \in GivenEntry
    OBVIOUS
  <2>. QED  BY <2>1, <2>2
<1>2. start \in Packing
  <2>1. TokenBudget[profile] \in Nat
    BY DEF TokenBudget, Profiles
  <2>. QED  BY <2>1 DEF NoneTaken, Packing
<1>. HIDE DEF sorted, n, start
<1>3. \A k \in 1..n, x \in Packing : AddBlock(x, sorted[k]) \in Packing
  BY <1>1, AddBlockForm
<1>4. /\ step \in [Packing \X (1..n) -> Packing]
      /\ \A k \in 1..n, x \in Packing : step[<<x, k>>] = AddBlock(x, sorted[k])
  BY <1>3
<1>. HIDE DEF step
<1>5. PICK f : LoopStates(f, Packing, start, n, step)
  BY <1>1, <1>2, <1>4, LoopExists, Zenon
<1>6. /\ f \in [0..n -> Packing] /\ f[0] = start
      /\ \A k \in 1..n : f[k] = AddBlock(f[k - 1], sorted[k])
  <2>1. \A k \in 1..n : k - 1 \in 0..n
    BY <1>1
  <2>. QED  BY <1>4, <1>5, <2>1 DEF LoopStates
<1>7. f = Body(f)
  <2>1. \A k \in 0..n : k = 0 \/ k \in 1..n
    BY <1>1
  <2>2. \A k \in 0..n : f[k] = Body(f)[k]
    BY <1>6, <2>1
  <2>. QED  BY <1>6, <2>2
<1>. HIDE DEF Body
<1>8. after = Body(after)
  BY <1>7, Zenon
<1>. HIDE DEF after
<1>9. \A k \in 0..n : after[k] = IF k = 0 THEN start ELSE AddBlock(after[k - 1], sorted[k])
  BY <1>8 DEF Body
<1>10. 0 \in 0..n /\ after[0] = start
  BY <1>1, <1>9
<1>11. \A k \in 1..n : k \in 0..n /\ after[k] = AddBlock(after[k - 1], sorted[k])
  <2>1. \A k \in 1..n : k \in 0..n /\ k # 0
    BY <1>1
  <2>. QED  BY <1>9, <2>1
<1>12. after \in [0..n -> Packing]
  <2>. DEFINE S == {k \in 0..n : after[k] \in Packing}
  <2>1. 0 \in S
    BY <1>2, <1>10
  <2>2. \A k \in 1..n : k - 1 \in S => k \in S
    BY <1>3, <1>11
  <2>. HIDE DEF S
  <2>3. \A k \in 0..n : k \in S
    BY <1>1, <2>1, <2>2, UpTo
  <2>4. after = [k \in 0..n |-> after[k]]
    BY <1>8 DEF Body
  <2>. QED  BY <2>3, <2>4 DEF S
<1>13. PackingStates(after, profile, given)
  BY <1>10, <1>11, <1>12 DEF PackingStates, n, sorted, start
<1>14. ComposeBlocks(profile, given) = after[n].taken
  BY DEF ComposeBlocks, after, Body, n, sorted, start
<1>. QED  BY <1>13, <1>14 DEF n
\* The first j blocks have been taken as they are, and what is left is right.
Whole(acc, sorted, j, budget) ==
  /\ Len(acc.taken) = j /\ \A i \in 1..j : acc.taken[i] = sorted[i]
  /\ TokensOf(acc.taken) + acc.left = budget

\* The m-th block was cut to what was left, or was the first to be left out.
Stopped(acc, sorted, m, budget) ==
  /\ acc.left < sorted[m].content.tokens
  /\ \/ acc.left <= Truncatable /\ Whole(acc, sorted, m - 1, budget)
     \/ /\ Len(acc.taken) = m /\ \A i \in 1..(m - 1) : acc.taken[i] = sorted[i]
        /\ \E l \in Nat : acc.taken[m] = Cut(sorted[m], l)
        /\ TokensOf(acc.taken) = budget

Packed(acc, sorted, k, budget) ==
  /\ acc.open => Whole(acc, sorted, k, budget)
  /\ ~acc.open => \E m \in 1..k : Stopped(acc, sorted, m, budget)

LEMMA PackedNext ==
  ASSUME NEW n \in Nat, NEW k \in 1..n, NEW sorted, \A i \in 1..n : sorted[i] \in GivenEntry,
         NEW acc \in Packing, NEW budget \in Nat, Packed(acc, sorted, k - 1, budget)
  PROVE  Packed(AddBlock(acc, sorted[k]), sorted, k, budget)
<1>. DEFINE next == AddBlock(acc, sorted[k])
            entry == sorted[k]
<1>0. /\ entry \in GivenEntry /\ entry.content.tokens \in Nat
      /\ acc.taken \in Seq(GivenEntry) /\ acc.left \in Nat /\ acc.open \in BOOLEAN
  BY DEF Packing, GivenEntry, Content
<1>1. /\ next \in Packing
      /\ ~acc.open => next = acc
      /\ acc.open /\ entry.content.tokens <= acc.left =>
           next.open /\ next.taken = Append(acc.taken, entry)
                     /\ next.left + entry.content.tokens = acc.left
      /\ acc.open /\ ~(entry.content.tokens <= acc.left) => ~next.open /\ next.left = acc.left
      /\ acc.open /\ ~(entry.content.tokens <= acc.left) /\ acc.left > Truncatable =>
           next.taken = Append(acc.taken, Cut(entry, acc.left))
      /\ acc.open /\ ~(entry.content.tokens <= acc.left) /\ acc.left <= Truncatable =>
           next.taken = acc.taken
  BY <1>0, AddBlockForm
<1>2. next.left \in Nat /\ next.taken \in Seq(GivenEntry)
  BY <1>1 DEF Packing
<1>. HIDE DEF next, entry
<1>3. CASE ~acc.open
  <2>1. PICK m \in 1..(k - 1) : Stopped(acc, sorted, m, budget)
    BY <1>3 DEF Packed
  <2>2. m \in 1..k
    OBVIOUS
  <2>3. next = acc
    BY <1>1, <1>3
  <2>. QED  BY <1>3, <2>1, <2>2, <2>3 DEF Packed, next
<1>4. ASSUME acc.open
      PROVE  /\ Len(acc.taken) = k - 1 /\ \A i \in 1..(k - 1) : acc.taken[i] = sorted[i]
             /\ TokensOf(acc.taken) + acc.left = budget
             /\ TokensOf(acc.taken) \in Nat
  <2>1. TokensOf(acc.taken) \in Nat
    BY <1>0, TokensOfAppend
  <2>. QED  BY <1>4, <2>1 DEF Packed, Whole
<1>5. ASSUME acc.open, NEW e \in GivenEntry
      PROVE  LET t == Append(acc.taken, e) IN
             /\ Len(t) = k /\ t[k] = e /\ \A i \in 1..(k - 1) : t[i] = sorted[i]
             /\ TokensOf(t) = TokensOf(acc.taken) + e.content.tokens
  <2>. DEFINE t == Append(acc.taken, e)
  <2>1. Len(t) = k /\ t[k] = e /\ \A i \in 1..(k - 1) : t[i] = acc.taken[i]
    BY <1>0, <1>4, <1>5
  <2>2. TokensOf(t) = TokensOf(acc.taken) + e.content.tokens
    BY <1>0, TokensOfAppend
  <2>. QED  BY <1>4, <1>5, <2>1, <2>2
<1>6. CASE acc.open /\ entry.content.tokens <= acc.left
  <2>1. /\ next.open /\ next.taken = Append(acc.taken, entry)
        /\ next.left + entry.content.tokens = acc.left
    BY <1>1, <1>6
  <2>2. /\ Len(next.taken) = k /\ next.taken[k] = entry
        /\ \A i \in 1..(k - 1) : next.taken[i] = sorted[i]
    BY <1>0, <1>5, <1>6, <2>1
  <2>3. TokensOf(next.taken) + next.left = budget
    BY <1>0, <1>2, <1>4, <1>5, <1>6, <2>1
  <2>4. \A i \in 1..k : next.taken[i] = sorted[i]
    <3>1. \A i \in 1..k : i = k \/ i \in 1..(k - 1)
      OBVIOUS
    <3>. QED  BY <2>2, <3>1 DEF entry
  <2>. QED  BY <2>1, <2>2, <2>3, <2>4 DEF Packed, Whole, next
<1>7. CASE acc.open /\ ~(entry.content.tokens <= acc.left) /\ acc.left > Truncatable
  <2>. DEFINE c == Cut(entry, acc.left)
  <2>1. c \in GivenEntry /\ c.content.tokens = acc.left
    BY <1>0, CutForm
  <2>. HIDE DEF c
  <2>2. ~next.open /\ next.left = acc.left /\ next.taken = Append(acc.taken, c)
    BY <1>1, <1>7 DEF c
  <2>3. Len(next.taken) = k /\ next.taken[k] = c /\ \A i \in 1..(k - 1) : next.taken[i] = sorted[i]
    BY <1>5, <1>7, <2>1, <2>2
  <2>4. TokensOf(next.taken) = budget
    BY <1>4, <1>5, <1>7, <2>1, <2>2
  <2>5. next.left < sorted[k].content.tokens
    BY <1>0, <1>7, <2>2 DEF entry
  <2>6. Stopped(next, sorted, k, budget)
    BY <1>0, <2>3, <2>4, <2>5 DEF Stopped, c, entry
  <2>. QED  BY <2>2, <2>6 DEF Packed, next
<1>8. CASE acc.open /\ ~(entry.content.tokens <= acc.left) /\ ~(acc.left > Truncatable)
  <2>0. acc.left <= Truncatable
    BY <1>0, <1>8 DEF Truncatable
  <2>1. ~next.open /\ next.left = acc.left /\ next.taken = acc.taken
    BY <1>1, <1>8, <2>0
  <2>2. next.left < sorted[k].content.tokens
    BY <1>0, <1>8, <2>1 DEF entry
  <2>3. Whole(next, sorted, k - 1, budget)
    BY <1>4, <1>8, <2>1 DEF Whole
  <2>4. Stopped(next, sorted, k, budget)
    BY <2>0, <2>1, <2>2, <2>3 DEF Stopped
  <2>. QED  BY <2>1, <2>4 DEF Packed, next
<1>. QED  BY <1>3, <1>6, <1>7, <1>8

\* What compose_blocks makes: all of the blocks, or those before one that did not
\* fit and possibly a part of it.
LEMMA ComposedForm ==
  ASSUME NEW profile \in Profiles, NEW given \in Seq(GivenEntry)
  PROVE  \E acc \in Packing :
           /\ ComposeBlocks(profile, given) = acc.taken
           /\ Packed(acc, Sorted(profile, given), Len(given), TokenBudget[profile])
<1>. DEFINE n == Len(given)
            sorted == Sorted(profile, given)
            budget == TokenBudget[profile]
<1>1. PICK after : /\ PackingStates(after, profile, given)
                   /\ ComposeBlocks(profile, given) = after[n].taken
  BY ComposeLoop
<1>2. n \in Nat /\ \A k \in 1..n : sorted[k] \in GivenEntry
  <2>1. PICK pos \in [1..n -> 1..n] : \A k \in 1..n : sorted[k] = given[pos[k]]
    BY SortedForm
  <2>2. \A k \in 1..n : given[pos[k]] \in GivenEntry
    OBVIOUS
  <2>. QED  BY <2>1, <2>2
<1>3. budget \in Nat
  BY DEF TokenBudget, Profiles
<1>4. /\ after \in [0..n -> Packing] /\ after[0] = NoneTaken(profile)
      /\ \A k \in 1..n : after[k] = AddBlock(after[k - 1], sorted[k])
  BY <1>1 DEF PackingStates
<1>. DEFINE S == {k \in 0..n : Packed(after[k], sorted, k, budget)}
<1>. HIDE DEF n, sorted
<1>5. 0 \in S
  <2>1. /\ after[0].taken = <<>> /\ after[0].left = budget /\ after[0].open
        /\ TokensOf(<<>>) = 0 /\ Len(<<>>) = 0 /\ 1..0 = {} /\ 0 \in 0..n
    BY <1>2, <1>4, TokensOfAppend DEF NoneTaken
  <2>2. Whole(after[0], sorted, 0, budget)
    BY <1>3, <2>1 DEF Whole
  <2>. QED  BY <2>1, <2>2 DEF Packed
<1>6. \A k \in 1..n : k - 1 \in S => k \in S
  <2>1. ASSUME NEW k \in 1..n, Packed(after[k - 1], sorted, k - 1, budget)
        PROVE  Packed(after[k], sorted, k, budget)
    <3>1. after[k - 1] \in Packing
      BY <1>2, <1>4
    <3>2. Packed(AddBlock(after[k - 1], sorted[k]), sorted, k, budget)
      BY <1>2, <1>3, <2>1, <3>1, PackedNext
    <3>. QED  BY <1>4, <3>2
  <2>2. \A k \in 1..n : k \in 0..n
    BY <1>2
  <2>. QED  BY <2>1, <2>2
<1>. HIDE DEF S
<1>7. n \in S /\ n \in 0..n
  BY <1>2, <1>5, <1>6, UpTo, SMTT(20)
<1>. QED  BY <1>1, <1>4, <1>7 DEF S, n, sorted
-----------------------------------------------------------------------------
(* The prompt *)

\* What a composition is given: whole blocks, each id once or one block only.
Offered(given) ==
  /\ given \in Seq(GivenEntry)
  /\ \A i \in DOMAIN given : given[i].whole
  /\ \/ \A i, j \in DOMAIN given : i # j => given[i].id # given[j].id
     \/ \A i, j \in DOMAIN given : given[i] = given[j]

\* The blocks of a prompt are the first ones in order, only the last one cut.
Beginning(made, sorted, n, budget) ==
  /\ made \in Seq(GivenEntry) /\ Len(made) <= n
  /\ \A j \in 1..Len(made) :
       /\ made[j].id = sorted[j].id
       /\ made[j].content.type = sorted[j].content.type
       /\ made[j].content.priority = sorted[j].content.priority
       /\ made[j].whole \/ (j = Len(made) /\ TokensOf(made) = budget)
  /\ TokensOf(made) \in Nat /\ TokensOf(made) <= budget
  /\ \/ Len(made) = n
     \/ Len(made) # 0 /\ ~made[Len(made)].whole
     \/ /\ Len(made) + 1 \in 1..n
        /\ budget - TokensOf(made) <= Truncatable
        /\ sorted[Len(made) + 1].content.tokens > budget - TokensOf(made)

LEMMA PackedIsBeginning ==
  ASSUME NEW n \in Nat, NEW sorted, \A k \in 1..n : sorted[k] \in GivenEntry /\ sorted[k].whole,
         NEW acc \in Packing, NEW budget \in Nat, Packed(acc, sorted, n, budget)
  PROVE  Beginning(acc.taken, sorted, n, budget)
<1>. DEFINE made == acc.taken
            tokens == TokensOf(made)
<1>0. made \in Seq(GivenEntry) /\ acc.left \in Nat /\ acc.open \in BOOLEAN /\ Len(made) \in Nat
  BY DEF Packing
<1>1. tokens \in Nat
  BY <1>0, TokensOfAppend
<1>. HIDE DEF made, tokens
<1>2. ASSUME NEW j \in 0..n, Whole(acc, sorted, j, budget)
      PROVE  /\ Len(made) = j /\ tokens <= budget /\ budget - tokens = acc.left
             /\ \A i \in 1..Len(made) :
                  /\ made[i].id = sorted[i].id
                  /\ made[i].content.type = sorted[i].content.type
                  /\ made[i].content.priority = sorted[i].content.priority
                  /\ made[i].whole
  <2>1. Len(made) = j /\ \A i \in 1..j : made[i] = sorted[i]
    BY <1>2 DEF Whole, made
  <2>2. tokens + acc.left = budget
    BY <1>2 DEF Whole, made, tokens
  <2>3. \A i \in 1..j : i \in 1..n
    OBVIOUS
  <2>. QED  BY <1>0, <1>1, <2>1, <2>2, <2>3, SMTT(20)
<1>3. CASE acc.open
  <2>1. Whole(acc, sorted, n, budget)
    BY <1>3 DEF Packed
  <2>2. n \in 0..n
    OBVIOUS
  <2>. QED  BY <1>0, <1>1, <1>2, <2>1, <2>2 DEF Beginning, made, tokens
<1>4. CASE ~acc.open
  <2>1. PICK m \in 1..n : Stopped(acc, sorted, m, budget)
    BY <1>4 DEF Packed
  <2>2. acc.left < sorted[m].content.tokens /\ sorted[m].content.tokens \in Nat
    BY <2>1 DEF Stopped, GivenEntry, Content
  <2>3. CASE acc.left <= Truncatable /\ Whole(acc, sorted, m - 1, budget)
    <3>1. m - 1 \in 0..n
      OBVIOUS
    <3>2. /\ Len(made) = m - 1 /\ tokens <= budget /\ budget - tokens = acc.left
          /\ \A i \in 1..Len(made) :
               /\ made[i].id = sorted[i].id
               /\ made[i].content.type = sorted[i].content.type
               /\ made[i].content.priority = sorted[i].content.priority
               /\ made[i].whole
      BY <1>2, <2>3, <3>1
    <3>3. Len(made) + 1 = m /\ Len(made) <= n
      BY <3>2
    <3>4. budget - tokens <= Truncatable /\ sorted[Len(made) + 1].content.tokens > budget - tokens
      BY <2>2, <2>3, <3>2, <3>3 DEF Truncatable
    <3>. QED  BY <1>0, <1>1, <3>2, <3>3, <3>4 DEF Beginning, made, tokens
  <2>4. ASSUME Len(made) = m, \A i \in 1..(m - 1) : made[i] = sorted[i],
               NEW l \in Nat, made[m] = Cut(sorted[m], l), tokens = budget
        PROVE  Beginning(made, sorted, n, budget)
    <3>1. /\ made[m].id = sorted[m].id /\ ~made[m].whole
          /\ made[m].content.type = sorted[m].content.type
          /\ made[m].content.priority = sorted[m].content.priority
      <4>1. sorted[m] \in GivenEntry
        OBVIOUS
      <4>2. /\ Cut(sorted[m], l).id = sorted[m].id /\ ~Cut(sorted[m], l).whole
            /\ Cut(sorted[m], l).content.type = sorted[m].content.type
            /\ Cut(sorted[m], l).content.priority = sorted[m].content.priority
        BY <2>4, <4>1, CutForm, Zenon
      <4>. QED  BY <2>4, <4>2
    <3>2. ASSUME NEW j \in 1..Len(made)
          PROVE  /\ made[j].id = sorted[j].id
                 /\ made[j].content.type = sorted[j].content.type
                 /\ made[j].content.priority = sorted[j].content.priority
                 /\ made[j].whole \/ (j = Len(made) /\ tokens = budget)
      <4>1. CASE j = m
        BY <2>4, <3>1, <4>1
      <4>2. CASE j # m
        <5>1. j \in 1..(m - 1) /\ j \in 1..n
          BY <2>4, <4>2
        <5>. QED  BY <2>4, <5>1
      <4>. QED  BY <4>1, <4>2
    <3>3. Len(made) <= n /\ Len(made) # 0 /\ ~made[Len(made)].whole
      BY <2>4, <3>1
    <3>4. tokens <= budget
      BY <2>4
    <3>. QED  BY <1>0, <1>1, <3>2, <3>3, <3>4 DEF Beginning, tokens
  <2>. QED  BY <2>1, <2>3, <2>4 DEF Stopped, made, tokens
<1>. QED  BY <1>3, <1>4
LEMMA BeforeByContent ==
  ASSUME NEW profile, NEW x, NEW y, NEW u, NEW v,
         x.content.type = u.content.type, x.content.priority = u.content.priority,
         y.content.type = v.content.type, y.content.priority = v.content.priority
  PROVE  Before(profile, x, y) <=> Before(profile, u, v)
BY Zenon DEF Before

\* Whatever a composition is given in whichever order, its prompt fits.
LEMMA ComposedFits ==
  ASSUME NEW profile \in Profiles, NEW given, Offered(given)
  PROVE  PromptFits(profile, given, ComposeBlocks(profile, given))
<1>. DEFINE n == Len(given)
            D == 1..n
            sorted == Sorted(profile, given)
            budget == TokenBudget[profile]
            made == ComposeBlocks(profile, given)
            Named == {made[i].id : i \in DOMAIN made}
            Left == {i \in DOMAIN given : given[i].id \notin Named}
            Original(x) == given[CHOOSE i \in DOMAIN given : given[i].id = x.id]
            spare == budget - TokensOf(made)
<1>0. /\ given \in Seq(GivenEntry) /\ n \in Nat /\ DOMAIN given = D
      /\ \A i \in D : given[i].whole /\ given[i] \in GivenEntry
      /\ \/ \A i, j \in D : i # j => given[i].id # given[j].id
         \/ \A i, j \in D : given[i] = given[j]
  BY DEF Offered
<1>1. PICK pos \in [D -> D] :
        /\ \A k \in D : sorted[k] = given[pos[k]]
        /\ \A i \in D : \E k \in D : pos[k] = i
        /\ \A k, m \in D : k # m => pos[k] # pos[m]
        /\ \A k, m \in D : k < m => ~Before(profile, given[pos[m]], given[pos[k]])
  BY <1>0, SortedForm
<1>2. \A k \in D : sorted[k] \in GivenEntry /\ sorted[k].whole
  <2>. HIDE DEF sorted, D
  <2>1. ASSUME NEW k \in D  PROVE sorted[k] \in GivenEntry /\ sorted[k].whole
    <3>1. pos[k] \in D /\ sorted[k] = given[pos[k]]
      BY <1>1
    <3>2. given[pos[k]].whole /\ given[pos[k]] \in GivenEntry
      BY <1>0, <3>1
    <3>. QED  BY <3>1, <3>2
  <2>. QED  BY <2>1
<1>3. budget \in Nat
  BY DEF TokenBudget, Profiles
<1>. HIDE DEF sorted, made
<1>4. Beginning(made, sorted, n, budget)
  <2>1. PICK acc \in Packing : made = acc.taken /\ Packed(acc, sorted, n, budget)
    BY <1>0, ComposedForm DEF made, sorted
  <2>. HIDE DEF n, D
  <2>2. Beginning(acc.taken, sorted, n, budget)
    BY <1>0, <1>2, <1>3, <2>1, PackedIsBeginning DEF D
  <2>. QED  BY <2>1, <2>2
<1>5. /\ DOMAIN made = 1..Len(made) /\ Len(made) \in Nat /\ Len(made) <= n
      /\ \A j \in 1..Len(made) : j \in D
  BY <1>0, <1>4 DEF Beginning
<1>6. \A j \in 1..Len(made) :
        /\ made[j].id = sorted[j].id
        /\ made[j].content.type = sorted[j].content.type
        /\ made[j].content.priority = sorted[j].content.priority
        /\ made[j].whole \/ (j = Len(made) /\ spare = 0)
  BY <1>3, <1>4 DEF Beginning
<1>7. spare >= 0 /\ TokensOf(made) \in Nat
  BY <1>3, <1>4 DEF Beginning
<1>. HIDE DEF D, spare, budget, n, Named
<1>8. \A i, j \in D : given[i].id = given[j].id => given[i] = given[j]
  BY <1>0
\* Who is left out comes later than all that are taken.
<1>9. ASSUME NEW i \in Left
      PROVE  \E k \in D : i = pos[k] /\ given[i] = sorted[k] /\ k > Len(made)
  <2>1. i \in D /\ given[i].id \notin Named
    BY <1>0
  <2>2. PICK k \in D : pos[k] = i
    BY <1>1, <2>1
  <2>3. given[i] = sorted[k]
    BY <1>1, <2>2
  <2>4. ~(k \in 1..Len(made))
    <3>1. ASSUME k \in 1..Len(made)  PROVE FALSE
      <4>1. made[k].id \in Named
        BY <1>5, <3>1 DEF Named
      <4>. QED  BY <1>6, <2>1, <2>3, <3>1, <4>1
    <3>. QED  BY <3>1
  <2>5. k > Len(made)
    BY <1>0, <1>5, <2>4 DEF D
  <2>. QED  BY <2>2, <2>3, <2>5
<1>10. \A i, j \in DOMAIN made : i < j => ~Before(profile, made[j], made[i])
  <2>1. ASSUME NEW i \in 1..Len(made), NEW j \in 1..Len(made), i < j
        PROVE  ~Before(profile, made[j], made[i])
    <3>1. i \in D /\ j \in D
      BY <1>5
    <3>2. ~Before(profile, sorted[j], sorted[i])
      BY <1>1, <2>1, <3>1
    <3>. QED  BY <1>6, <3>2, BeforeByContent
  <2>. QED  BY <1>5, <2>1
<1>11. \A i \in Left, j \in DOMAIN made : ~Before(profile, given[i], Original(made[j]))
  <2>1. ASSUME NEW i \in Left, NEW j \in 1..Len(made)
        PROVE  ~Before(profile, given[i], Original(made[j]))
    <3>1. PICK k \in D : given[i] = sorted[k] /\ k > Len(made)
      BY <1>9
    <3>2. j \in D /\ j < k
      BY <1>0, <1>5, <3>1 DEF D
    <3>3. ~Before(profile, sorted[k], sorted[j])
      BY <1>1, <3>2
    <3>4. pos[j] \in DOMAIN given /\ given[pos[j]] = sorted[j] /\ given[pos[j]].id = made[j].id
      BY <1>0, <1>1, <1>6, <3>2
    <3>. DEFINE o == CHOOSE x \in DOMAIN given : given[x].id = made[j].id
    <3>5. o \in DOMAIN given /\ given[o].id = made[j].id
      BY <3>4, Zenon
    <3>. HIDE DEF o
    <3>6. given[o] = sorted[j]
      BY <1>0, <1>8, <3>4, <3>5
    <3>7. Original(made[j]) = sorted[j]
      BY <3>6 DEF o
    <3>. QED  BY <3>1, <3>3, <3>7
  <2>. QED  BY <1>5, <2>1
<1>12. \A i \in DOMAIN made : made[i].whole \/ (i = Len(made) /\ spare = 0)
  BY <1>5, <1>6
<1>13. ASSUME Left # {}
       PROVE  \/ made # <<>> /\ ~Last(made).whole
              \/ spare <= Truncatable /\ \E i \in Left : given[i].content.tokens > spare
  <2>1. Len(made) # n
    <3>1. PICK i \in Left : TRUE
      BY <1>13
    <3>2. PICK k \in D : k > Len(made)
      BY <1>9
    <3>3. k \in Nat /\ k <= n
      BY <1>0 DEF D
    <3>. QED  BY <1>5, <3>2, <3>3
  <2>2. CASE Len(made) # 0 /\ ~made[Len(made)].whole
    <3>1. made # <<>>
      BY <2>2
    <3>. QED  BY <2>2, <3>1 DEF Last
  <2>3. CASE /\ Len(made) + 1 \in 1..n
             /\ budget - TokensOf(made) <= Truncatable
             /\ sorted[Len(made) + 1].content.tokens > budget - TokensOf(made)
    <3>1. PICK m \in D : m = Len(made) + 1
      BY <2>3 DEF D
    <3>2. spare <= Truncatable /\ sorted[m].content.tokens > spare
      BY <2>3, <3>1 DEF spare
    <3>3. pos[m] \in D /\ given[pos[m]] = sorted[m]
      BY <1>1
    <3>4. given[pos[m]].id \notin Named
      <4>1. ASSUME NEW j \in 1..Len(made), made[j].id = given[pos[m]].id  PROVE FALSE
        <5>1. j \in D /\ j # m
          BY <1>5, <3>1
        <5>2. pos[j] \in D /\ pos[m] \in D /\ pos[j] # pos[m] /\ given[pos[j]].id = given[pos[m]].id
          BY <1>1, <1>6, <4>1, <5>1
        <5>3. \A x, y \in D : given[x] = given[y]
          BY <1>0, <5>2
        <5>4. Left = {}
          <6>1. \A x \in D : given[x].id = made[j].id
            BY <4>1, <5>2, <5>3
          <6>2. made[j].id \in Named
            BY <1>5 DEF Named
          <6>. QED  BY <1>0, <6>1, <6>2
        <5>. QED  BY <1>13, <5>4
      <4>. QED  BY <1>5, <4>1 DEF Named
    <3>5. pos[m] \in Left
      BY <1>0, <3>3, <3>4
    <3>. QED  BY <3>2, <3>3, <3>5
  <2>. QED  BY <1>4, <2>1, <2>2, <2>3 DEF Beginning
<1>. QED
  <2>1. spare >= 0
    BY <1>7
  <2>. HIDE DEF Original, Left
  <2>2. PromptFits(profile, given, made) <=>
          /\ spare >= 0
          /\ \A i, j \in DOMAIN made : i < j => ~Before(profile, made[j], made[i])
          /\ \A i \in Left, j \in DOMAIN made : ~Before(profile, given[i], Original(made[j]))
          /\ \A i \in DOMAIN made : made[i].whole \/ (i = Len(made) /\ spare = 0)
          /\ Left # {} =>
               \/ made # <<>> /\ ~Last(made).whole
               \/ spare <= Truncatable /\ \E i \in Left : given[i].content.tokens > spare
    BY Zenon DEF PromptFits, spare, budget, Left, Named, Original
  <2>3. PromptFits(profile, given, made)
    BY <1>10, <1>11, <1>12, <1>13, <2>1, <2>2
  <2>. QED  BY <2>3 DEF made
-----------------------------------------------------------------------------
(* The model *)

\* get_model_for_difficulty: that of the difficulty, else the next higher one
\* there is, else the highest.
LEMMA ModelForForm ==
  ASSUME NEW models, DOMAIN models \subseteq 0..4, DOMAIN models # {}, NEW difficulty \in 0..4
  PROVE  \E d \in DOMAIN models :
           /\ models[d] = ModelForDifficulty(models, difficulty)
           /\ d < difficulty => \A e \in DOMAIN models : e <= d
           /\ d > difficulty => \A e \in DOMAIN models : e < d => e < difficulty
<1>. DEFINE all == DOMAIN models
            higher == {d \in all : d >= difficulty}
            lowest == CHOOSE d \in higher : \A e \in higher : d <= e
            highest == CHOOSE d \in all : \A e \in all : e <= d
<1>0. all \in SUBSET Nat /\ higher \in SUBSET Nat /\ IsFiniteSet(all) /\ all # {}
  <2>1. IsFiniteSet(0..4)
    <3>1. 0 \in Int /\ 4 \in Int
      OBVIOUS
    <3>. QED  BY <3>1, FS_Interval, Zenon
  <2>2. IsFiniteSet(all)
    BY <2>1, FS_Subset
  <2>. QED  BY <2>2
<1>1. CASE difficulty \in all
  <2>1. ModelForDifficulty(models, difficulty) = models[difficulty]
    BY <1>1 DEF ModelForDifficulty
  <2>. QED  BY <1>0, <1>1, <2>1
<1>2. CASE difficulty \notin all /\ higher # {}
  <2>1. \E d \in higher : \A e \in higher : d <= e
    BY <1>0, <1>2, LeastNatural
  <2>2. lowest \in higher /\ \A e \in higher : lowest <= e
    BY <2>1, Zenon
  <2>3. ModelForDifficulty(models, difficulty) = models[lowest]
    BY <1>2 DEF ModelForDifficulty
  <2>. HIDE DEF lowest
  <2>4. lowest \in all /\ lowest >= difficulty
    BY <2>2
  <2>5. \A e \in all : e < lowest => e < difficulty
    <3>1. ASSUME NEW e \in all, e < lowest  PROVE e < difficulty
      <4>1. e \notin higher
        BY <1>0, <2>2, <2>4, <3>1
      <4>. QED  BY <1>0, <4>1
    <3>. QED  BY <3>1
  <2>. QED  BY <1>0, <2>3, <2>4, <2>5
<1>3. CASE difficulty \notin all /\ higher = {}
  <2>1. \E d \in all : \A e \in all : e <= d
    BY <1>0, GreatestNatural
  <2>2. highest \in all /\ \A e \in all : e <= highest
    BY <2>1, Zenon
  <2>3. ModelForDifficulty(models, difficulty) = models[highest]
    BY <1>3 DEF ModelForDifficulty
  <2>. HIDE DEF highest
  <2>4. ~(highest > difficulty)
    BY <1>0, <1>3, <2>2
  <2>. QED  BY <2>2, <2>3, <2>4
<1>. QED  BY <1>1, <1>2, <1>3

LEMMA ChosenFits ==
  ASSUME providers \in Configs, NEW difficulty \in 0..4,
         NEW choice \in SelectProviderAndModel("none", "none", difficulty)
  PROVE  ModelFits(choice, difficulty)
<1>. DEFINE candidates == {p \in DOMAIN providers : Enabled(p) /\ DOMAIN providers[p].models # {}}
<1>1. ~Enabled("none")
  BY ComposerAssumption DEF Enabled
<1>2. choice \in {<<p, ModelForDifficulty(providers[p].models, difficulty)>> :
                    p \in {x \in candidates :
                             \A y \in candidates : providers[x].priority <= providers[y].priority}}
  BY <1>1, Zenon DEF SelectProviderAndModel
<1>3. PICK p \in candidates :
        /\ choice = <<p, ModelForDifficulty(providers[p].models, difficulty)>>
        /\ \A y \in candidates : providers[p].priority <= providers[y].priority
  BY <1>2, Zenon
<1>4. choice[1] = p /\ choice[2] = ModelForDifficulty(providers[p].models, difficulty)
  BY <1>3
<1>5. Enabled(p) /\ DOMAIN providers[p].models # {} /\ DOMAIN providers[p].models \subseteq 0..4
  <2>1. p \in DOMAIN providers
    OBVIOUS
  <2>. QED  BY <2>1, ComposerAssumption
<1>6. \A q \in DOMAIN providers : Enabled(q) /\ DOMAIN providers[q].models # {} =>
        providers[p].priority <= providers[q].priority
  BY <1>3
<1>7. \E d \in DOMAIN providers[p].models :
        /\ providers[p].models[d] = ModelForDifficulty(providers[p].models, difficulty)
        /\ d < difficulty => \A e \in DOMAIN providers[p].models : e <= d
        /\ d > difficulty => \A e \in DOMAIN providers[p].models : e < d => e < difficulty
  BY <1>5, ModelForForm
<1>. HIDE DEF candidates
<1>. QED  BY <1>4, <1>5, <1>6, <1>7, Zenon DEF ModelFits
-----------------------------------------------------------------------------
(* The steps *)

StoreContent == Contents \cup {ServedBlock(t) : t \in ServedTypes} \cup {NoBlock}
OfferedEntry == [id : Ids, content : StoreContent, whole : {TRUE}]
ComposingPlaces == {"new", "storing", "composed", "asked", "answered", "submitted", "failed"}

IsComposition(g) ==
  g = [at |-> g.at, profile |-> g.profile, given |-> g.given, rest |-> g.rest, made |-> g.made,
       generates |-> g.generates, difficulty |-> g.difficulty, chosen |-> g.chosen]

\* A composition is what it should be at its place.
SoundComposition(g) ==
  /\ IsComposition(g)
  /\ g.at \in ComposingPlaces /\ g.profile \in Profiles /\ g.rest \in Seq(OfferedEntry)
  /\ g.rest # <<>> => g.at = "storing"
  /\ g.at \in {"storing", "composed", "asked"} => Offered(g.given)
  /\ g.at \in {"composed", "asked"} => PromptFits(g.profile, g.given, g.made)
  /\ g.at = "asked" => ModelFits(g.chosen, g.difficulty)

ComposerInv ==
  /\ ComposerTypeOK
  /\ composing = [c \in Compositions |-> composing[c]]
  /\ \A c \in Compositions : SoundComposition(composing[c])

LEMMA StoreContentForm ==
  /\ StoreContent \subseteq Content
  /\ OfferedEntry \subseteq GivenEntry
  /\ Contents \subseteq StoreContent /\ NoBlock \in StoreContent
  /\ \A t \in ServedTypes : ServedBlock(t) \in StoreContent
  /\ ComposerTypeOK => store \in [Ids -> StoreContent]
<1>1. \A t \in ServedTypes : ServedBlock(t) \in Content
  BY ComposerAssumption DEF ServedBlock, Content
<1>2. NoBlock \in Content
  BY DEF NoBlock, Content
<1>3. StoreContent \subseteq Content
  BY <1>1, <1>2, ComposerAssumption DEF StoreContent, Content
<1>4. OfferedEntry \subseteq GivenEntry
  BY <1>3 DEF OfferedEntry, GivenEntry
<1>. QED  BY <1>3, <1>4 DEF StoreContent, ComposerTypeOK

\* A composition that goes on; the others and the router stay as they are.
LEMMA ComposingForm ==
  ASSUME ComposerInv, NEW c \in Compositions, NEW from, NEW u, Composing(c, from, u)
  PROVE  /\ composing[c].at = from /\ composing'[c] = u /\ providers' = providers
         /\ composing' = [d \in Compositions |-> composing'[d]]
         /\ \A d \in Compositions : d # c => composing'[d] = composing[d]
BY DEF Composing, ComposerInv

\* With the router as it was, what was sound stays so.
LEMMA SoundKept ==
  ASSUME providers' = providers, NEW d \in Compositions,
         composing'[d] = composing[d], SoundComposition(composing[d])
  PROVE  SoundComposition(composing[d])'
<1>1. ModelFits(composing[d].chosen, composing[d].difficulty)'
        <=> ModelFits(composing[d].chosen, composing[d].difficulty)
  BY Zenon DEF ModelFits, Enabled
<1>. QED  BY <1>1 DEF SoundComposition

\* So a step has to be looked at only where it moves a composition.
LEMMA ComposerMoves ==
  ASSUME ComposerInv, NEW c \in Compositions, NEW from, NEW u, Composing(c, from, u),
         SoundComposition(u)', store' \in [Ids -> StoreContent],
         \/ pending' = pending /\ from \notin {"submitted", "failed"}
         \/ pending' \subseteq pending \cup {c} /\ u.at \in {"submitted", "failed"}
  PROVE  ComposerInv'
<1>1. /\ composing[c].at = from /\ composing'[c] = u /\ providers' = providers
      /\ composing' = [d \in Compositions |-> composing'[d]]
      /\ \A d \in Compositions : d # c => composing'[d] = composing[d]
  BY ComposingForm
<1>2. \A d \in Compositions : SoundComposition(composing[d])'
  <2>1. SoundComposition(composing[c])'
    BY <1>1
  <2>2. ASSUME NEW d \in Compositions, d # c  PROVE SoundComposition(composing[d])'
    <3>1. SoundComposition(composing[d]) /\ composing'[d] = composing[d]
      BY <1>1, <2>2 DEF ComposerInv
    <3>. QED  BY <1>1, <3>1, SoundKept
  <2>. QED  BY <2>1, <2>2
<1>3. /\ providers' \in Configs
      /\ store' \in [Ids -> Contents \cup {ServedBlock(t) : t \in ServedTypes} \cup {NoBlock}]
  BY <1>1 DEF ComposerInv, ComposerTypeOK, StoreContent
<1>4. pending' \subseteq {d \in Compositions : composing'[d].at \in {"submitted", "failed"}}
  <2>1. pending \subseteq {d \in Compositions : composing[d].at \in {"submitted", "failed"}}
    BY DEF ComposerInv, ComposerTypeOK
  <2>. QED  BY <1>1, <2>1
<1>5. \A d \in Compositions :
        /\ composing'[d].at \in ComposingPlaces
        /\ composing'[d].profile \in Profiles
        /\ composing'[d].rest # <<>> => composing'[d].at = "storing"
  BY <1>2 DEF SoundComposition
<1>6. ComposerTypeOK'
  BY <1>3, <1>4, <1>5 DEF ComposerTypeOK, ComposingPlaces, ServedBlock, NoBlock, Profiles, Ids
<1>. QED  BY <1>1, <1>2, <1>6 DEF ComposerInv

\* Whoever gives blocks gives them whole, and each once or one block twice.
LEMMA OfferedForm ==
  ASSUME NEW given \in Seq(OfferedEntry),
         \/ \A i, j \in DOMAIN given : i # j => given[i].id # given[j].id
         \/ \A i, j \in DOMAIN given : given[i] = given[j]
  PROVE  Offered(given)
<1>1. \A i \in DOMAIN given : given[i] \in OfferedEntry
  OBVIOUS
<1>2. \A i \in DOMAIN given : given[i].whole
  BY <1>1 DEF OfferedEntry
<1>3. given \in Seq(GivenEntry)
  BY <1>1, StoreContentForm
<1>. QED  BY <1>2, <1>3 DEF Offered

LEMMA GivenBlocks ==
  ASSUME ComposerInv, NEW c \in Compositions, NEW profile \in Profiles,
         NEW given \in Seq(OfferedEntry), Offered(given), NEW u,
         \/ u = [composing[c] EXCEPT !.at = "storing", !.profile = profile,
                                     !.given = given, !.rest = given]
         \/ u = [composing[c] EXCEPT !.at = "storing", !.profile = profile,
                                     !.given = given, !.rest = given, !.generates = TRUE],
         Composing(c, "new", u), store' = store, pending' = pending
  PROVE  ComposerInv'
<1>1. SoundComposition(composing[c])
  BY DEF ComposerInv
<1>2. /\ u.at = "storing" /\ u.profile = profile /\ u.given = given /\ u.rest = given
      /\ IsComposition(u)
  BY <1>1 DEF SoundComposition, IsComposition
<1>3. SoundComposition(u)'
  BY <1>2 DEF SoundComposition, ComposingPlaces
<1>4. store' \in [Ids -> StoreContent]
  BY StoreContentForm DEF ComposerInv
<1>. QED  BY <1>3, <1>4, ComposerMoves

LEMMA ListBlocksStep ==
  ASSUME ComposerInv, NEW c \in Compositions, NEW profile \in Profiles, ListBlocks(c, profile)
  PROVE  ComposerInv'
<1>1. PICK ids \in SetToSeqs(Stored) :
        LET given == [i \in DOMAIN ids |-> Entry(ids[i], store[ids[i]])] IN
        /\ Composing(c, "new", [composing[c] EXCEPT !.at = "storing", !.profile = profile,
                                                    !.given = given, !.rest = given,
                                                    !.generates = TRUE])
        /\ UNCHANGED <<store, pending>>
  BY DEF ListBlocks
<1>. DEFINE n == Cardinality(Stored)
<1>2. PICK given : given = [i \in DOMAIN ids |-> Entry(ids[i], store[ids[i]])]
  OBVIOUS
<1>3. n \in Nat /\ Stored \subseteq Ids
  <2>1. IsFiniteSet(Ids)
    BY ComposerAssumption, FS_Union DEF Ids
  <2>2. Stored \subseteq Ids
    BY DEF Stored
  <2>3. IsFiniteSet(Stored)
    BY <2>1, <2>2, FS_Subset
  <2>. QED  BY <2>2, <2>3, FS_CardinalityType
<1>4. ids \in [1..n -> Stored] /\ \A i, j \in 1..n : i # j => ids[i] # ids[j]
  BY DEF SetToSeqs
<1>. HIDE DEF n
<1>5. given = [i \in 1..n |-> Entry(ids[i], store[ids[i]])]
  BY <1>2, <1>4
<1>6. \A i \in 1..n : /\ given[i] = Entry(ids[i], store[ids[i]])
                     /\ given[i].id = ids[i] /\ given[i] \in OfferedEntry
  <2>1. store \in [Ids -> StoreContent]
    BY StoreContentForm DEF ComposerInv
  <2>2. ASSUME NEW i \in 1..n
        PROVE  /\ given[i] = Entry(ids[i], store[ids[i]])
               /\ given[i].id = ids[i] /\ given[i] \in OfferedEntry
    <3>1. ids[i] \in Ids /\ store[ids[i]] \in StoreContent
      BY <1>3, <1>4, <2>1
    <3>2. given[i] = Entry(ids[i], store[ids[i]])
      BY <1>5
    <3>. QED  BY <3>1, <3>2 DEF Entry, OfferedEntry
  <2>. QED  BY <2>2
<1>7. given \in Seq(OfferedEntry) /\ DOMAIN given = 1..n
  BY <1>3, <1>5, <1>6
<1>8. Offered(given)
  <2>1. \A i, j \in DOMAIN given : i # j => given[i].id # given[j].id
    <3>1. ASSUME NEW i \in 1..n, NEW j \in 1..n, i # j  PROVE given[i].id # given[j].id
      <4>1. given[i].id = ids[i] /\ given[j].id = ids[j]
        BY <1>6
      <4>2. ids[i] # ids[j]
        BY <1>4, <3>1
      <4>. QED  BY <4>1, <4>2
    <3>. QED  BY <1>7, <3>1
  <2>. QED  BY <1>7, <2>1, OfferedForm, Zenon
<1>9. PICK u : u = [composing[c] EXCEPT !.at = "storing", !.profile = profile,
                                        !.given = given, !.rest = given, !.generates = TRUE]
  OBVIOUS
<1>10. Composing(c, "new", u) /\ store' = store /\ pending' = pending
  BY <1>1, <1>2, <1>9
<1>. QED  BY <1>7, <1>8, <1>9, <1>10, GivenBlocks

LEMMA ServeComposeStep ==
  ASSUME ComposerInv, NEW c \in Compositions, NEW profile \in Profiles,
         NEW t \in ServedTypes, NEW w \in ServedTypes, ServeCompose(c, profile, <<t, w>>)
  PROVE  ComposerInv'
<1>1. PICK given : given = <<Entry(t, ServedBlock(t)), Entry(w, ServedBlock(w))>>
  OBVIOUS
<1>2. given = [i \in DOMAIN <<t, w>> |-> Entry(<<t, w>>[i], ServedBlock(<<t, w>>[i]))]
  BY <1>1
<1>3. Entry(t, ServedBlock(t)) \in OfferedEntry /\ Entry(w, ServedBlock(w)) \in OfferedEntry
  BY StoreContentForm DEF Entry, OfferedEntry, Ids
<1>4. given \in Seq(OfferedEntry) /\ DOMAIN given = {1, 2}
  BY <1>1, <1>3
<1>5. Offered(given)
  <2>1. CASE t = w
    <3>1. \A i, j \in DOMAIN given : given[i] = given[j]
      BY <1>1, <1>4, <2>1
    <3>. QED  BY <1>4, <3>1, OfferedForm
  <2>2. CASE t # w
    <3>1. given[1].id = t /\ given[2].id = w
      BY <1>1 DEF Entry
    <3>2. \A i, j \in DOMAIN given : i # j => given[i].id # given[j].id
      BY <1>4, <2>2, <3>1
    <3>. QED  BY <1>4, <3>2, OfferedForm
  <2>. QED  BY <2>1, <2>2
<1>6. PICK u : u = [composing[c] EXCEPT !.at = "storing", !.profile = profile,
                                        !.given = given, !.rest = given]
  OBVIOUS
<1>7. Composing(c, "new", u) /\ store' = store /\ pending' = pending
  BY <1>2, <1>6 DEF ServeCompose
<1>. QED  BY <1>4, <1>5, <1>6, <1>7, GivenBlocks

LEMMA StoreGivenStep ==
  ASSUME ComposerInv, NEW c \in Compositions, StoreGiven(c)
  PROVE  ComposerInv'
<1>1. SoundComposition(composing[c]) /\ store \in [Ids -> StoreContent]
  BY StoreContentForm DEF ComposerInv
<1>2. PICK u : u = [composing[c] EXCEPT !.rest = Tail(@)]
  OBVIOUS
<1>3. /\ Composing(c, "storing", u) /\ composing[c].rest # <<>> /\ pending' = pending
      /\ store' = [store EXCEPT ![Head(composing[c].rest).id] = Head(composing[c].rest).content]
  BY <1>2 DEF StoreGiven
<1>4. composing[c].rest \in Seq(OfferedEntry)
  BY <1>1 DEF SoundComposition
<1>5. Head(composing[c].rest) \in OfferedEntry /\ Tail(composing[c].rest) \in Seq(OfferedEntry)
  BY <1>3, <1>4
<1>6. store' \in [Ids -> StoreContent]
  BY <1>1, <1>3, <1>5 DEF OfferedEntry
<1>7. composing[c].at = "storing"
  BY <1>3 DEF Composing
<1>8. /\ u.at = "storing" /\ u.profile = composing[c].profile /\ u.given = composing[c].given
      /\ u.rest = Tail(composing[c].rest)
      /\ IsComposition(u)
  BY <1>1, <1>2, <1>7 DEF SoundComposition, IsComposition
<1>9. SoundComposition(u)'
  BY <1>1, <1>5, <1>7, <1>8 DEF SoundComposition, ComposingPlaces
<1>. QED  BY <1>3, <1>6, <1>9, ComposerMoves

LEMMA ComposedStep ==
  ASSUME ComposerInv, NEW c \in Compositions, composing[c].rest = <<>>,
         Composing(c, "storing",
                   [composing[c] EXCEPT
                      !.at = "composed",
                      !.made = ComposeBlocks(composing[c].profile, composing[c].given)]),
         UNCHANGED <<store, pending>>
  PROVE  ComposerInv'
<1>1. SoundComposition(composing[c]) /\ store \in [Ids -> StoreContent]
  BY StoreContentForm DEF ComposerInv
<1>2. PICK made : made = ComposeBlocks(composing[c].profile, composing[c].given)
  OBVIOUS
<1>3. PICK u : u = [composing[c] EXCEPT !.at = "composed", !.made = made]
  OBVIOUS
<1>4. /\ Composing(c, "storing", u) /\ composing[c].rest = <<>>
      /\ store' = store /\ pending' = pending
  BY <1>2, <1>3
<1>5. composing[c].at = "storing"
  BY <1>4 DEF Composing
<1>6. composing[c].profile \in Profiles /\ Offered(composing[c].given)
  BY <1>1, <1>5 DEF SoundComposition
<1>7. PromptFits(composing[c].profile, composing[c].given, made)
  BY <1>2, <1>6, ComposedFits
<1>8. /\ u.at = "composed" /\ u.profile = composing[c].profile /\ u.given = composing[c].given
      /\ u.rest = <<>> /\ u.made = made
      /\ IsComposition(u)
  BY <1>1, <1>3, <1>4 DEF SoundComposition, IsComposition
<1>9. SoundComposition(u)'
  BY <1>6, <1>7, <1>8 DEF SoundComposition, ComposingPlaces
<1>. QED  BY <1>1, <1>4, <1>9, ComposerMoves

\* A composition that ends, answered or failed, keeps nothing.
LEMMA EndStep ==
  ASSUME ComposerInv, NEW c \in Compositions, NEW from \in {"storing", "composed", "asked"},
         NEW how \in {"answered", "failed"},
         Composing(c, from, [NoComposition EXCEPT !.at = how]), UNCHANGED <<store, pending>>
  PROVE  ComposerInv'
<1>1. PICK u : u = [NoComposition EXCEPT !.at = how]
  OBVIOUS
<1>2. /\ u.at = how /\ u.profile = "task" /\ u.rest = <<>>
      /\ IsComposition(u)
  BY <1>1 DEF NoComposition, IsComposition
<1>3. SoundComposition(u)'
  BY <1>2 DEF SoundComposition, ComposingPlaces, Profiles
<1>4. store' \in [Ids -> StoreContent] /\ pending' = pending
  BY StoreContentForm DEF ComposerInv
<1>. QED  BY <1>1, <1>3, <1>4, ComposerMoves

LEMMA ComposeStep ==
  ASSUME ComposerInv, NEW c \in Compositions, Compose(c)
  PROVE  ComposerInv'
<1>1. UNCHANGED <<store, pending>> /\ composing[c].rest = <<>>
  BY DEF Compose
<1>2. \/ Composing(c, "storing",
                   [composing[c] EXCEPT
                      !.at = "composed",
                      !.made = ComposeBlocks(composing[c].profile, composing[c].given)])
      \/ Composing(c, "storing", [NoComposition EXCEPT !.at = "failed"])
  BY Zenon DEF Compose
<1>. QED  BY <1>1, <1>2, ComposedStep, EndStep

LEMMA GenerateStep ==
  ASSUME ComposerInv, NEW c \in Compositions, NEW difficulty \in 0..4, Generate(c, difficulty)
  PROVE  ComposerInv'
<1>. DEFINE choices == SelectProviderAndModel("none", "none", difficulty)
<1>1. \/ \E choice \in choices :
            Composing(c, "composed", [composing[c] EXCEPT !.at = "asked", !.chosen = choice,
                                                          !.difficulty = difficulty])
      \/ Composing(c, "composed", [NoComposition EXCEPT !.at = "failed"])
  BY Zenon DEF Generate
<1>2. store' = store /\ pending' = pending
  BY DEF Generate
<1>. HIDE DEF choices
<1>3. CASE Composing(c, "composed", [NoComposition EXCEPT !.at = "failed"])
  BY <1>2, <1>3, EndStep
<1>4. ASSUME NEW choice \in choices,
             Composing(c, "composed", [composing[c] EXCEPT !.at = "asked", !.chosen = choice,
                                                           !.difficulty = difficulty])
      PROVE  ComposerInv'
  <2>1. SoundComposition(composing[c]) /\ providers \in Configs
    BY DEF ComposerInv, ComposerTypeOK
  <2>2. PICK u : u = [composing[c] EXCEPT !.at = "asked", !.chosen = choice,
                                          !.difficulty = difficulty]
    OBVIOUS
  <2>3. Composing(c, "composed", u)
    BY <1>4, <2>2
  <2>4. composing[c].at = "composed" /\ providers' = providers
    BY <2>3 DEF Composing
  <2>5. ModelFits(choice, difficulty)
    BY <2>1, ChosenFits DEF choices
  <2>6. ModelFits(choice, difficulty)'
    <3>1. ModelFits(choice, difficulty)' <=> ModelFits(choice, difficulty)
      BY <2>4, Zenon DEF ModelFits, Enabled
    <3>. QED  BY <2>5, <3>1
  <2>7. /\ u.at = "asked" /\ u.profile = composing[c].profile /\ u.given = composing[c].given
        /\ u.rest = composing[c].rest /\ u.made = composing[c].made
        /\ u.difficulty = difficulty /\ u.chosen = choice
        /\ IsComposition(u)
    BY <2>1, <2>2 DEF SoundComposition, IsComposition
  <2>8. /\ u.profile \in Profiles /\ u.rest = <<>> /\ Offered(u.given)
        /\ PromptFits(u.profile, u.given, u.made)
    BY <2>1, <2>4, <2>7 DEF SoundComposition
  <2>9. SoundComposition(u)'
    BY <2>6, <2>7, <2>8 DEF SoundComposition, ComposingPlaces
  <2>10. store' \in [Ids -> StoreContent]
    BY <1>2, StoreContentForm DEF ComposerInv
  <2>. QED  BY <1>2, <2>3, <2>9, <2>10, ComposerMoves
<1>. QED  BY <1>1, <1>3, <1>4

\* A request that is submitted has no context of its own.
LEMMA RequestStep ==
  ASSUME ComposerInv, NEW c \in Compositions,
         NEW from \in {"new", "submitted"}, NEW to \in {"submitted", "failed"},
         Composing(c, from, [composing[c] EXCEPT !.at = to]),
         store' = store, pending' \subseteq pending \cup {c}
  PROVE  ComposerInv'
<1>1. SoundComposition(composing[c]) /\ store' \in [Ids -> StoreContent]
  BY StoreContentForm DEF ComposerInv
<1>2. composing[c].at = from
  BY DEF Composing
<1>3. PICK u : u = [composing[c] EXCEPT !.at = to]
  OBVIOUS
<1>4. /\ u.at = to /\ u.profile = composing[c].profile /\ u.rest = composing[c].rest
      /\ IsComposition(u)
  BY <1>1, <1>3 DEF SoundComposition, IsComposition
<1>5. u.profile \in Profiles /\ u.rest = <<>> /\ u.rest \in Seq(OfferedEntry)
  BY <1>1, <1>2, <1>4 DEF SoundComposition
<1>6. SoundComposition(u)'
  BY <1>4, <1>5 DEF SoundComposition, ComposingPlaces
<1>. QED  BY <1>1, <1>3, <1>4, <1>6, ComposerMoves

\* No composition is moved by what clients do to the store.
LEMMA StoreStep ==
  ASSUME ComposerInv, store' \in [Ids -> StoreContent],
         UNCHANGED <<providers, composing, pending>>
  PROVE  ComposerInv'
<1>1. \A d \in Compositions : SoundComposition(composing[d])'
  <2>1. ASSUME NEW d \in Compositions  PROVE SoundComposition(composing[d])'
    <3>1. SoundComposition(composing[d]) /\ composing'[d] = composing[d] /\ providers' = providers
      BY DEF ComposerInv
    <3>. QED  BY <3>1, SoundKept
  <2>. QED  BY <2>1
<1>2. ComposerTypeOK'
  BY DEF ComposerInv, ComposerTypeOK, StoreContent, ServedBlock, NoBlock, Profiles, Ids
<1>. QED  BY <1>1, <1>2 DEF ComposerInv

LEMMA ComposerInitially ==
  ASSUME ComposerInit
  PROVE  ComposerInv
<1>1. \A c \in Compositions : composing[c] = NoComposition
  BY DEF ComposerInit
<1>2. \A c \in Compositions : SoundComposition(composing[c])
  <2>1. PICK u : u = NoComposition
    OBVIOUS
  <2>2. /\ u.at = "new" /\ u.profile = "task" /\ u.rest = <<>>
        /\ IsComposition(u)
    BY <2>1 DEF NoComposition, IsComposition
  <2>3. SoundComposition(u)
    BY <2>2 DEF SoundComposition, ComposingPlaces, Profiles
  <2>. QED  BY <1>1, <2>1, <2>3
<1>3. store \in [Ids -> StoreContent]
  BY StoreContentForm DEF ComposerInit
<1>4. ComposerTypeOK
  BY <1>1, <1>2, <1>3
  DEF ComposerTypeOK, ComposerInit, SoundComposition, ComposingPlaces, StoreContent
<1>. QED  BY <1>2, <1>4 DEF ComposerInv, ComposerInit

LEMMA ComposerStep ==
  ASSUME ComposerInv, [ComposerNext]_composerVars
  PROVE  ComposerInv'
<1>0. store \in [Ids -> StoreContent]
  BY StoreContentForm DEF ComposerInv
<1>1. ASSUME NEW b \in Blocks, NEW content \in Contents, UpsertBlock(b, content)
      PROVE  ComposerInv'
  <2>1. store' \in [Ids -> StoreContent]
    BY <1>0, <1>1, StoreContentForm DEF UpsertBlock
  <2>. QED  BY <1>1, <2>1, StoreStep DEF UpsertBlock
<1>2. ASSUME NEW b \in Blocks, RemoveBlock(b)
      PROVE  ComposerInv'
  <2>1. store' \in [Ids -> StoreContent]
    BY <1>0, <1>2, StoreContentForm DEF RemoveBlock
  <2>. QED  BY <1>2, <2>1, StoreStep DEF RemoveBlock
<1>3. CASE ClearAllBlocks
  <2>1. store' \in [Ids -> StoreContent]
    BY <1>3, StoreContentForm DEF ClearAllBlocks
  <2>. QED  BY <1>3, <2>1, StoreStep DEF ClearAllBlocks
<1>4. ASSUME NEW c \in Compositions, NEW how \in {"answered", "failed"}, ModelAnswers(c, how)
      PROVE  ComposerInv'
  BY <1>4, EndStep DEF ModelAnswers
<1>5. ASSUME NEW c \in Compositions, NEW p, NEW m, NEW difficulty,
             SubmitRequest(c, p, m, difficulty)
      PROVE  ComposerInv'
  BY <1>5, RequestStep DEF SubmitRequest
<1>6. ASSUME NEW c \in Compositions, AwaitResponse(c)
      PROVE  ComposerInv'
  BY <1>6, RequestStep DEF AwaitResponse
<1>7. CASE UNCHANGED composerVars
  BY <1>0, <1>7, StoreStep DEF composerVars
<1>. QED
  BY <1>1, <1>2, <1>3, <1>4, <1>5, <1>6, <1>7, ListBlocksStep, ServeComposeStep,
     StoreGivenStep, ComposeStep, GenerateStep DEF ComposerNext

\* A composition is always at one of its places and stores what it was given
\* only while it is storing, and a request that is noted as pending is one that
\* was submitted.
THEOREM ComposerTypeCorrect == ComposerSpec => []ComposerTypeOK
<1>1. ComposerInv => ComposerTypeOK
  BY DEF ComposerInv
<1>. QED  BY <1>1, ComposerInitially, ComposerStep, PTL DEF ComposerSpec

\* Whatever the store held, whoever changed it meanwhile and in whichever order
\* its blocks were listed, what compose_blocks makes fits the profile it was made
\* for, and the model that is asked fits the difficulty of the task.
THEOREM GenerationsFit == ComposerSpec => []GenerationFits
<1>1. ComposerInv => GenerationFits
  BY DEF ComposerInv, SoundComposition, GenerationFits
<1>. QED  BY <1>1, ComposerInitially, ComposerStep, PTL DEF ComposerSpec

-----------------------------------------------------------------------------
(***************************************************************************)
(* Proofs about skill calls, for any number of calls and directories and   *)
(* any requests.                                                           *)
(*                                                                         *)
(* The statistics are right because a call has them changed once, when it  *)
(* comes back, and counts as a success only if it was recorded             *)
(* (CommandsAccepted, StatsTrue).  A call that looks for a directory has   *)
(* one to look for (HasToLock), so that there is a lowest.                 *)
(***************************************************************************)

CallPlaces == {"new", "outer", "outerWait", "outerFree", "locking", "waiting", "free",
               "calling", "running", "returning"} \cup CallOver

OuterPlaces == {"outer", "outerWait", "outerFree"}

CallTypes ==
  /\ callAt \in [Callers -> CallPlaces] /\ wanted \in [Callers -> SkillRequests]
  /\ wants \in [Callers -> SUBSET Folders] /\ holds \in [Callers -> SUBSET Folders]
  /\ succeeded \in [Callers -> BOOLEAN]
  /\ rowOf \in [Folders -> Callers \cup {NoRow, "composer_skill"}]

\* A call that looks for a lock has one to take.
HasToLock ==
  \A c \in Callers :
    /\ callAt[c] \in {"locking", "waiting", "free"} => wants[c] # {}
    /\ callAt[c] \in OuterPlaces => wanted[c].via = "locked"

\* Only a request that was accepted has ever had a command.
CommandsAccepted ==
  /\ processOf \cup recorded \subseteq {c \in Callers : callAt[c] # "new" /\ Accepted(wanted[c])}
  /\ \A c \in Callers : callAt[c] = "running" => c \in processOf
  /\ \A c \in Callers :
       succeeded[c] => c \in recorded /\ callAt[c] \in {"returning", "answered"}

Back == {c \in Callers : callAt[c] = "answered"}
BackWell == {c \in Back : succeeded[c]}

\* The statistics have each call that came back once at most.
Tallied == [ok : Nat, failed : Nat]
StatsTrue ==
  /\ stats \in Tallied
  /\ stats.ok = Cardinality(BackWell)
  /\ stats.ok + stats.failed <= Cardinality(Back)

SkillInv == CallTypes /\ HasToLock /\ CommandsAccepted /\ StatsTrue

LEMMA FinitelyBack ==
  /\ IsFiniteSet(Back) /\ IsFiniteSet(BackWell)
  /\ Cardinality(Back) \in Nat /\ Cardinality(BackWell) \in Nat
<1>1. Back \subseteq Callers /\ BackWell \subseteq Back
  BY DEF Back, BackWell
<1>2. IsFiniteSet(Back) /\ IsFiniteSet(BackWell)
  BY <1>1, SkillAssumption, FS_Subset
<1>. QED  BY <1>2, FS_CardinalityType

LEMMA FinitelyBackNext ==
  /\ IsFiniteSet(Back') /\ IsFiniteSet(BackWell')
  /\ Cardinality(Back') \in Nat /\ Cardinality(BackWell') \in Nat
<1>1. Back' \subseteq Callers /\ BackWell' \subseteq Back'
  BY DEF Back, BackWell
<1>2. IsFiniteSet(Back') /\ IsFiniteSet(BackWell')
  BY <1>1, SkillAssumption, FS_Subset
<1>. QED  BY <1>2, FS_CardinalityType

\* What moves no call back and does not touch the statistics keeps them true,
\* and so does what only answers calls that failed.
LEMMA StatsKept ==
  ASSUME StatsTrue, stats' = stats, BackWell' = BackWell, Back \subseteq Back'
  PROVE  StatsTrue'
<1>1. Cardinality(Back) <= Cardinality(Back')
  BY FinitelyBackNext, FS_Subset
<1>2. /\ stats \in Tallied /\ stats.ok = Cardinality(BackWell)
      /\ stats.ok + stats.failed <= Cardinality(Back)
  BY DEF StatsTrue
<1>3. stats.ok + stats.failed <= Cardinality(Back')
  <2>1. stats.ok \in Nat /\ stats.failed \in Nat
    BY <1>2 DEF Tallied
  <2>. QED  BY <1>1, <1>2, <2>1, FinitelyBack, FinitelyBackNext
<1>4. stats' \in Tallied /\ stats'.ok = Cardinality(BackWell')
      /\ stats'.ok + stats'.failed <= Cardinality(Back')
  BY <1>2, <1>3
<1>. QED  BY <1>4 DEF StatsTrue, Tallied

\* A call that goes from a place to another which is not "answered", or is
\* answered without having succeeded.
LEMMA MoveKept ==
  ASSUME SkillInv, NEW c \in Callers, NEW place \in CallPlaces, GoTo(c, place),
         callAt[c] \notin CallOver, place # "new", ~succeeded[c] \/ place = "returning",
         \A d \in Callers : succeeded'[d] = succeeded[d] \/ (d = c /\ place = "returning"),
         stats' = stats
  PROVE  StatsTrue'
<1>1. /\ callAt \in [Callers -> CallPlaces] /\ StatsTrue
  BY DEF SkillInv, CallTypes
<1>2. callAt'[c] = place /\ \A d \in Callers : d # c => callAt'[d] = callAt[d]
  BY <1>1 DEF GoTo
<1>3. Back \subseteq Back'
  BY <1>2 DEF Back, CallOver
<1>4. BackWell' = BackWell
  BY <1>2 DEF Back, BackWell, CallOver
<1>. QED  BY <1>1, <1>3, <1>4, StatsKept

\* The lowest directory is one of those that a call has yet to lock.
LEMMA NextIsWanted ==
  ASSUME CallTypes, NEW c \in Callers, wants[c] # {}, ~OuterTurn(c)
  PROVE  NextFolder(c) \in wants[c]
<1>1. wants[c] \in SUBSET Nat
  BY SkillAssumption DEF CallTypes
<1>2. \E d \in wants[c] : \A e \in wants[c] : d <= e
  BY <1>1, LeastNatural
<1>3. (CHOOSE d \in wants[c] : \A e \in wants[c] : d <= e) \in wants[c]
  BY <1>2, Zenon
<1>4. NextFolder(c) = CHOOSE d \in wants[c] : \A e \in wants[c] : d <= e
  BY Zenon DEF NextFolder
<1>. QED  BY <1>3, <1>4

LEMMA BeginStep ==
  ASSUME SkillInv, NEW c \in Callers, BeginCall(c)
  PROVE  SkillInv'
<1>1. PICK q \in SkillRequests :
        /\ wanted' = [wanted EXCEPT ![c] = q]
        /\ wants' = [wants EXCEPT ![c] = q.folders]
        /\ GoTo(c, CASE q.via = "locked"  -> "outer"
                     [] q.folders = {}    -> "calling"
                     [] OTHER             -> "locking")
  BY DEF BeginCall
<1>2. /\ UNCHANGED <<holds, succeeded, rowOf, processOf, recorded, stats>>
      /\ callAt[c] = "new" /\ CallTypes /\ q.folders \subseteq Folders
  BY SkillAssumption DEF BeginCall, SkillInv
<1>3. PICK place : /\ place \in {"outer", "calling", "locking"} /\ GoTo(c, place)
                   /\ place = "locking" => q.folders # {}
                   /\ place = "outer" => q.via = "locked"
  <2>1. CASE q.via = "locked"
    BY <1>1, <2>1
  <2>2. CASE q.via # "locked" /\ q.folders = {}
    BY <1>1, <2>2
  <2>3. CASE q.via # "locked" /\ q.folders # {}
    BY <1>1, <2>3
  <2>. QED  BY <2>1, <2>2, <2>3
<1>4. ~succeeded[c] /\ c \notin processOf \cup recorded
  BY <1>2 DEF SkillInv, CommandsAccepted
<1>5. CallTypes'
  BY <1>1, <1>2, <1>3 DEF CallTypes, CallPlaces, GoTo
<1>6. HasToLock'
  BY <1>1, <1>2, <1>3 DEF SkillInv, HasToLock, CallTypes, GoTo, OuterPlaces
<1>7. CommandsAccepted'
  BY <1>1, <1>2, <1>3, <1>4 DEF SkillInv, CommandsAccepted, CallTypes, GoTo, Accepted, ValidCommand
<1>8. StatsTrue'
  BY <1>2, <1>3, <1>4, MoveKept DEF CallPlaces, CallOver
<1>. QED  BY <1>5, <1>6, <1>7, <1>8 DEF SkillInv

\* Steps that move a call and touch neither requests nor commands.
LEMMA PlaceStep ==
  ASSUME SkillInv, NEW c \in Callers, NEW place \in CallPlaces, GoTo(c, place),
         callAt[c] \notin CallOver \cup {"returning"}, place \notin {"new", "running"},
         place \in {"locking", "waiting", "free"} => wants'[c] # {},
         place \in OuterPlaces => wanted[c].via = "locked",
         \A d \in Callers : d # c => wants'[d] = wants[d],
         wants' \in [Callers -> SUBSET Folders], holds' \in [Callers -> SUBSET Folders],
         rowOf' \in [Folders -> Callers \cup {NoRow, "composer_skill"}],
         callAt[c] # "new" \/ place = "answered",
         UNCHANGED <<wanted, succeeded, processOf, recorded, stats>>
  PROVE  SkillInv'
<1>1. CallTypes /\ HasToLock /\ CommandsAccepted
  BY DEF SkillInv
<1>2. callAt'[c] = place /\ \A d \in Callers : d # c => callAt'[d] = callAt[d]
  BY <1>1 DEF CallTypes, GoTo
<1>3. ~succeeded[c]
  BY <1>1 DEF CommandsAccepted, CallOver
<1>4. CallTypes'
  BY <1>1 DEF CallTypes, GoTo
<1>5. HasToLock'
  BY <1>1, <1>2 DEF HasToLock
<1>6. CommandsAccepted'
  <2>1. /\ processOf \cup recorded
             \subseteq {d \in Callers : callAt[d] # "new" /\ Accepted(wanted[d])}
        /\ \A d \in Callers : callAt[d] = "running" => d \in processOf
        /\ \A d \in Callers :
             succeeded[d] => d \in recorded /\ callAt[d] \in {"returning", "answered"}
    BY <1>1 DEF CommandsAccepted
  <2>2. \A d \in Callers : Accepted(wanted[d])' <=> Accepted(wanted[d])
    BY DEF Accepted, ValidCommand
  <2>3. \A d \in Callers : callAt'[d] # "new" \/ callAt[d] = "new"
    BY <1>2
  <2>4. (processOf \cup recorded)' \subseteq
          {d \in Callers : callAt'[d] # "new" /\ Accepted(wanted[d])'}
    BY <2>1, <2>2, <2>3
  <2>5. \A d \in Callers : callAt'[d] = "running" => d \in processOf'
    BY <1>2, <2>1
  <2>6. \A d \in Callers :
          succeeded'[d] => d \in recorded' /\ callAt'[d] \in {"returning", "answered"}
    BY <1>2, <1>3, <2>1
  <2>. QED  BY <2>4, <2>5, <2>6 DEF CommandsAccepted
<1>7. StatsTrue'
  BY <1>3, MoveKept
<1>. QED  BY <1>4, <1>5, <1>6, <1>7 DEF SkillInv

\* Steps that move a call and leave all else alone.
LEMMA OnlyMoves ==
  ASSUME SkillInv, NEW c \in Callers, NEW place \in CallPlaces, GoTo(c, place),
         callAt[c] \notin CallOver \cup {"returning"}, place \notin {"new", "running"},
         place \in {"locking", "waiting", "free"} => wants[c] # {},
         place \in OuterPlaces => wanted[c].via = "locked",
         callAt[c] # "new" \/ place = "answered",
         UNCHANGED <<wanted, wants, holds, succeeded, rowOf, processOf, recorded, stats>>
  PROVE  SkillInv'
<1>1. /\ wants' \in [Callers -> SUBSET Folders] /\ holds' \in [Callers -> SUBSET Folders]
      /\ rowOf' \in [Folders -> Callers \cup {NoRow, "composer_skill"}]
      /\ place \in {"locking", "waiting", "free"} => wants'[c] # {}
      /\ \A d \in Callers : d # c => wants'[d] = wants[d]
  BY DEF SkillInv, CallTypes
<1>. QED  BY <1>1, PlaceStep

LEMMA MovingSteps ==
  ASSUME SkillInv, NEW c \in Callers,
         \/ RejectParameters(c)
         \/ LockTimesOut(c)
         \/ CallRefused(c)
         \/ CommandTimesOut(c)
         \/ CallDropped(c)
  PROVE  SkillInv'
<1>1. UNCHANGED <<wanted, wants, holds, succeeded, rowOf, processOf, recorded, stats>>
  BY DEF RejectParameters, LockTimesOut, CallRefused, CommandTimesOut, CallDropped
<1>2. PICK place \in {"answered", "returning", "gone"} :
        /\ GoTo(c, place) /\ callAt[c] \notin CallOver \cup {"returning"}
        /\ callAt[c] # "new" \/ place = "answered"
  BY DEF RejectParameters, LockTimesOut, CallRefused, CommandTimesOut, CallDropped, CallOver
<1>. QED  BY <1>1, <1>2, OnlyMoves DEF CallPlaces, CallOver, OuterPlaces

LEMMA TryStep ==
  ASSUME SkillInv, NEW c \in Callers, TryLock(c)
  PROVE  SkillInv'
<1>1. /\ callAt[c] \in {"outer", "outerWait", "locking", "waiting"}
      /\ UNCHANGED <<wanted, wants, holds, succeeded, rowOf, processOf, recorded, stats>>
  BY DEF TryLock
<1>2. PICK place : /\ GoTo(c, place)
                   /\ \/ OuterTurn(c) /\ place \in {"outerFree", "outerWait"}
                      \/ ~OuterTurn(c) /\ place \in {"free", "waiting"}
  BY Zenon DEF TryLock
<1>3. place \in {"free", "waiting"} => wants[c] # {}
  <2>1. CASE callAt[c] \in {"locking", "waiting"}
    BY <2>1 DEF SkillInv, HasToLock
  <2>2. CASE callAt[c] \in {"outer", "outerWait"}
    <3>1. wanted[c].via = "locked"
      BY <2>2 DEF SkillInv, HasToLock, OuterPlaces
    <3>. QED  BY <1>2, <2>2, <3>1 DEF OuterTurn
  <2>. QED  BY <1>1, <2>1, <2>2
<1>. QED  BY <1>1, <1>2, <1>3, OnlyMoves DEF CallPlaces, CallOver, OuterPlaces, OuterTurn

LEMMA TakeStep ==
  ASSUME SkillInv, NEW c \in Callers, TakeLock(c)
  PROVE  SkillInv'
<1>1. /\ callAt[c] \in {"outerFree", "free"} /\ CallTypes
      /\ UNCHANGED <<wanted, succeeded, processOf, recorded, stats>>
      /\ rowOf' = [rowOf EXCEPT ![NextFolder(c)] = ExecutorFor(c)]
  BY DEF TakeLock, SkillInv
<1>2. rowOf' \in [Folders -> Callers \cup {NoRow, "composer_skill"}]
  <2>1. ExecutorFor(c) \in Callers \cup {NoRow, "composer_skill"}
    BY DEF ExecutorFor
  <2>. QED  BY <1>1, <2>1 DEF CallTypes
<1>3. CASE OuterTurn(c)
  <2>1. UNCHANGED <<wants, holds>> /\ GoTo(c, Locking(c))
    BY <1>3, Zenon DEF TakeLock
  <2>2. Locking(c) \in {"calling", "locking"} /\ (Locking(c) = "locking" => wants[c] # {})
    BY DEF Locking
  <2>3. wants' \in [Callers -> SUBSET Folders] /\ holds' \in [Callers -> SUBSET Folders]
    BY <1>1, <2>1 DEF CallTypes
  <2>. QED  BY <1>1, <1>2, <2>1, <2>2, <2>3, PlaceStep DEF CallPlaces, CallOver, OuterPlaces
<1>4. CASE ~OuterTurn(c)
  <2>. DEFINE d == NextFolder(c)
              place == IF wants[c] = {d} THEN "calling" ELSE "locking"
  <2>1. /\ wants' = [wants EXCEPT ![c] = @ \ {d}] /\ holds' = [holds EXCEPT ![c] = @ \cup {d}]
        /\ GoTo(c, place)
    BY <1>4, Zenon DEF TakeLock
  <2>2. wants[c] # {}
    <3>1. CASE callAt[c] = "free"
      BY <3>1 DEF SkillInv, HasToLock
    <3>2. CASE callAt[c] = "outerFree"
      <4>1. wanted[c].via = "locked"
        BY <3>2 DEF SkillInv, HasToLock, OuterPlaces
      <4>. QED  BY <1>4, <3>2, <4>1 DEF OuterTurn
    <3>. QED  BY <1>1, <3>1, <3>2
  <2>3. d \in wants[c] /\ d \in Folders
    <3>1. d \in wants[c]
      BY <1>1, <1>4, <2>2, NextIsWanted
    <3>. QED  BY <1>1, <3>1 DEF CallTypes
  <2>. HIDE DEF d
  <2>4. wants' \in [Callers -> SUBSET Folders] /\ holds' \in [Callers -> SUBSET Folders]
    BY <1>1, <2>1, <2>3 DEF CallTypes
  <2>5. place \in {"calling", "locking"} /\ (place = "locking" => wants'[c] # {})
    BY <1>1, <2>1, <2>3 DEF CallTypes
  <2>6. \A e \in Callers : e # c => wants'[e] = wants[e]
    BY <1>1, <2>1 DEF CallTypes
  <2>. HIDE DEF place
  <2>. QED  BY <1>1, <1>2, <2>1, <2>4, <2>5, <2>6, PlaceStep DEF CallPlaces, CallOver, OuterPlaces
<1>. QED  BY <1>3, <1>4

\* A command belongs to its call until it ends, and its record is made then.
LEMMA StartStep ==
  ASSUME SkillInv, NEW c \in Callers, StartCommand(c)
  PROVE  SkillInv'
<1>1. /\ callAt[c] = "calling" /\ Accepted(wanted[c]) /\ processOf' = processOf \cup {c}
      /\ GoTo(c, "running")
      /\ UNCHANGED <<wanted, wants, holds, succeeded, rowOf, recorded, stats>>
      /\ CallTypes /\ HasToLock /\ CommandsAccepted
  BY DEF StartCommand, SkillInv
<1>2. callAt'[c] = "running" /\ \A d \in Callers : d # c => callAt'[d] = callAt[d]
  BY <1>1 DEF CallTypes, GoTo
<1>3. ~succeeded[c]
  BY <1>1 DEF CommandsAccepted
<1>4. CallTypes'
  BY <1>1 DEF CallTypes, GoTo, CallPlaces
<1>5. HasToLock'
  BY <1>1, <1>2 DEF HasToLock, OuterPlaces
<1>6. CommandsAccepted'
  BY <1>1, <1>2, <1>3 DEF CommandsAccepted, Accepted, ValidCommand
<1>7. StatsTrue'
  BY <1>1, <1>3, MoveKept DEF CallPlaces, CallOver
<1>. QED  BY <1>4, <1>5, <1>6, <1>7 DEF SkillInv

LEMMA EndsStep ==
  ASSUME SkillInv, NEW c \in Callers, NEW ok \in BOOLEAN, CommandEnds(c, ok)
  PROVE  SkillInv'
<1>1. /\ callAt[c] = "running" /\ processOf' = processOf \ {c} /\ recorded' = recorded \cup {c}
      /\ succeeded' = [succeeded EXCEPT ![c] = ok] /\ GoTo(c, "returning")
      /\ UNCHANGED <<wanted, wants, holds, rowOf, stats>>
      /\ CallTypes /\ HasToLock /\ CommandsAccepted
  BY DEF CommandEnds, SkillInv
<1>2. callAt'[c] = "returning" /\ \A d \in Callers : d # c => callAt'[d] = callAt[d]
  BY <1>1 DEF CallTypes, GoTo
<1>3. c \in processOf /\ Accepted(wanted[c]) /\ ~succeeded[c]
  BY <1>1 DEF CommandsAccepted
<1>4. CallTypes'
  BY <1>1 DEF CallTypes, GoTo, CallPlaces
<1>5. HasToLock'
  BY <1>1, <1>2 DEF HasToLock, OuterPlaces
<1>6. CommandsAccepted'
  <2>1. \A d \in Callers : d # c => succeeded'[d] = succeeded[d]
    BY <1>1 DEF CallTypes
  <2>. QED  BY <1>1, <1>2, <1>3, <2>1 DEF CommandsAccepted, Accepted, ValidCommand
<1>7. StatsTrue'
  <2>1. \A d \in Callers : succeeded'[d] = succeeded[d] \/ d = c
    BY <1>1 DEF CallTypes
  <2>. QED  BY <1>1, <2>1, MoveKept DEF CallPlaces, CallOver
<1>. QED  BY <1>4, <1>5, <1>6, <1>7 DEF SkillInv

LEMMA PanicStep ==
  ASSUME SkillInv, NEW c \in Callers, OutputPanics(c)
  PROVE  SkillInv'
<1>1. /\ callAt[c] = "running" /\ processOf' = processOf \ {c} /\ GoTo(c, "gone")
      /\ UNCHANGED <<wanted, wants, holds, succeeded, rowOf, recorded, stats>>
      /\ CallTypes /\ HasToLock /\ CommandsAccepted
  BY DEF OutputPanics, SkillInv
<1>2. callAt'[c] = "gone" /\ \A d \in Callers : d # c => callAt'[d] = callAt[d]
  BY <1>1 DEF CallTypes, GoTo
<1>3. ~succeeded[c]
  BY <1>1 DEF CommandsAccepted
<1>4. CallTypes'
  BY <1>1 DEF CallTypes, GoTo, CallPlaces, CallOver
<1>5. HasToLock'
  BY <1>1, <1>2 DEF HasToLock, OuterPlaces
<1>6. CommandsAccepted'
  BY <1>1, <1>2, <1>3 DEF CommandsAccepted, Accepted, ValidCommand
<1>7. StatsTrue'
  BY <1>1, <1>3, MoveKept DEF CallPlaces, CallOver
<1>. QED  BY <1>4, <1>5, <1>6, <1>7 DEF SkillInv

\* Steps of directories and commands that move no call.
LEMMA StillStep ==
  ASSUME SkillInv,
         UNCHANGED <<callAt, wanted, wants, succeeded, recorded, stats>>,
         holds' \in [Callers -> SUBSET Folders],
         rowOf' \in [Folders -> Callers \cup {NoRow, "composer_skill"}],
         \/ processOf' = processOf
         \/ \E c \in processOf : callAt[c] # "running" /\ processOf' = processOf \ {c}
  PROVE  SkillInv'
<1>1. CallTypes' /\ HasToLock'
  BY DEF SkillInv, CallTypes, HasToLock
<1>2. CommandsAccepted'
  BY DEF SkillInv, CommandsAccepted, Accepted, ValidCommand
<1>3. StatsTrue'
  <2>1. BackWell' = BackWell /\ Back' = Back
    BY DEF Back, BackWell
  <2>. QED  BY <2>1, StatsKept DEF SkillInv
<1>. QED  BY <1>1, <1>2, <1>3 DEF SkillInv

LEMMA ReleaseStep ==
  ASSUME SkillInv, NEW c \in Callers, ReleaseNext(c)
  PROVE  SkillInv'
<1>. DEFINE d == CHOOSE x \in holds[c] : \A e \in holds[c] : x <= e
<1>1. /\ rowOf' = [rowOf EXCEPT ![d] = IF @ = ExecutorFor(c) THEN NoRow ELSE @]
      /\ holds' = [holds EXCEPT ![c] = @ \ {d}]
  BY DEF ReleaseNext
<1>. HIDE DEF d
<1>2. UNCHANGED <<callAt, wanted, wants, succeeded, processOf, recorded, stats>> /\ CallTypes
  BY DEF ReleaseNext, SkillInv
<1>3. /\ holds' \in [Callers -> SUBSET Folders]
      /\ rowOf' \in [Folders -> Callers \cup {NoRow, "composer_skill"}]
  BY <1>1, <1>2 DEF CallTypes
<1>. QED  BY <1>2, <1>3, StillStep

LEMMA ExpiryStep ==
  ASSUME SkillInv, NEW d \in Folders, LockExpires(d)
  PROVE  SkillInv'
<1>1. /\ rowOf' = [rowOf EXCEPT ![d] = NoRow] /\ CallTypes
      /\ UNCHANGED <<callAt, wanted, wants, holds, succeeded, processOf, recorded, stats>>
  BY DEF LockExpires, SkillInv
<1>2. /\ holds' \in [Callers -> SUBSET Folders]
      /\ rowOf' \in [Folders -> Callers \cup {NoRow, "composer_skill"}]
  BY <1>1 DEF CallTypes
<1>. QED  BY <1>1, <1>2, StillStep

LEMMA OrphanStep ==
  ASSUME SkillInv, NEW c \in Callers, OrphanCommandEnds(c)
  PROVE  SkillInv'
<1>1. /\ c \in processOf /\ callAt[c] # "running" /\ processOf' = processOf \ {c}
      /\ UNCHANGED <<callAt, wanted, wants, holds, succeeded, rowOf, recorded, stats>>
      /\ CallTypes
  BY DEF OrphanCommandEnds, SkillInv
<1>2. /\ holds' \in [Callers -> SUBSET Folders]
      /\ rowOf' \in [Folders -> Callers \cup {NoRow, "composer_skill"}]
  BY <1>1 DEF CallTypes
<1>. QED  BY <1>1, <1>2, StillStep

LEMMA AnswerStep ==
  ASSUME SkillInv, NEW c \in Callers, AnswerCall(c)
  PROVE  SkillInv'
<1>1. /\ callAt[c] = "returning" /\ GoTo(c, "answered")
      /\ stats' = IF succeeded[c] THEN [stats EXCEPT !.ok = @ + 1]
                  ELSE [stats EXCEPT !.failed = @ + 1]
      /\ UNCHANGED <<wanted, wants, holds, succeeded, rowOf, processOf, recorded>>
      /\ CallTypes /\ HasToLock /\ CommandsAccepted
  BY DEF AnswerCall, SkillInv
<1>2. callAt'[c] = "answered" /\ \A d \in Callers : d # c => callAt'[d] = callAt[d]
  BY <1>1 DEF CallTypes, GoTo
<1>3. CallTypes'
  BY <1>1 DEF CallTypes, GoTo, CallPlaces, CallOver
<1>4. HasToLock'
  BY <1>1, <1>2 DEF HasToLock, OuterPlaces
<1>5. CommandsAccepted'
  BY <1>1, <1>2 DEF CommandsAccepted, Accepted, ValidCommand
<1>6. Back' = Back \cup {c} /\ c \notin Back /\ c \notin BackWell
  BY <1>1, <1>2 DEF Back, BackWell
<1>7. BackWell' = IF succeeded[c] THEN BackWell \cup {c} ELSE BackWell
  BY <1>1, <1>2 DEF Back, BackWell
<1>8. /\ Cardinality(Back') = Cardinality(Back) + 1
      /\ Cardinality(BackWell \cup {c}) = Cardinality(BackWell) + 1
  BY <1>6, FinitelyBack, FS_AddElement
<1>9. StatsTrue'
  <2>1. /\ stats \in Tallied /\ stats.ok = Cardinality(BackWell)
        /\ stats.ok + stats.failed <= Cardinality(Back)
    BY DEF SkillInv, StatsTrue
  <2>2. /\ stats.ok \in Nat /\ stats.failed \in Nat
        /\ stats = [ok |-> stats.ok, failed |-> stats.failed]
    BY <2>1 DEF Tallied
  <2>3. CASE succeeded[c]
    <3>1. stats'.ok = stats.ok + 1 /\ stats'.failed = stats.failed /\ stats' \in Tallied
      BY <1>1, <2>1, <2>2, <2>3 DEF Tallied
    <3>2. stats'.ok = Cardinality(BackWell') /\ stats'.ok + stats'.failed <= Cardinality(Back')
      BY <1>7, <1>8, <2>1, <2>2, <2>3, <3>1, FinitelyBack
    <3>. QED  BY <3>1, <3>2 DEF StatsTrue, Tallied
  <2>4. CASE ~succeeded[c]
    <3>1. stats'.ok = stats.ok /\ stats'.failed = stats.failed + 1 /\ stats' \in Tallied
      BY <1>1, <2>1, <2>2, <2>4 DEF Tallied
    <3>2. stats'.ok = Cardinality(BackWell') /\ stats'.ok + stats'.failed <= Cardinality(Back')
      BY <1>7, <1>8, <2>1, <2>2, <2>4, <3>1, FinitelyBack
    <3>. QED  BY <3>1, <3>2 DEF StatsTrue, Tallied
  <2>. QED  BY <2>3, <2>4
<1>. QED  BY <1>3, <1>4, <1>5, <1>9 DEF SkillInv

LEMMA SkillInitially == SkillInit => SkillInv
<1>. SUFFICES ASSUME SkillInit  PROVE SkillInv
  OBVIOUS
<1>1. (CHOOSE q \in SkillRequests : TRUE) \in SkillRequests
  BY SkillAssumption, Zenon
<1>2. CallTypes
  BY <1>1 DEF SkillInit, CallTypes, CallPlaces
<1>3. HasToLock /\ CommandsAccepted
  BY DEF SkillInit, HasToLock, CommandsAccepted, OuterPlaces
<1>4. StatsTrue
  <2>1. Back = {} /\ BackWell = {}
    BY DEF SkillInit, Back, BackWell
  <2>2. Cardinality({}) = 0
    BY FS_EmptySet
  <2>. QED  BY <2>1, <2>2 DEF SkillInit, StatsTrue, Tallied
<1>. QED  BY <1>2, <1>3, <1>4 DEF SkillInv

LEMMA SkillInvStep ==
  ASSUME SkillInv, [SkillNext]_skillVars
  PROVE  SkillInv'
<1>1. CASE UNCHANGED skillVars
  <2>1. /\ UNCHANGED <<callAt, wanted, wants, succeeded, recorded, stats>>
        /\ holds' \in [Callers -> SUBSET Folders]
        /\ rowOf' \in [Folders -> Callers \cup {NoRow, "composer_skill"}]
        /\ processOf' = processOf
    BY <1>1 DEF skillVars, SkillInv, CallTypes
  <2>. QED  BY <2>1, StillStep
<1>2. ASSUME NEW c \in Callers, SkillStep(c)  PROVE SkillInv'
  BY <1>2, TryStep, TakeStep, MovingSteps, StartStep, ReleaseStep, AnswerStep DEF SkillStep
<1>. QED
  BY <1>1, <1>2, BeginStep, MovingSteps, EndsStep, PanicStep, OrphanStep, ExpiryStep DEF SkillNext

LEMMA SkillInvTypes == SkillInv => SkillTypeOK
<1>. SUFFICES ASSUME SkillInv  PROVE SkillTypeOK
  OBVIOUS
<1>1. BackWell \subseteq {c \in recorded : succeeded[c]}
  BY DEF SkillInv, CommandsAccepted, Back, BackWell
<1>2. IsFiniteSet({c \in recorded : succeeded[c]})
  <2>1. {c \in recorded : succeeded[c]} \subseteq Callers
    BY DEF SkillInv, CommandsAccepted
  <2>. QED  BY <2>1, SkillAssumption, FS_Subset
<1>3. /\ Cardinality({c \in recorded : succeeded[c]}) \in Nat
      /\ Cardinality(BackWell) <= Cardinality({c \in recorded : succeeded[c]})
  BY <1>1, <1>2, FS_Subset, FS_CardinalityType
<1>4. stats.ok <= Cardinality({c \in recorded : succeeded[c]})
  BY <1>3 DEF SkillInv, StatsTrue
<1>5. stats.ok + stats.failed <= Cardinality({c \in Callers : callAt[c] = "answered"})
  BY DEF SkillInv, StatsTrue, Back
<1>6. processOf \cup recorded \subseteq {c \in Callers : Accepted(wanted[c])}
  BY DEF SkillInv, CommandsAccepted
<1>. QED  BY <1>4, <1>5, <1>6 DEF SkillInv, CallTypes, CallPlaces, SkillTypeOK

\* A command runs, and is recorded, only for a request that the validation lets
\* through; the statistics count no more successes than there are records of
\* commands that succeeded, and no more calls than have come back: for any number
\* of calls and directories, with locks that expire or are left behind, commands
\* that outlive their calls, and calls that are dropped.
THEOREM SkillTypeCorrect == SkillSpec => []SkillTypeOK
  BY SkillInvTypes, SkillInitially, SkillInvStep, PTL DEF SkillSpec

-----------------------------------------------------------------------------
(* The ten components of Services together.                                  *)

\* Beside the others, each component starts and moves as it does alone: a step
\* of one changes no variable of another.
THEOREM ServicesMoveAlone ==
  Spec => /\ GatewayInit /\ [][GatewayNext]_gatewayVars
          /\ QueueInit /\ [][QueueNext]_queueVars
          /\ RegistryInit /\ [][RegistryNext]_registryVars
          /\ TokensSpec /\ ManagerSpec /\ WorkSpec /\ TraceSpec /\ CacheSpec /\ ComposerSpec
          /\ SkillInit /\ [][SkillNext]_skillVars
<1>1. Init => /\ GatewayInit /\ QueueInit /\ RegistryInit /\ TokensInit /\ ManagerInit
              /\ WorkInit /\ TraceInit /\ CacheInit /\ ComposerInit /\ SkillInit
  BY DEF Init
<1>2. [Next]_vars => /\ [GatewayNext]_gatewayVars /\ [QueueNext]_queueVars
                     /\ [RegistryNext]_registryVars /\ [TokensNext]_tokenVars
                     /\ [ManagerNext]_managerVars /\ [WorkNext]_workVars
                     /\ [TraceNext]_traceVars /\ [CacheNext]_cacheVars
                     /\ [ComposerNext]_composerVars /\ [SkillNext]_skillVars
  BY DEF Next, vars, notGateway, notQueue, notRegistry, notTokens, notThreads, notParallel,
         notTraces, notPrompts, notComposer, notSkills
<1>. QED
  BY <1>1, <1>2, PTL DEF Spec, TokensSpec, ManagerSpec, WorkSpec, TraceSpec, CacheSpec,
     ComposerSpec

\* The variables of all ten components keep their form together, and their
\* bounds hold, for every value of the constants.
THEOREM ServicesTypeCorrect == Spec => []TypeOK
<1>1. GatewayInit /\ [][GatewayNext]_gatewayVars => []GatewayTypeOK
  <2>1. OutboxTypes => GatewayTypeOK
    BY DEF OutboxTypes
  <2>. QED
    BY <2>1, GatewayInitial, OutboxTypesStep, PTL
<1>2. QueueInit /\ [][QueueNext]_queueVars => []QueueTypeOK
  <2>1. QueueOK => QueueTypeOK
    BY DEF QueueOK
  <2>. QED
    BY <2>1, QueueInitial, QueueStep, PTL
<1>3. RegistryInit /\ [][RegistryNext]_registryVars => []RegistryTypeOK
  BY RegistryTypeInit, RegistryTypeStep, PTL
<1>4. SkillInit /\ [][SkillNext]_skillVars => []SkillTypeOK
  BY SkillInitially, SkillInvStep, SkillInvTypes, PTL
<1>5. /\ GatewayTypeOK /\ QueueTypeOK /\ RegistryTypeOK /\ TokensTypeOK /\ ManagerTypeOK
      /\ WorkTypeOK /\ TraceTypeOK /\ CacheTypeOK /\ ComposerTypeOK /\ SkillTypeOK
      => TypeOK
  BY DEF TypeOK
<1>. QED
  BY <1>1, <1>2, <1>3, <1>4, <1>5, ServicesMoveAlone, TokensTypeCorrect, ManagerTypeCorrect,
     WorkTypeCorrect, TraceTypeCorrect, CacheTypeCorrect, ComposerTypeCorrect, PTL

\* What each component promises holds where they all are: waiting users are
\* told and can ask later, no request of a session is lost, one executor works
\* on a thread, tokens keep their limits, threads and lists are true, answers
\* are whole and logs follow the calls, records are kept, caches are fresh, and
\* what is generated fits.
THEOREM ServicesKeepPromises ==
  Spec => [](/\ NobodyForgotten /\ AnswerIsFound /\ NoneLost /\ OneActive /\ CallLimit
             /\ EntryIsAlive /\ ListMissesNone /\ AnswerIsWhole /\ LogFollowsCalls
             /\ RecordIsKept /\ CacheIsFresh /\ GenerationFits)
<1>1. GatewayInit /\ [][GatewayNext]_gatewayVars => [](NobodyForgotten /\ AnswerIsFound)
  BY GatewayInitial, OutboxTypesStep, NobodyForgottenStep, ToldIndexedStep, ToldFind, PTL
<1>2. QueueInit /\ [][QueueNext]_queueVars => []NoneLost
  BY QueueInitial, QueueStep, QueueLosesNothing, PTL
<1>3. RegistryInit /\ [][RegistryNext]_registryVars => []OneActive
  BY RegistryTypeInit, RegistryTypeStep, SpawnInvInit, SpawnInvStep, SpawnInvImplies, PTL
<1>. QED
  BY <1>1, <1>2, <1>3, ServicesMoveAlone, TokensWithinLimit, EntriesAlive, ListsComplete,
     AnswersWhole, LogsFollowCalls, RecordsKept, CachesFresh, GenerationsFit, PTL
=============================================================================
