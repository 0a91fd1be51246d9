-------------------------- MODULE LinkedCellsProofs --------------------------
(***************************************************************************)
(* Proofs about LinkedCells: the references of the cells stay exact, no    *)
(* ghost is left behind, no particle is lost in a closed domain, every     *)
(* wall and every periodic image acts once, and prepareForceCalculation    *)
(* leaves what it should.                                                  *)
(*                                                                         *)
(* The loops of the boundary conditions are folds over lists the code      *)
(* builds.  What such a loop keeps, step by step, is derived from a least  *)
(* counterexample; what the lists contain, from the cells of the halo and  *)
(* of the boundary.  All invariants rest on one, Inv.                      *)
(***************************************************************************)
EXTENDS LinkedCells, CellGridProofs, FiniteSetTheorems, WellFoundedInduction

-----------------------------------------------------------------------------
(***************************************************************************)
(* Least elements, and folds                                               *)
(***************************************************************************)

\* A set of numbers that is not empty has a least element.
LEMMA LeastExists ==
    ASSUME NEW S \in SUBSET Nat, S # {}
    PROVE  \E m \in S : \A k \in S : m <= k
<1>. DEFINE Less == OpToRel(<, Nat)
<1>1. IsWellFoundedOn(Less, Nat)
  BY NatLessThanWellFounded
<1>2. \A a, b \in Nat : <<a, b>> \in Less <=> a < b
  BY DEF OpToRel
<1>. HIDE DEF Less
<1>3. PICK m \in S : \A k \in S : <<k, m>> \notin Less
  BY <1>1, WFMin
<1>4. \A k \in S : k \in Nat
  OBVIOUS
<1>5. \A k \in S : ~(k < m)
  BY <1>2, <1>3, <1>4
<1>6. \A k \in S : m <= k
  BY <1>4, <1>5
<1>. QED BY <1>6, Zenon

\* A set of numbers up to n that is not empty has a greatest element.
LEMMA MaxIsGreatest ==
    ASSUME NEW n \in Nat, NEW s \in SUBSET (1 .. n), s # {}
    PROVE  Max(s) \in s /\ \A k \in s : Max(s) >= k
<1>. DEFINE Bounds == {m \in Nat : \A k \in s : m >= k}
<1>1. n \in Bounds
  OBVIOUS
<1>2. PICK m \in Bounds : \A k \in Bounds : m <= k
  BY <1>1, LeastExists
<1>3. m \in s
  <2>1. SUFFICES ASSUME m \notin s PROVE FALSE
    OBVIOUS
  <2>2. PICK k \in s : TRUE
    OBVIOUS
  <2>3. \A j \in s : j \in 1 .. n /\ m >= j /\ j # m
    BY <1>2, <2>1
  <2>4. m - 1 \in Nat /\ \A j \in s : m - 1 >= j
    BY <2>2, <2>3
  <2>5. m - 1 \in Bounds
    BY <2>4
  <2>6. m <= m - 1
    BY <1>2, <2>5, Zenon
  <2>. QED BY <2>6
<1>4. \E x \in s : \A y \in s : x >= y
  BY <1>2, <1>3
<1>. QED BY <1>4, Zenon DEF Max

\* The functions a fold over the positions 1 .. n computes: g[s] is the result
\* of the steps at the positions in s, the last one applied last.
IsFold(g, n, base, F) ==
    \A s \in SUBSET (1 .. n) :
        g[s] = IF s = {} THEN base ELSE F[Max(s)][g[s \ {Max(s)}]]

LEMMA FoldExists ==
    ASSUME NEW n \in Nat, NEW S, NEW base \in S, NEW F \in [1 .. n -> [S -> S]]
    PROVE  \E g \in [SUBSET (1 .. n) -> S] : IsFold(g, n, base, F)
<1>. DEFINE P(m) == \E g \in [SUBSET (1 .. m) -> S] : IsFold(g, m, base, F)
            Bad == {m \in 0 .. n : ~P(m)}
<1>1. P(0)
  <2>. DEFINE g == [s \in SUBSET (1 .. 0) |-> base]
  <2>1. \A s \in SUBSET (1 .. 0) : s = {}
    OBVIOUS
  <2>2. IsFold(g, 0, base, F)
    BY <2>1, Zenon DEF IsFold
  <2>. QED BY <2>2, Zenon
<1>2. ASSUME NEW m \in 1 .. n, P(m - 1) PROVE P(m)
  <2>1. PICK g \in [SUBSET (1 .. m - 1) -> S] : IsFold(g, m - 1, base, F)
    BY <1>2
  <2>. DEFINE h == [s \in SUBSET (1 .. m) |->
                       IF m \in s THEN F[m][g[s \ {m}]] ELSE g[s]]
  <2>2. \A s \in SUBSET (1 .. m) :
          /\ m \in s => s \ {m} \in SUBSET (1 .. m - 1)
          /\ m \notin s => s \in SUBSET (1 .. m - 1)
    OBVIOUS
  <2>3. h \in [SUBSET (1 .. m) -> S]
    BY <2>1, <2>2
  <2>4. ASSUME NEW s \in SUBSET (1 .. m)
        PROVE  h[s] = IF s = {} THEN base ELSE F[Max(s)][h[s \ {Max(s)}]]
    <3>1. CASE m \in s
      <4>1. Max(s) = m
        <5>1. m \in Nat /\ s \subseteq 1 .. m
          OBVIOUS
        <5>2. Max(s) \in s /\ Max(s) >= m
          BY <3>1, <5>1, MaxIsGreatest
        <5>3. \A k \in 1 .. m : k >= m => k = m
          OBVIOUS
        <5>. QED BY <5>1, <5>2, <5>3, Zenon
      <4>2. s \ {m} \in SUBSET (1 .. m) /\ m \notin s \ {m}
        OBVIOUS
      <4>3. h[s \ {m}] = g[s \ {m}]
        BY <4>2, Zenon
      <4>4. h[s] = F[m][g[s \ {m}]]
        BY <3>1, Zenon
      <4>. QED BY <3>1, <4>1, <4>3, <4>4, Zenon
    <3>2. CASE m \notin s
      <4>1. h[s] = g[s]
        BY <3>2, Zenon
      <4>2. g[s] = IF s = {} THEN base ELSE F[Max(s)][g[s \ {Max(s)}]]
        BY <2>1, <2>2, <3>2, Zenon DEF IsFold
      <4>3. s \ {Max(s)} \in SUBSET (1 .. m) /\ m \notin s \ {Max(s)}
        BY <3>2
      <4>4. h[s \ {Max(s)}] = g[s \ {Max(s)}]
        BY <4>3, Zenon
      <4>. QED BY <4>1, <4>2, <4>4, Zenon
    <3>. QED BY <3>1, <3>2
  <2>. HIDE DEF h
  <2>5. IsFold(h, m, base, F)
    BY <2>4, Zenon DEF IsFold
  <2>. QED BY <2>3, <2>5, Zenon
<1>. HIDE DEF P
<1>3. Bad = {}
  <2>1. SUFFICES ASSUME Bad # {} PROVE FALSE
    OBVIOUS
  <2>2. PICK m \in Bad : \A k \in Bad : m <= k
    <3>1. Bad \in SUBSET Nat
      OBVIOUS
    <3>. HIDE DEF Bad
    <3>. QED BY <2>1, <3>1, LeastExists
  <2>3. m # 0
    BY <1>1, <2>2
  <2>4. m \in 1 .. n /\ m - 1 \in 0 .. n /\ m - 1 \notin Bad
    BY <2>2, <2>3
  <2>. QED BY <1>2, <2>2, <2>4
<1>4. P(n)
  BY <1>3
<1>. QED BY <1>4 DEF P

\* The positions up to m, as a fold goes through them.
LEMMA UpTo ==
    ASSUME NEW n \in Nat, NEW m \in 1 .. n
    PROVE  /\ 1 .. m \in SUBSET (1 .. n) /\ 1 .. m # {}
           /\ Max(1 .. m) = m /\ (1 .. m) \ {Max(1 .. m)} = 1 .. (m - 1)
<1>1. 1 .. m \in SUBSET (1 .. n) /\ m \in Nat /\ m \in 1 .. m
  OBVIOUS
<1>2. Max(1 .. m) \in 1 .. m /\ Max(1 .. m) >= m
  BY <1>1, MaxIsGreatest
<1>3. Max(1 .. m) = m
  BY <1>2
<1>4. (1 .. m) \ {m} = 1 .. (m - 1)
  OBVIOUS
<1>. QED BY <1>1, <1>3, <1>4, Zenon

\* What holds of the base, and is carried on by each step, holds of the result:
\* Good[m] is the set of the values that are right after the first m steps.
LEMMA FoldInduction ==
    ASSUME NEW n \in Nat, NEW h, NEW Good, h[{}] \in Good[0],
           \A m \in 1 .. n : h[1 .. (m - 1)] \in Good[m - 1] => h[1 .. m] \in Good[m]
    PROVE  h[1 .. n] \in Good[n]
<1>. DEFINE Bad == {m \in 0 .. n : h[1 .. m] \notin Good[m]}
<1>1. 0 \notin Bad
  <2>1. 1 .. 0 = {}
    OBVIOUS
  <2>. QED BY <2>1, Zenon
<1>2. Bad = {}
  <2>1. SUFFICES ASSUME Bad # {} PROVE FALSE
    OBVIOUS
  <2>2. PICK m \in Bad : \A k \in Bad : m <= k
    <3>1. Bad \in SUBSET Nat
      OBVIOUS
    <3>. HIDE DEF Bad
    <3>. QED BY <2>1, <3>1, LeastExists
  <2>3. m # 0
    BY <1>1, <2>2
  <2>4. m \in 1 .. n /\ m - 1 \in 0 .. n /\ m - 1 \notin Bad
    BY <2>2, <2>3
  <2>. QED BY <2>2, <2>4
<1>. QED BY <1>2

-----------------------------------------------------------------------------
(***************************************************************************)
(* The order of the visits                                                 *)
(***************************************************************************)

\* R orders the elements of S one after the other.
StrictlyOrders(R, S) ==
    /\ \A i, j \in S : i # j => (<<i, j>> \in R <=> <<j, i>> \notin R)
    /\ \A i, j, k \in S : <<i, j>> \in R /\ <<j, k>> \in R => <<i, k>> \in R
    /\ \A i \in S : <<i, i>> \notin R

\* The positions found can be put in the order of a strict total order R: each
\* takes the place given by the number of those that do not come after it.
LEMMA SortedExists ==
    ASSUME NEW n \in Nat, NEW found \in SUBSET (1 .. n), NEW R, StrictlyOrders(R, found)
    PROVE  /\ Cardinality(found) \in Nat
           /\ \E order \in Bijection(1 .. Cardinality(found), found) :
                \A k, l \in DOMAIN order : k < l => <<order[k], order[l]>> \in R
<1>. DEFINE C == Cardinality(found)
            Upto(i) == {j \in found : j = i \/ <<j, i>> \in R}
            rank == [i \in found |-> Cardinality(Upto(i))]
<1>1. IsFiniteSet(found) /\ C \in Nat
  <2>1. IsFiniteSet(1 .. n)
    BY FS_Interval
  <2>. QED BY <2>1, FS_Subset, FS_CardinalityType
<1>0. /\ \A i, j \in found : i # j => (<<i, j>> \in R <=> <<j, i>> \notin R)
      /\ \A i, j, k \in found : <<i, j>> \in R /\ <<j, k>> \in R => <<i, k>> \in R
      /\ \A i \in found : <<i, i>> \notin R
  BY DEF StrictlyOrders
<1>2. \A i \in found : /\ Upto(i) \in SUBSET found /\ i \in Upto(i)
                       /\ IsFiniteSet(Upto(i)) /\ Cardinality(Upto(i)) \in 1 .. C
  <2>1. SUFFICES ASSUME NEW i \in found
                 PROVE  /\ Upto(i) \in SUBSET found /\ i \in Upto(i)
                        /\ IsFiniteSet(Upto(i)) /\ Cardinality(Upto(i)) \in 1 .. C
    OBVIOUS
  <2>2. Upto(i) \in SUBSET found /\ i \in Upto(i)
    OBVIOUS
  <2>. HIDE DEF Upto
  <2>3. IsFiniteSet(Upto(i)) /\ Cardinality(Upto(i)) <= C
    BY <1>1, <2>2, FS_Subset
  <2>4. Cardinality(Upto(i)) \in Nat /\ Cardinality(Upto(i)) # 0
    BY <2>2, <2>3, FS_CardinalityType, FS_EmptySet
  <2>. QED BY <1>1, <2>2, <2>3, <2>4
<1>3. ASSUME NEW i \in found, NEW j \in found, <<i, j>> \in R
      PROVE  rank[i] < rank[j]
  <2>1. Upto(i) \in SUBSET Upto(j) /\ j \in Upto(j) /\ j \notin Upto(i)
    BY <1>0, <1>3
  <2>. HIDE DEF Upto
  <2>2. Cardinality(Upto(i)) <= Cardinality(Upto(j)) /\ Cardinality(Upto(i)) # Cardinality(Upto(j))
    BY <1>2, <2>1, FS_Subset
  <2>3. Cardinality(Upto(i)) \in 1 .. C /\ Cardinality(Upto(j)) \in 1 .. C
    BY <1>2
  <2>. QED BY <1>1, <2>2, <2>3
<1>4. rank \in [found -> 1 .. C]
  BY <1>2
<1>. HIDE DEF rank, Upto
<1>5. rank \in Injection(found, 1 .. C)
  <2>1. ASSUME NEW i \in found, NEW j \in found, rank[i] = rank[j] PROVE i = j
    <3>1. rank[i] \in 1 .. C /\ rank[j] \in 1 .. C
      BY <1>4
    <3>2. ~(rank[i] < rank[j]) /\ ~(rank[j] < rank[i])
      BY <1>1, <2>1, <3>1
    <3>3. <<i, j>> \notin R /\ <<j, i>> \notin R
      BY <1>3, <3>2
    <3>. QED BY <1>0, <3>3
  <2>. QED BY <1>4, <2>1 DEF Injection, IsInjective
<1>6. rank \in Surjection(found, 1 .. C)
  <2>1. IsFiniteSet(1 .. C) /\ Cardinality(1 .. C) = C
    BY <1>1, FS_Interval
  <2>. QED BY <1>5, <2>1, FS_Injection
<1>. DEFINE order == [k \in 1 .. C |-> CHOOSE i \in found : rank[i] = k]
<1>7. \A k \in 1 .. C : order[k] \in found /\ rank[order[k]] = k
  BY <1>6, Zenon DEF Surjection
<1>8. \A i \in found : rank[i] \in 1 .. C /\ order[rank[i]] = i
  BY <1>4, <1>5, <1>7, Zenon DEF Injection, IsInjective
<1>9. order \in [1 .. C -> found] /\ DOMAIN order = 1 .. C
  BY <1>7
<1>. HIDE DEF order
<1>10. order \in Bijection(1 .. C, found)
  <2>1. IsInjective(order)
    BY <1>7, <1>9 DEF IsInjective
  <2>2. order \in Injection(1 .. C, found)
    BY <1>9, <2>1 DEF Injection
  <2>3. order \in Surjection(1 .. C, found)
    BY <1>8, <1>9 DEF Surjection
  <2>. QED BY <2>2, <2>3 DEF Bijection
<1>11. ASSUME NEW k \in 1 .. C, NEW l \in 1 .. C, k < l
       PROVE  <<order[k], order[l]>> \in R
  <2>1. order[k] # order[l] /\ ~(rank[order[l]] < rank[order[k]])
    BY <1>1, <1>7, <1>11
  <2>2. <<order[l], order[k]>> \notin R
    BY <1>3, <1>7, <2>1
  <2>. QED BY <1>0, <1>7, <2>1, <2>2
<1>. QED BY <1>1, <1>9, <1>10, <1>11

\* The visits go to each of the references found once.
LEMMA VisitsFacts ==
    ASSUME NEW n \in Nat, NEW rs, NEW found \in SUBSET (1 .. n),
           \A i \in found : rs[i].cell \in Cells /\ rs[i].slot = i
    PROVE  /\ Cardinality(found) \in Nat
           /\ Visits(rs, found) \in Bijection(1 .. Cardinality(found), found)
<1>. DEFINE R == {e \in found \X found : VisitedBefore(rs[e[1]], rs[e[2]])}
            index == [i \in found |-> cellCoordToCellIndex(rs[i].cell)]
<1>1. index \in [found -> Int]
  BY IndexInt
<1>2. \A i, j \in found : rs[i].cell = rs[j].cell <=> index[i] = index[j]
  BY IndexInjective
<1>3. \A i, j \in found : <<i, j>> \in R <=> VisitedBefore(rs[i], rs[j])
  BY Zenon
<1>. HIDE DEF R
<1>4. \A i, j \in found :
        <<i, j>> \in R <=> (index[i] < index[j] \/ (index[i] = index[j] /\ i < j))
  BY <1>2, <1>3, ZenonT(40) DEF VisitedBefore, Before
<1>. HIDE DEF index
<1>5. \A i \in found : i \in Int /\ index[i] \in Int
  BY <1>1
<1>6. StrictlyOrders(R, found)
  BY <1>4, <1>5 DEF StrictlyOrders
<1>9. /\ Cardinality(found) \in Nat
      /\ \E order \in Bijection(1 .. Cardinality(found), found) :
           \A k, l \in DOMAIN order : k < l => <<order[k], order[l]>> \in R
  BY <1>6, SortedExists, Zenon
<1>10. PICK order \in Bijection(1 .. Cardinality(found), found) :
          \A k, l \in DOMAIN order : k < l => <<order[k], order[l]>> \in R
  BY <1>9
<1>11. \A k, l \in DOMAIN order : order[k] \in found /\ order[l] \in found
  BY <1>10 DEF Bijection, Injection
<1>12. \A k, l \in DOMAIN order : k < l => VisitedBefore(rs[order[k]], rs[order[l]])
  BY <1>3, <1>10, <1>11
<1>. QED BY <1>9, <1>10, <1>12, Zenon DEF Visits

-----------------------------------------------------------------------------
(***************************************************************************)
(* Lists put one behind the other                                          *)
(***************************************************************************)

LEMMA FunctionIsSeq ==
    ASSUME NEW T, NEW n \in Nat, NEW f \in [1 .. n -> T]
    PROVE  f \in Seq(T) /\ Len(f) = n
  OBVIOUS

LEMMA ConcatFacts ==
    ASSUME NEW T, NEW s \in Seq(T), NEW t \in Seq(T)
    PROVE  /\ s \o t \in Seq(T) /\ Len(s \o t) = Len(s) + Len(t)
           /\ Range(s \o t) = Range(s) \cup Range(t)
           /\ IsInjective(s) /\ IsInjective(t) /\ Range(s) \cap Range(t) = {}
                => IsInjective(s \o t)
<1>1. s \o t \in Seq(T) /\ Len(s \o t) = Len(s) + Len(t)
  OBVIOUS
<1>2. \A k \in DOMAIN (s \o t) : \/ k \in DOMAIN s /\ (s \o t)[k] = s[k]
                                 \/ k - Len(s) \in DOMAIN t /\ (s \o t)[k] = t[k - Len(s)]
  OBVIOUS
<1>3. \A k \in DOMAIN s : k \in DOMAIN (s \o t) /\ (s \o t)[k] = s[k]
  OBVIOUS
<1>4. \A k \in DOMAIN t : k + Len(s) \in DOMAIN (s \o t) /\ (s \o t)[k + Len(s)] = t[k]
  OBVIOUS
<1>5. Range(s \o t) = Range(s) \cup Range(t)
  <2>1. \A e : e \in Range(s \o t) => e \in Range(s) \/ e \in Range(t)
    BY <1>2, Zenon DEF Range
  <2>2. \A e : e \in Range(s) => e \in Range(s \o t)
    BY <1>3, Zenon DEF Range
  <2>3. \A e : e \in Range(t) => e \in Range(s \o t)
    BY <1>4, Zenon DEF Range
  <2>. QED BY <2>1, <2>2, <2>3
<1>6. ASSUME IsInjective(s), IsInjective(t), Range(s) \cap Range(t) = {}
      PROVE  IsInjective(s \o t)
  <2>1. SUFFICES ASSUME NEW a \in DOMAIN (s \o t), NEW b \in DOMAIN (s \o t),
                        (s \o t)[a] = (s \o t)[b]
                 PROVE  a = b
    BY Zenon DEF IsInjective
  <2>2. \A k \in DOMAIN s, l \in DOMAIN t : s[k] # t[l]
    BY <1>6, Zenon DEF Range
  <2>3. a \in Nat /\ b \in Nat /\ Len(s) \in Nat
    BY <1>1
  <2>4. CASE a \in DOMAIN s /\ (s \o t)[a] = s[a]
    <3>1. b \in DOMAIN s /\ (s \o t)[b] = s[b]
      BY <1>2, <2>1, <2>2, <2>4
    <3>. QED BY <1>6, <2>1, <2>4, <3>1, Zenon DEF IsInjective
  <2>5. CASE a - Len(s) \in DOMAIN t /\ (s \o t)[a] = t[a - Len(s)]
    <3>1. b - Len(s) \in DOMAIN t /\ (s \o t)[b] = t[b - Len(s)]
      BY <1>2, <2>1, <2>2, <2>5
    <3>2. a - Len(s) = b - Len(s)
      BY <1>6, <2>1, <2>5, <3>1, Zenon DEF IsInjective
    <3>. QED BY <2>3, <3>2
  <2>. QED BY <1>2, <2>4, <2>5
<1>. QED BY <1>1, <1>5, <1>6

\* The function FlattenSeq computes.
Flattened(seqs) ==
    CHOOSE flatten : flatten = [i \in 1 .. Len(seqs) |->
        IF i = 1 THEN seqs[i] ELSE flatten[i - 1] \o seqs[i]]

LEMMA FlattenRecursion ==
    ASSUME NEW T, NEW seqs \in Seq(Seq(T))
    PROVE  Flattened(seqs) = [i \in 1 .. Len(seqs) |->
               IF i = 1 THEN seqs[i] ELSE Flattened(seqs)[i - 1] \o seqs[i]]
<1>. DEFINE n == Len(seqs)
            F == [m \in 1 .. n |-> [x \in Seq(T) |-> x \o seqs[m]]]
<1>1. n \in Nat /\ \A m \in 1 .. n : seqs[m] \in Seq(T)
  OBVIOUS
<1>2. F \in [1 .. n -> [Seq(T) -> Seq(T)]] /\ <<>> \in Seq(T)
  BY <1>1
<1>3. PICK g \in [SUBSET (1 .. n) -> Seq(T)] : IsFold(g, n, <<>>, F)
  <2>. HIDE DEF n, F
  <2>. QED BY <1>1, <1>2, FoldExists
<1>. DEFINE h == [i \in 1 .. n |-> g[1 .. i]]
<1>4. ASSUME NEW i \in 1 .. n PROVE h[i] = IF i = 1 THEN seqs[i] ELSE h[i - 1] \o seqs[i]
  <2>1. /\ 1 .. i \in SUBSET (1 .. n) /\ 1 .. i # {}
        /\ Max(1 .. i) = i /\ (1 .. i) \ {Max(1 .. i)} = 1 .. (i - 1)
    BY <1>1, UpTo
  <2>2. g[1 .. i] = F[i][g[1 .. (i - 1)]]
    BY <1>3, <2>1, Zenon DEF IsFold
  <2>3. 1 .. (i - 1) \in SUBSET (1 .. n)
    OBVIOUS
  <2>4. g[1 .. (i - 1)] \in Seq(T)
    BY <1>3, <2>3
  <2>5. g[1 .. i] = g[1 .. (i - 1)] \o seqs[i]
    BY <2>2, <2>4
  <2>6. CASE i = 1
    <3>1. 1 .. (i - 1) = {} /\ {} \in SUBSET (1 .. n)
      BY <2>6
    <3>2. g[1 .. (i - 1)] = <<>>
      BY <1>3, <3>1, Zenon DEF IsFold
    <3>. QED BY <1>1, <2>5, <2>6, <3>2
  <2>7. CASE i # 1
    <3>1. i - 1 \in 1 .. n
      BY <2>7
    <3>. QED BY <2>5, <2>7, <3>1
  <2>. QED BY <2>6, <2>7
<1>5. h = [i \in 1 .. n |-> IF i = 1 THEN seqs[i] ELSE h[i - 1] \o seqs[i]]
  <2>1. h = [i \in 1 .. n |-> h[i]]
    OBVIOUS
  <2>. HIDE DEF h, n
  <2>. QED BY <1>4, <2>1
<1>. HIDE DEF h
<1>. QED BY <1>5, Zenon DEF Flattened

\* FlattenSeq returns the elements of the lists, and each of them once if no
\* element occurs twice, neither in one list nor in two.
LEMMA FlattenFacts ==
    ASSUME NEW T, NEW seqs \in Seq(Seq(T)), seqs # <<>>
    PROVE  /\ FlattenSeq(seqs) \in Seq(T)
           /\ Range(FlattenSeq(seqs)) = UNION {Range(seqs[m]) : m \in 1 .. Len(seqs)}
           /\ /\ \A m \in 1 .. Len(seqs) : IsInjective(seqs[m])
              /\ \A l, m \in 1 .. Len(seqs) :
                   l # m => Range(seqs[l]) \cap Range(seqs[m]) = {}
              => IsInjective(FlattenSeq(seqs))
<1>. DEFINE n == Len(seqs)
            f == Flattened(seqs)
            Upto(i) == UNION {Range(seqs[m]) : m \in 1 .. i}
            OnceEach == /\ \A m \in 1 .. n : IsInjective(seqs[m])
                        /\ \A l, m \in 1 .. n :
                             l # m => Range(seqs[l]) \cap Range(seqs[m]) = {}
            P(i) == /\ f[i] \in Seq(T)
                    /\ Range(f[i]) = Upto(i)
                    /\ OnceEach => IsInjective(f[i])
            Bad == {i \in 1 .. n : ~P(i)}
<1>1. n \in Nat /\ n # 0 /\ \A m \in 1 .. n : seqs[m] \in Seq(T)
  OBVIOUS
<1>2. f = [i \in 1 .. n |-> IF i = 1 THEN seqs[i] ELSE f[i - 1] \o seqs[i]]
  BY FlattenRecursion
<1>. HIDE DEF f
<1>3. ASSUME 1 \in 1 .. n PROVE P(1)
  <2>1. f[1] = seqs[1]
    BY <1>2, <1>3
  <2>2. Upto(1) = Range(seqs[1])
    OBVIOUS
  <2>. QED BY <1>1, <1>3, <2>1, <2>2
<1>4. ASSUME NEW i \in 1 .. n, i # 1, P(i - 1) PROVE P(i)
  <2>1. f[i] = f[i - 1] \o seqs[i]
    BY <1>2, <1>4
  <2>2. Upto(i) = Upto(i - 1) \cup Range(seqs[i])
    <3>1. 1 .. i = (1 .. (i - 1)) \cup {i}
      OBVIOUS
    <3>. QED BY <3>1
  <2>3. seqs[i] \in Seq(T)
    BY <1>1
  <2>4. OnceEach => Upto(i - 1) \cap Range(seqs[i]) = {}
    <3>1. \A m \in 1 .. (i - 1) : m \in 1 .. n /\ m # i
      OBVIOUS
    <3>2. OnceEach => \A m \in 1 .. (i - 1) : Range(seqs[m]) \cap Range(seqs[i]) = {}
      BY <3>1, Zenon
    <3>. HIDE DEF OnceEach
    <3>. QED BY <3>2
  <2>5. OnceEach => IsInjective(seqs[i])
    OBVIOUS
  <2>. HIDE DEF Upto, OnceEach
  <2>. QED BY ONLY <1>4, <2>1, <2>2, <2>3, <2>4, <2>5, ConcatFacts
<1>. HIDE DEF P
<1>5. Bad = {}
  <2>1. SUFFICES ASSUME Bad # {} PROVE FALSE
    OBVIOUS
  <2>2. PICK m \in Bad : \A k \in Bad : m <= k
    <3>1. Bad \in SUBSET Nat
      OBVIOUS
    <3>. HIDE DEF Bad
    <3>. QED BY <2>1, <3>1, LeastExists
  <2>3. m \in 1 .. n /\ m # 1
    BY <1>3, <2>2
  <2>4. m - 1 \in 1 .. n /\ m - 1 \notin Bad
    BY <2>2, <2>3
  <2>. QED BY <1>4, <2>2, <2>3, <2>4
<1>6. P(n)
  <2>1. n \in 1 .. n
    BY <1>1
  <2>. HIDE DEF n
  <2>. QED BY <1>5, <2>1
<1>7. FlattenSeq(seqs) = f[n]
  BY <1>1, Zenon DEF FlattenSeq, Flattened, f
<1>. QED BY <1>6, <1>7 DEF P

-----------------------------------------------------------------------------
(***************************************************************************)
(* The loops of the boundary conditions, as folds.  Each lemma says: what  *)
(* every step keeps (S), and what holds after the first m steps (Good[m]), *)
(* holds of the result.                                                    *)
(***************************************************************************)

\* The erases of OutflowBoundaryType::pre.
OutflowIter(ps, list) ==
    CHOOSE iter : iter = [s \in SUBSET (DOMAIN list) |->
        IF s = {} THEN ps ELSE Erase(iter[s \ {Max(s)}], list[Max(s)].slot)]

LEMMA OutflowPreFold ==
    ASSUME NEW S, NEW ps \in S, NEW rs, NEW list, NEW n \in Nat,
           list = Escaped(rs, "OUTFLOW"), DOMAIN list = 1 .. n,
           \A m \in 1 .. n : \A x \in S : Erase(x, list[m].slot) \in S,
           NEW Good, ps \in Good[0],
           \A m \in 1 .. n : \A x \in S :
               x \in Good[m - 1] => Erase(x, list[m].slot) \in Good[m]
    PROVE  OutflowPre(ps, rs) \in S /\ OutflowPre(ps, rs) \in Good[n]
<1>. DEFINE F == [m \in 1 .. n |-> [x \in S |-> Erase(x, list[m].slot)]]
            iter == OutflowIter(ps, list)
            Right == [m \in 0 .. n |-> S \cap Good[m]]
<1>1. F \in [1 .. n -> [S -> S]]
  OBVIOUS
<1>2. PICK g \in [SUBSET (1 .. n) -> S] : IsFold(g, n, ps, F)
  <2>. HIDE DEF F
  <2>. QED BY <1>1, FoldExists
<1>3. ASSUME NEW s \in SUBSET (1 .. n)
      PROVE  g[s] = IF s = {} THEN ps ELSE Erase(g[s \ {Max(s)}], list[Max(s)].slot)
  <2>1. CASE s = {}
    BY <1>2, <2>1, Zenon DEF IsFold
  <2>2. CASE s # {}
    <3>1. Max(s) \in 1 .. n /\ s \ {Max(s)} \in SUBSET (1 .. n)
      BY <2>2, MaxIsGreatest
    <3>2. g[s] = F[Max(s)][g[s \ {Max(s)}]]
      BY <1>2, <2>2, Zenon DEF IsFold
    <3>3. g[s \ {Max(s)}] \in S
      BY <1>2, <3>1
    <3>. QED BY <2>2, <3>1, <3>2, <3>3, Zenon
  <2>. QED BY <2>1, <2>2
<1>4. g = [s \in SUBSET (DOMAIN list) |->
             IF s = {} THEN ps ELSE Erase(g[s \ {Max(s)}], list[Max(s)].slot)]
  BY <1>2, <1>3, Zenon
<1>5. iter = [s \in SUBSET (DOMAIN list) |->
                IF s = {} THEN ps ELSE Erase(iter[s \ {Max(s)}], list[Max(s)].slot)]
  BY <1>4, Zenon DEF OutflowIter
<1>6. OutflowPre(ps, rs) = iter[1 .. n]
  BY Zenon DEF OutflowPre, OutflowIter, FoldLeft, MapThenFoldSet
<1>. HIDE DEF iter
<1>7. iter[{}] \in Right[0]
  <2>1. {} \in SUBSET (DOMAIN list) /\ 0 \in 0 .. n
    OBVIOUS
  <2>2. iter[{}] = ps
    BY <1>5, <2>1, Zenon
  <2>. QED BY <2>1, <2>2
<1>8. ASSUME NEW m \in 1 .. n, iter[1 .. (m - 1)] \in Right[m - 1]
      PROVE  iter[1 .. m] \in Right[m]
  <2>1. /\ 1 .. m \in SUBSET (1 .. n) /\ 1 .. m # {}
        /\ Max(1 .. m) = m /\ (1 .. m) \ {Max(1 .. m)} = 1 .. (m - 1)
    BY UpTo
  <2>2. iter[1 .. m] = Erase(iter[1 .. (m - 1)], list[m].slot)
    BY <1>5, <2>1, Zenon
  <2>3. m - 1 \in 0 .. n /\ m \in 0 .. n
    OBVIOUS
  <2>4. iter[1 .. (m - 1)] \in S /\ iter[1 .. (m - 1)] \in Good[m - 1]
    BY <1>8, <2>3
  <2>5. iter[1 .. m] \in S /\ iter[1 .. m] \in Good[m]
    BY <2>2, <2>4
  <2>. QED BY <2>3, <2>5
<1>9. iter[1 .. n] \in Right[n]
  <2>. HIDE DEF Right
  <2>. QED BY <1>7, <1>8, FoldInduction
<1>10. n \in 0 .. n
  OBVIOUS
<1>. QED BY <1>6, <1>9, <1>10

\* The moves of PeriodicBoundaryType::pre.
PeriodicIter(ps, list) ==
    CHOOSE iter : iter = [s \in SUBSET (DOMAIN list) |->
        IF s = {} THEN ps ELSE MoveSlot(iter[s \ {Max(s)}], list[Max(s)].slot, Teleport(list[Max(s)].side))]

LEMMA PeriodicPreFold ==
    ASSUME NEW S, NEW ps \in S, NEW rs, NEW list, NEW n \in Nat,
           list = Escaped(rs, "PERIODIC"), DOMAIN list = 1 .. n,
           \A m \in 1 .. n : \A x \in S : MoveSlot(x, list[m].slot, Teleport(list[m].side)) \in S,
           NEW Good, ps \in Good[0],
           \A m \in 1 .. n : \A x \in S :
               x \in Good[m - 1] => MoveSlot(x, list[m].slot, Teleport(list[m].side)) \in Good[m]
    PROVE  PeriodicPre(ps, rs) \in S /\ PeriodicPre(ps, rs) \in Good[n]
<1>. DEFINE F == [m \in 1 .. n |-> [x \in S |-> MoveSlot(x, list[m].slot, Teleport(list[m].side))]]
            iter == PeriodicIter(ps, list)
            Right == [m \in 0 .. n |-> S \cap Good[m]]
<1>1. F \in [1 .. n -> [S -> S]]
  OBVIOUS
<1>2. PICK g \in [SUBSET (1 .. n) -> S] : IsFold(g, n, ps, F)
  <2>. HIDE DEF F
  <2>. QED BY <1>1, FoldExists
<1>3. ASSUME NEW s \in SUBSET (1 .. n)
      PROVE  g[s] = IF s = {} THEN ps ELSE MoveSlot(g[s \ {Max(s)}], list[Max(s)].slot, Teleport(list[Max(s)].side))
  <2>1. CASE s = {}
    BY <1>2, <2>1, Zenon DEF IsFold
  <2>2. CASE s # {}
    <3>1. Max(s) \in 1 .. n /\ s \ {Max(s)} \in SUBSET (1 .. n)
      BY <2>2, MaxIsGreatest
    <3>2. g[s] = F[Max(s)][g[s \ {Max(s)}]]
      BY <1>2, <2>2, Zenon DEF IsFold
    <3>3. g[s \ {Max(s)}] \in S
      BY <1>2, <3>1
    <3>. QED BY <2>2, <3>1, <3>2, <3>3, Zenon
  <2>. QED BY <2>1, <2>2
<1>4. g = [s \in SUBSET (DOMAIN list) |->
             IF s = {} THEN ps ELSE MoveSlot(g[s \ {Max(s)}], list[Max(s)].slot, Teleport(list[Max(s)].side))]
  BY <1>2, <1>3, Zenon
<1>5. iter = [s \in SUBSET (DOMAIN list) |->
                IF s = {} THEN ps ELSE MoveSlot(iter[s \ {Max(s)}], list[Max(s)].slot, Teleport(list[Max(s)].side))]
  BY <1>4, Zenon DEF PeriodicIter
<1>6. PeriodicPre(ps, rs) = iter[1 .. n]
  BY Zenon DEF PeriodicPre, PeriodicIter, FoldLeft, MapThenFoldSet
<1>. HIDE DEF iter
<1>7. iter[{}] \in Right[0]
  <2>1. {} \in SUBSET (DOMAIN list) /\ 0 \in 0 .. n
    OBVIOUS
  <2>2. iter[{}] = ps
    BY <1>5, <2>1, Zenon
  <2>. QED BY <2>1, <2>2
<1>8. ASSUME NEW m \in 1 .. n, iter[1 .. (m - 1)] \in Right[m - 1]
      PROVE  iter[1 .. m] \in Right[m]
  <2>1. /\ 1 .. m \in SUBSET (1 .. n) /\ 1 .. m # {}
        /\ Max(1 .. m) = m /\ (1 .. m) \ {Max(1 .. m)} = 1 .. (m - 1)
    BY UpTo
  <2>2. iter[1 .. m] = MoveSlot(iter[1 .. (m - 1)], list[m].slot, Teleport(list[m].side))
    BY <1>5, <2>1, Zenon
  <2>3. m - 1 \in 0 .. n /\ m \in 0 .. n
    OBVIOUS
  <2>4. iter[1 .. (m - 1)] \in S /\ iter[1 .. (m - 1)] \in Good[m - 1]
    BY <1>8, <2>3
  <2>5. iter[1 .. m] \in S /\ iter[1 .. m] \in Good[m]
    BY <2>2, <2>4
  <2>. QED BY <2>3, <2>5
<1>9. iter[1 .. n] \in Right[n]
  <2>. HIDE DEF Right
  <2>. QED BY <1>7, <1>8, FoldInduction
<1>10. n \in 0 .. n
  OBVIOUS
<1>. QED BY <1>6, <1>9, <1>10

\* The ghosts of one direction.
AddGhost(acc, st, i, d) == Add(acc, Ghost(acc.particles[st.refs[i].slot], d))

\* The fold over the visited references.
GhostsIter(st, d, list) ==
    CHOOSE iter : iter = [s \in SUBSET (DOMAIN list) |->
        IF s = {} THEN st ELSE AddGhost(iter[s \ {Max(s)}], st, list[Max(s)], d)]

LEMMA AddGhostsFold ==
    ASSUME NEW S, NEW st \in S, NEW d, NEW list, NEW n \in Nat,
           list = Visits(st.refs, {i \in DOMAIN st.refs : st.refs[i].cell \in GhostSources[d]}), DOMAIN list = 1 .. n,
           \A m \in 1 .. n : \A x \in S : AddGhost(x, st, list[m], d) \in S,
           NEW Good, st \in Good[0],
           \A m \in 1 .. n : \A x \in S :
               x \in Good[m - 1] => AddGhost(x, st, list[m], d) \in Good[m]
    PROVE  AddGhosts(st, d) \in S /\ AddGhosts(st, d) \in Good[n]
<1>. DEFINE F == [m \in 1 .. n |-> [x \in S |-> AddGhost(x, st, list[m], d)]]
            iter == GhostsIter(st, d, list)
            Right == [m \in 0 .. n |-> S \cap Good[m]]
<1>1. F \in [1 .. n -> [S -> S]]
  OBVIOUS
<1>2. PICK g \in [SUBSET (1 .. n) -> S] : IsFold(g, n, st, F)
  <2>. HIDE DEF F
  <2>. QED BY <1>1, FoldExists
<1>3. ASSUME NEW s \in SUBSET (1 .. n)
      PROVE  g[s] = IF s = {} THEN st ELSE AddGhost(g[s \ {Max(s)}], st, list[Max(s)], d)
  <2>1. CASE s = {}
    BY <1>2, <2>1, Zenon DEF IsFold
  <2>2. CASE s # {}
    <3>1. Max(s) \in 1 .. n /\ s \ {Max(s)} \in SUBSET (1 .. n)
      BY <2>2, MaxIsGreatest
    <3>2. g[s] = F[Max(s)][g[s \ {Max(s)}]]
      BY <1>2, <2>2, Zenon DEF IsFold
    <3>3. g[s \ {Max(s)}] \in S
      BY <1>2, <3>1
    <3>. QED BY <2>2, <3>1, <3>2, <3>3, Zenon
  <2>. QED BY <2>1, <2>2
<1>4. g = [s \in SUBSET (DOMAIN list) |->
             IF s = {} THEN st ELSE AddGhost(g[s \ {Max(s)}], st, list[Max(s)], d)]
  BY <1>2, <1>3, Zenon
<1>5. iter = [s \in SUBSET (DOMAIN list) |->
                IF s = {} THEN st ELSE AddGhost(iter[s \ {Max(s)}], st, list[Max(s)], d)]
  BY <1>4, Zenon DEF GhostsIter, AddGhost
<1>6. AddGhosts(st, d) = iter[1 .. n]
  BY Zenon DEF AddGhosts, GhostsIter, AddGhost, FoldLeft, MapThenFoldSet
<1>. HIDE DEF iter
<1>7. iter[{}] \in Right[0]
  <2>1. {} \in SUBSET (DOMAIN list) /\ 0 \in 0 .. n
    OBVIOUS
  <2>2. iter[{}] = st
    BY <1>5, <2>1, Zenon
  <2>. QED BY <2>1, <2>2
<1>8. ASSUME NEW m \in 1 .. n, iter[1 .. (m - 1)] \in Right[m - 1]
      PROVE  iter[1 .. m] \in Right[m]
  <2>1. /\ 1 .. m \in SUBSET (1 .. n) /\ 1 .. m # {}
        /\ Max(1 .. m) = m /\ (1 .. m) \ {Max(1 .. m)} = 1 .. (m - 1)
    BY UpTo
  <2>2. iter[1 .. m] = AddGhost(iter[1 .. (m - 1)], st, list[m], d)
    BY <1>5, <2>1, Zenon
  <2>3. m - 1 \in 0 .. n /\ m \in 0 .. n
    OBVIOUS
  <2>4. iter[1 .. (m - 1)] \in S /\ iter[1 .. (m - 1)] \in Good[m - 1]
    BY <1>8, <2>3
  <2>5. iter[1 .. m] \in S /\ iter[1 .. m] \in Good[m]
    BY <2>2, <2>4, SMTT(30)
  <2>. QED BY <2>3, <2>5
<1>9. iter[1 .. n] \in Right[n]
  <2>. HIDE DEF Right
  <2>. QED BY <1>7, <1>8, FoldInduction
<1>10. n \in 0 .. n
  OBVIOUS
<1>. QED BY <1>6, <1>9, <1>10

\* The ghosts of all directions.
GhostsOf(acc, d) == IF IsPeriodic(d) THEN AddGhosts(acc, d) ELSE acc

\* The fold over the directions.
DirectionsIter(st, list) ==
    CHOOSE iter : iter = [s \in SUBSET (DOMAIN list) |->
        IF s = {} THEN st ELSE GhostsOf(iter[s \ {Max(s)}], list[Max(s)])]

LEMMA WithGhostsFold ==
    ASSUME NEW S, NEW st \in S, NEW list, NEW n \in Nat,
           list = GhostDirections, DOMAIN list = 1 .. n,
           \A m \in 1 .. n : \A x \in S : GhostsOf(x, list[m]) \in S,
           NEW Good, st \in Good[0],
           \A m \in 1 .. n : \A x \in S :
               x \in Good[m - 1] => GhostsOf(x, list[m]) \in Good[m]
    PROVE  WithGhosts(st) \in S /\ WithGhosts(st) \in Good[n]
<1>. DEFINE F == [m \in 1 .. n |-> [x \in S |-> GhostsOf(x, list[m])]]
            iter == DirectionsIter(st, list)
            Right == [m \in 0 .. n |-> S \cap Good[m]]
<1>1. F \in [1 .. n -> [S -> S]]
  OBVIOUS
<1>2. PICK g \in [SUBSET (1 .. n) -> S] : IsFold(g, n, st, F)
  <2>. HIDE DEF F
  <2>. QED BY <1>1, FoldExists
<1>3. ASSUME NEW s \in SUBSET (1 .. n)
      PROVE  g[s] = IF s = {} THEN st ELSE GhostsOf(g[s \ {Max(s)}], list[Max(s)])
  <2>1. CASE s = {}
    BY <1>2, <2>1, Zenon DEF IsFold
  <2>2. CASE s # {}
    <3>1. Max(s) \in 1 .. n /\ s \ {Max(s)} \in SUBSET (1 .. n)
      BY <2>2, MaxIsGreatest
    <3>2. g[s] = F[Max(s)][g[s \ {Max(s)}]]
      BY <1>2, <2>2, Zenon DEF IsFold
    <3>3. g[s \ {Max(s)}] \in S
      BY <1>2, <3>1
    <3>. QED BY <2>2, <3>1, <3>2, <3>3, Zenon
  <2>. QED BY <2>1, <2>2
<1>4. g = [s \in SUBSET (DOMAIN list) |->
             IF s = {} THEN st ELSE GhostsOf(g[s \ {Max(s)}], list[Max(s)])]
  BY <1>2, <1>3, Zenon
<1>5. iter = [s \in SUBSET (DOMAIN list) |->
                IF s = {} THEN st ELSE GhostsOf(iter[s \ {Max(s)}], list[Max(s)])]
  BY <1>4, Zenon DEF DirectionsIter, GhostsOf
<1>6. WithGhosts(st) = iter[1 .. n]
  BY Zenon DEF WithGhosts, DirectionsIter, GhostsOf, FoldLeft, MapThenFoldSet
<1>. HIDE DEF iter
<1>7. iter[{}] \in Right[0]
  <2>1. {} \in SUBSET (DOMAIN list) /\ 0 \in 0 .. n
    OBVIOUS
  <2>2. iter[{}] = st
    BY <1>5, <2>1, Zenon
  <2>. QED BY <2>1, <2>2
<1>8. ASSUME NEW m \in 1 .. n, iter[1 .. (m - 1)] \in Right[m - 1]
      PROVE  iter[1 .. m] \in Right[m]
  <2>1. /\ 1 .. m \in SUBSET (1 .. n) /\ 1 .. m # {}
        /\ Max(1 .. m) = m /\ (1 .. m) \ {Max(1 .. m)} = 1 .. (m - 1)
    BY UpTo
  <2>2. iter[1 .. m] = GhostsOf(iter[1 .. (m - 1)], list[m])
    BY <1>5, <2>1, Zenon
  <2>3. m - 1 \in 0 .. n /\ m \in 0 .. n
    OBVIOUS
  <2>4. iter[1 .. (m - 1)] \in S /\ iter[1 .. (m - 1)] \in Good[m - 1]
    BY <1>8, <2>3
  <2>5. iter[1 .. m] \in S /\ iter[1 .. m] \in Good[m]
    BY <2>2, <2>4
  <2>. QED BY <2>3, <2>5
<1>9. iter[1 .. n] \in Right[n]
  <2>. HIDE DEF Right
  <2>. QED BY <1>7, <1>8, FoldInduction
<1>10. n \in 0 .. n
  OBVIOUS
<1>. QED BY <1>6, <1>9, <1>10

-----------------------------------------------------------------------------
(***************************************************************************)
(* Particles                                                               *)
(***************************************************************************)

Positions == [Axes -> Int]
Particle == [id : Nat, x : Positions, locked : BOOLEAN]

DistinctIds(ps) == \A i, j \in DOMAIN ps : ps[i].id = ps[j].id => i = j
OnlyStartLocked(ps) == \A i \in DOMAIN ps : ps[i].locked <=> ps[i].id \in StartLocked

\* The particles of the simulation, without ghosts.
Real(ps) == ps \in Seq(Particle) /\ DistinctIds(ps) /\ OnlyStartLocked(ps)

LEMMA AxesAre == Axes = {1, 2, 3} /\ DOMAIN N = Axes /\ \A a \in Axes : N[a] \in Nat \ {0}
  BY DomainAssumption DEF Axes, N, DomainAssumption

LEMMA DomainSizeNat == \A a \in Axes : DomainSize[a] \in Nat \ {0}
  BY LinkedCellsAssumption DEF LinkedCellsAssumption

LEMMA ShiftedType ==
    ASSUME NEW x \in Positions, NEW offset \in Positions
    PROVE  Shifted(x, offset) \in Positions
  BY DEF Shifted, Positions

LEMMA TeleportType ==
    ASSUME NEW s \in Sides
    PROVE  Teleport(s) \in Positions
<1>1. ASSUME NEW a \in Axes
      PROVE  (IF a # s[1] THEN 0
              ELSE IF s[2] = "low" THEN DomainSize[a] ELSE -DomainSize[a]) \in Int
  BY DomainSizeNat
<1>. QED BY <1>1 DEF Teleport, Positions

LEMMA GhostDirectionsType ==
    /\ DOMAIN GhostDirections = 1 .. 26
    /\ \A k \in 1 .. 26 : /\ GhostDirections[k] \in Range(GhostDirections)
                          /\ \A a \in Axes : GhostDirections[k][a] \in Int
<1>1. DOMAIN GhostDirections = 1 .. 26
  BY DEF GhostDirections
<1>2. ASSUME NEW k \in 1 .. 26 PROVE \A a \in Axes : GhostDirections[k][a] \in Int
  BY AxesAre DEF GhostDirections
<1>3. \A k \in 1 .. 26 : GhostDirections[k] \in Range(GhostDirections)
  BY <1>1, Zenon DEF Range
<1>. QED BY <1>1, <1>2, <1>3

LEMMA SideOrderFacts ==
    /\ DOMAIN SideOrder = 1 .. 6
    /\ \A k \in 1 .. 6 : SideOrder[k] \in Sides
    /\ \A k, l \in 1 .. 6 : SideOrder[k] = SideOrder[l] => k = l
    /\ \A s \in Sides : \E k \in 1 .. 6 : SideOrder[k] = s
<1>1. /\ SideOrder[1] = <<1, "low">> /\ SideOrder[2] = <<1, "high">>
      /\ SideOrder[3] = <<2, "low">> /\ SideOrder[4] = <<2, "high">>
      /\ SideOrder[5] = <<3, "low">> /\ SideOrder[6] = <<3, "high">>
  BY DEF SideOrder
<1>2. DOMAIN SideOrder = 1 .. 6
  BY DEF SideOrder
<1>3. \A k \in 1 .. 6 : k \in {1, 2, 3, 4, 5, 6}
  OBVIOUS
<1>4. \A k \in 1 .. 6 : SideOrder[k] \in Sides
  BY <1>1, <1>3, AxesAre DEF Sides
<1>5. \A k, l \in 1 .. 6 : SideOrder[k] = SideOrder[l] => k = l
  BY <1>1, <1>3
<1>6. ASSUME NEW s \in Sides PROVE \E k \in 1 .. 6 : SideOrder[k] = s
  <2>1. s = <<s[1], s[2]>> /\ s[1] \in {1, 2, 3} /\ s[2] \in {"low", "high"}
    BY AxesAre DEF Sides
  <2>2. \/ s = <<1, "low">> \/ s = <<1, "high">> \/ s = <<2, "low">>
        \/ s = <<2, "high">> \/ s = <<3, "low">> \/ s = <<3, "high">>
    BY <2>1
  <2>. QED BY <1>1, <2>2
<1>. QED BY <1>2, <1>4, <1>5, <1>6

\* The erase of one particle leaves the others as they are.
LEMMA EraseElements ==
    ASSUME NEW ps \in Seq(Particle), NEW i \in Nat \ {0}
    PROVE  /\ Erase(ps, i) \in Seq(Particle)
           /\ Len(Erase(ps, i)) = IF ps = <<>> THEN 0 ELSE Len(ps) - 1
           /\ \A k \in DOMAIN Erase(ps, i) :
                /\ k \in DOMAIN ps
                /\ i <= k => k + 1 \in DOMAIN ps
                /\ Erase(ps, i)[k] = ps[IF k < i THEN k ELSE k + 1]
<1>1. CASE i <= Len(ps)
  <2>. DEFINE s == SubSeq(ps, 1, i - 1)
              t == SubSeq(ps, i + 1, Len(ps))
  <2>1. s \in Seq(Particle) /\ Len(s) = i - 1 /\ \A k \in 1 .. i - 1 : s[k] = ps[k]
    BY <1>1
  <2>2. t \in Seq(Particle) /\ Len(t) = Len(ps) - i /\ \A k \in 1 .. Len(ps) - i : t[k] = ps[i + k]
    BY <1>1
  <2>3. Erase(ps, i) = s \o t
    BY <1>1 DEF Erase, RemoveAt
  <2>. HIDE DEF s, t
  <2>4. s \o t \in Seq(Particle) /\ Len(s \o t) = Len(ps) - 1 /\ Len(ps) \in Nat
    <3>1. s \o t \in Seq(Particle) /\ Len(s \o t) = Len(s) + Len(t)
      BY <2>1, <2>2, ConcatFacts
    <3>2. Len(ps) \in Nat
      OBVIOUS
    <3>3. Len(s) + Len(t) = Len(ps) - 1
      BY <2>1, <2>2, <3>2
    <3>. QED BY <3>1, <3>2, <3>3
  <2>5. \A k \in 1 .. Len(ps) - 1 :
          (s \o t)[k] = IF k < i THEN s[k] ELSE t[k - Len(s)]
    BY <1>1, <2>1, <2>2
  <2>6. ASSUME NEW k \in 1 .. Len(ps) - 1
        PROVE  (s \o t)[k] = ps[IF k < i THEN k ELSE k + 1]
    <3>1. CASE k < i
      BY <2>1, <2>5, <3>1
    <3>2. CASE ~(k < i)
      <4>1. k - Len(s) \in 1 .. Len(ps) - i /\ i + (k - Len(s)) = k + 1
        BY <1>1, <2>1, <2>4, <3>2
      <4>2. t[k - Len(s)] = ps[i + (k - Len(s))]
        BY <2>2, <4>1
      <4>. QED BY <2>5, <3>2, <4>1, <4>2
    <3>. QED BY <3>1, <3>2
  <2>7. DOMAIN (s \o t) = 1 .. Len(ps) - 1 /\ ps # <<>>
    BY <1>1, <2>4
  <2>8. \A k \in 1 .. Len(ps) - 1 : k \in DOMAIN ps /\ k + 1 \in DOMAIN ps
    BY <2>4
  <2>. HIDE DEF s, t
  <2>. QED BY <2>3, <2>4, <2>6, <2>7, <2>8
<1>2. CASE ~(i <= Len(ps))
  BY <1>2 DEF Erase, Front
<1>. QED BY <1>1, <1>2

LEMMA EraseReal ==
    ASSUME NEW ps, Real(ps), NEW i \in Nat \ {0}
    PROVE  Real(Erase(ps, i))
<1>. DEFINE qs == Erase(ps, i)
            From(k) == IF k < i THEN k ELSE k + 1
<1>1. ps \in Seq(Particle) /\ DistinctIds(ps) /\ OnlyStartLocked(ps)
  BY DEF Real
<1>2. /\ qs \in Seq(Particle)
      /\ \A k \in DOMAIN qs : From(k) \in DOMAIN ps /\ qs[k] = ps[From(k)]
  <2>1. /\ qs \in Seq(Particle)
        /\ \A k \in DOMAIN qs :
             /\ i <= k => k + 1 \in DOMAIN ps
             /\ qs[k] = ps[IF k < i THEN k ELSE k + 1]
    BY <1>1, EraseElements
  <2>2. \A k \in DOMAIN qs : k \in DOMAIN ps
    BY <1>1, <2>1, EraseElements
  <2>3. \A k \in DOMAIN qs : k \in Nat
    BY <2>1
  <2>. HIDE DEF qs
  <2>. QED BY <2>1, <2>2, <2>3
<1>3. \A k, l \in DOMAIN qs : From(k) = From(l) => k = l
  <2>1. \A k \in DOMAIN qs : k \in Nat
    BY <1>2
  <2>. QED BY <2>1
<1>. HIDE DEF qs, From
<1>4. DistinctIds(qs)
  BY <1>1, <1>2, <1>3 DEF DistinctIds
<1>5. OnlyStartLocked(qs)
  BY <1>1, <1>2 DEF OnlyStartLocked
<1>. QED BY <1>2, <1>4, <1>5 DEF Real, qs

-----------------------------------------------------------------------------
(***************************************************************************)
(* References and their visits                                             *)
(***************************************************************************)

VisitsOf(n) == [side : Sides, slot : 1 .. n]

\* The visits at one side.
AtSide(bc, rs, found, s) ==
    LET visits == IF boundary_types[s] = bc THEN Visits(rs, found[s]) ELSE <<>>
    IN  [m \in DOMAIN visits |-> [side |-> s, slot |-> rs[visits[m]].slot]]

LEMMA AtSideFacts ==
    ASSUME NEW n \in Nat, NEW bc, NEW rs, NEW found, NEW s \in Sides,
           found[s] \in SUBSET (1 .. n),
           \A i \in found[s] : rs[i].cell \in Cells /\ rs[i].slot = i
    PROVE  /\ AtSide(bc, rs, found, s) \in Seq(VisitsOf(n))
           /\ IsInjective(AtSide(bc, rs, found, s))
           /\ \A e : e \in Range(AtSide(bc, rs, found, s)) <=>
                       /\ e \in VisitsOf(n) /\ e.side = s
                       /\ boundary_types[s] = bc /\ e.slot \in found[s]
<1>. DEFINE L == AtSide(bc, rs, found, s)
<1>1. CASE boundary_types[s] = bc
  <2>. DEFINE V == Visits(rs, found[s])
              C == Cardinality(found[s])
  <2>1. C \in Nat /\ V \in Bijection(1 .. C, found[s])
    BY VisitsFacts
  <2>2. L = [m \in DOMAIN V |-> [side |-> s, slot |-> rs[V[m]].slot]]
    BY <1>1, Zenon DEF AtSide
  <2>. HIDE DEF V, C, L
  <2>3. /\ V \in [1 .. C -> found[s]] /\ IsInjective(V)
        /\ \A i \in found[s] : \E m \in 1 .. C : V[m] = i
    BY <2>1 DEF Bijection, Injection, Surjection
  <2>4. DOMAIN L = 1 .. C /\ \A m \in 1 .. C : L[m] = [side |-> s, slot |-> V[m]]
    BY <2>2, <2>3
  <2>5. \A m \in 1 .. C : V[m] \in found[s] /\ L[m] \in VisitsOf(n)
    BY <2>3, <2>4 DEF VisitsOf
  <2>6. L \in Seq(VisitsOf(n))
    <3>1. L \in [1 .. C -> VisitsOf(n)]
      BY <2>2, <2>4, <2>5
    <3>. QED BY <2>1, <3>1
  <2>7. IsInjective(L)
    <3>1. \A k, l \in 1 .. C : L[k] = L[l] => V[k] = V[l]
      BY <2>4
    <3>. QED BY <2>3, <2>4, <3>1 DEF IsInjective
  <2>8. \A e : e \in Range(L) => e \in VisitsOf(n) /\ e.side = s /\ e.slot \in found[s]
    BY <2>4, <2>5 DEF Range
  <2>9. ASSUME NEW e \in VisitsOf(n), e.side = s, e.slot \in found[s]
        PROVE  e \in Range(L)
    <3>1. PICK m \in 1 .. C : V[m] = e.slot
      BY <2>3, <2>9
    <3>2. e = [side |-> s, slot |-> e.slot]
      BY <2>9 DEF VisitsOf
    <3>3. L[m] = e /\ m \in DOMAIN L
      BY <2>4, <3>1, <3>2
    <3>. QED BY <3>3, Zenon DEF Range
  <2>. QED BY <1>1, <2>6, <2>7, <2>8, <2>9 DEF L
<1>2. CASE boundary_types[s] # bc
  <2>1. L = [m \in DOMAIN <<>> |-> [side |-> s, slot |-> rs[<<>>[m]].slot]]
    BY <1>2, Zenon DEF AtSide
  <2>. HIDE DEF L
  <2>2. DOMAIN L = {} /\ L = <<>>
    BY <2>1
  <2>3. L \in Seq(VisitsOf(n)) /\ IsInjective(L) /\ Range(L) = {}
    BY <2>2 DEF IsInjective, Range
  <2>. QED BY <1>2, <2>3 DEF L
<1>. QED BY <1>1, <1>2

\* At each side with condition bc each reference found there is visited once.
LEMMA VisitsAtSidesFacts ==
    ASSUME NEW n \in Nat, NEW bc, NEW rs, NEW found,
           \A s \in Sides : found[s] \in SUBSET (1 .. n),
           \A s \in Sides : \A i \in found[s] : rs[i].cell \in Cells /\ rs[i].slot = i
    PROVE  /\ VisitsAtSides(bc, rs, found) \in Seq(VisitsOf(n))
           /\ IsInjective(VisitsAtSides(bc, rs, found))
           /\ \A e : e \in Range(VisitsAtSides(bc, rs, found)) <=>
                       /\ e \in VisitsOf(n)
                       /\ boundary_types[e.side] = bc /\ e.slot \in found[e.side]
<1>. DEFINE L == [k \in DOMAIN SideOrder |-> AtSide(bc, rs, found, SideOrder[k])]
<1>1. VisitsAtSides(bc, rs, found) = FlattenSeq(L)
  BY Zenon DEF VisitsAtSides, AtSide
<1>2. ASSUME NEW k \in 1 .. 6
      PROVE  /\ L[k] \in Seq(VisitsOf(n)) /\ IsInjective(L[k])
             /\ \A e : e \in Range(L[k]) <=>
                         /\ e \in VisitsOf(n) /\ e.side = SideOrder[k]
                         /\ boundary_types[SideOrder[k]] = bc /\ e.slot \in found[SideOrder[k]]
  <2>1. SideOrder[k] \in Sides /\ L[k] = AtSide(bc, rs, found, SideOrder[k])
    BY SideOrderFacts
  <2>2. found[SideOrder[k]] \in SUBSET (1 .. n)
    BY <2>1
  <2>3. \A i \in found[SideOrder[k]] : rs[i].cell \in Cells /\ rs[i].slot = i
    BY <2>1
  <2>. HIDE DEF L
  <2>. DEFINE s == SideOrder[k]
              M == AtSide(bc, rs, found, s)
  <2>4. /\ M \in Seq(VisitsOf(n)) /\ IsInjective(M)
        /\ \A e : e \in Range(M) <=>
                    /\ e \in VisitsOf(n) /\ e.side = s
                    /\ boundary_types[s] = bc /\ e.slot \in found[s]
    <3>1. s \in Sides /\ found[s] \in SUBSET (1 .. n)
          /\ \A i \in found[s] : rs[i].cell \in Cells /\ rs[i].slot = i
      BY <2>1, <2>2, <2>3
    <3>. HIDE DEF s
    <3>. QED BY <3>1, AtSideFacts
  <2>5. L[k] = M
    BY <2>1
  <2>. QED BY <2>4, <2>5, Zenon
<1>3. DOMAIN L = 1 .. 6
  BY SideOrderFacts
<1>4. L = [k \in 1 .. 6 |-> L[k]]
  BY <1>3
<1>. HIDE DEF L
<1>5. L \in Seq(Seq(VisitsOf(n))) /\ L # <<>> /\ Len(L) = 6
  <2>1. L \in [1 .. 6 -> Seq(VisitsOf(n))]
    BY <1>2, <1>3, <1>4
  <2>2. L \in Seq(Seq(VisitsOf(n))) /\ Len(L) = 6
    <3>. DEFINE T == Seq(VisitsOf(n))
    <3>1. L \in [1 .. 6 -> T]
      BY <2>1
    <3>. HIDE DEF T
    <3>2. PICK six \in Nat : six = 6
      OBVIOUS
    <3>3. L \in [1 .. six -> T]
      BY <3>1, <3>2
    <3>4. L \in Seq(T) /\ Len(L) = six
      BY <3>3, FunctionIsSeq
    <3>. QED BY <3>2, <3>4 DEF T
  <2>3. L # <<>>
    BY <2>2, SMTT(30)
  <2>. QED BY <2>2, <2>3
<1>6. \A l, m \in 1 .. 6 : l # m => Range(L[l]) \cap Range(L[m]) = {}
  <2>1. SUFFICES ASSUME NEW l \in 1 .. 6, NEW m \in 1 .. 6, l # m,
                        NEW e \in Range(L[l]), e \in Range(L[m])
                 PROVE  FALSE
    OBVIOUS
  <2>2. e.side = SideOrder[l] /\ e.side = SideOrder[m]
    BY <1>2, <2>1, Zenon
  <2>. QED BY <2>1, <2>2, SideOrderFacts
<1>7. /\ FlattenSeq(L) \in Seq(VisitsOf(n)) /\ IsInjective(FlattenSeq(L))
      /\ Range(FlattenSeq(L)) = UNION {Range(L[m]) : m \in 1 .. 6}
  <2>1. /\ FlattenSeq(L) \in Seq(VisitsOf(n))
        /\ Range(FlattenSeq(L)) = UNION {Range(L[m]) : m \in 1 .. Len(L)}
        /\ /\ \A m \in 1 .. Len(L) : IsInjective(L[m])
           /\ \A l, m \in 1 .. Len(L) : l # m => Range(L[l]) \cap Range(L[m]) = {}
           => IsInjective(FlattenSeq(L))
    BY <1>5, FlattenFacts, Zenon
  <2>. QED BY <1>2, <1>5, <1>6, <2>1
<1>8. ASSUME NEW e
      PROVE  e \in UNION {Range(L[m]) : m \in 1 .. 6} <=>
                /\ e \in VisitsOf(n)
                /\ boundary_types[e.side] = bc /\ e.slot \in found[e.side]
  <2>1. e \in UNION {Range(L[m]) : m \in 1 .. 6} <=> \E m \in 1 .. 6 : e \in Range(L[m])
    OBVIOUS
  <2>2. e \in VisitsOf(n) => \E m \in 1 .. 6 : SideOrder[m] = e.side
    BY SideOrderFacts DEF VisitsOf
  <2>3. ASSUME NEW m \in 1 .. 6, e \in Range(L[m])
        PROVE  /\ e \in VisitsOf(n)
               /\ boundary_types[e.side] = bc /\ e.slot \in found[e.side]
    BY <1>2, <2>3
  <2>4. ASSUME NEW m \in 1 .. 6, SideOrder[m] = e.side, e \in VisitsOf(n),
               boundary_types[e.side] = bc, e.slot \in found[e.side]
        PROVE  e \in Range(L[m])
    BY <1>2, <2>4
  <2>. QED BY <2>1, <2>2, <2>3, <2>4, Zenon
<1>. QED BY <1>1, <1>7, <1>8

\* The references of ps, and those among them that are in a set of cells.
LEMMA ReferenceFacts ==
    ASSUME NEW ps \in Seq(Particle), NEW cap
    PROVE  /\ DOMAIN ReferencesTo(ps, cap) = 1 .. Len(ps)
           /\ \A i \in 1 .. Len(ps) :
                /\ ReferencesTo(ps, cap)[i].slot = i
                /\ ReferencesTo(ps, cap)[i].cell = particlePosToCell(ps[i].x)
  BY DEF ReferencesTo, Reference

\* The visits of the particles that are in the halo at a side with condition bc.
LEMMA EscapedFacts ==
    ASSUME NEW ps \in Seq(Particle), NEW cap, NEW bc
    PROVE  LET V == Escaped(ReferencesTo(ps, cap), bc) IN
           /\ V \in Seq(VisitsOf(Len(ps))) /\ IsInjective(V)
           /\ \A e : e \in Range(V) <=>
                       /\ e \in VisitsOf(Len(ps)) /\ boundary_types[e.side] = bc
                       /\ particlePosToCell(ps[e.slot].x) \in HaloOf(e.side)
<1>. DEFINE rs == ReferencesTo(ps, cap)
            found == [s \in Sides |-> {i \in DOMAIN rs : rs[i].cell \in HaloOf(s)}]
            n == Len(ps)
<1>1. Escaped(rs, bc) = VisitsAtSides(bc, rs, found)
  BY Zenon DEF Escaped
<1>2. /\ n \in Nat /\ DOMAIN rs = 1 .. n
      /\ \A i \in 1 .. n : rs[i].slot = i /\ rs[i].cell = particlePosToCell(ps[i].x)
  BY ReferenceFacts
<1>. HIDE DEF rs, n
<1>3. \A s \in Sides : found[s] = {i \in 1 .. n : rs[i].cell \in HaloOf(s)}
  BY <1>2
<1>. HIDE DEF found
<1>4. \A s \in Sides : HaloOf(s) \subseteq Cells
  BY DEF HaloOf, Halo
<1>5. \A s \in Sides : found[s] \in SUBSET (1 .. n)
  BY <1>3
<1>6. \A s \in Sides : \A i \in found[s] : rs[i].cell \in Cells /\ rs[i].slot = i
  BY <1>2, <1>3, <1>4
<1>7. /\ VisitsAtSides(bc, rs, found) \in Seq(VisitsOf(n))
      /\ IsInjective(VisitsAtSides(bc, rs, found))
      /\ \A e : e \in Range(VisitsAtSides(bc, rs, found)) <=>
                  /\ e \in VisitsOf(n)
                  /\ boundary_types[e.side] = bc /\ e.slot \in found[e.side]
  BY <1>2, <1>5, <1>6, VisitsAtSidesFacts, Zenon
<1>8. \A e \in VisitsOf(n) : e.slot \in found[e.side] <=>
                               particlePosToCell(ps[e.slot].x) \in HaloOf(e.side)
  BY <1>2, <1>3 DEF VisitsOf
<1>. QED BY <1>1, <1>7, <1>8, Zenon DEF rs, n

LEMMA AppendFacts ==
    ASSUME NEW T, NEW s \in Seq(T), NEW e \in T
    PROVE  /\ Append(s, e) \in Seq(T) /\ Len(Append(s, e)) = Len(s) + 1
           /\ \A i \in 1 .. Len(s) : Append(s, e)[i] = s[i]
           /\ Append(s, e)[Len(s) + 1] = e
  OBVIOUS

LEMMA SeqIsFunction ==
    ASSUME NEW T, NEW s \in Seq(T)
    PROVE  s = [i \in 1 .. Len(s) |-> s[i]]
  OBVIOUS

LEMMA SameFunction ==
    ASSUME NEW f, NEW g, NEW D, f = [i \in D |-> f[i]], g = [i \in D |-> g[i]],
           \A i \in D : f[i] = g[i]
    PROVE  f = g
  OBVIOUS

LEMMA AppendReference ==
    ASSUME NEW ps \in Seq(Particle), NEW p \in Particle, NEW cap
    PROVE  Append(ReferencesTo(ps, cap),
                  Reference(particlePosToCell(p.x), cap, Len(ps) + 1))
             = ReferencesTo(Append(ps, p), cap)
<1>. DEFINE n == Len(ps)
            rs == ReferencesTo(ps, cap)
            r == Reference(particlePosToCell(p.x), cap, n + 1)
            T == {rs[i] : i \in 1 .. n} \cup {r}
            longer == Append(ps, p)
            ls == ReferencesTo(longer, cap)
<1>1. /\ longer \in Seq(Particle) /\ Len(longer) = n + 1 /\ n \in Nat
      /\ \A i \in 1 .. n : longer[i] = ps[i]
      /\ longer[n + 1] = p
  BY AppendFacts
<1>2. DOMAIN longer = 1 .. n + 1 /\ DOMAIN ps = 1 .. n
  BY <1>1
<1>. HIDE DEF longer
<1>3. /\ rs = [i \in 1 .. n |-> Reference(particlePosToCell(ps[i].x), cap, i)]
      /\ ls = [i \in 1 .. n + 1 |-> Reference(particlePosToCell(longer[i].x), cap, i)]
  BY <1>2, Zenon DEF ReferencesTo
<1>. HIDE DEF n, rs, ls, r
<1>4. rs \in [1 .. n -> T] /\ r \in T
  BY <1>3
<1>. HIDE DEF T
<1>5. rs \in Seq(T) /\ Len(rs) = n
  BY <1>1, <1>4, FunctionIsSeq
<1>6. /\ Append(rs, r) \in Seq(T) /\ Len(Append(rs, r)) = n + 1
      /\ \A i \in 1 .. n : Append(rs, r)[i] = rs[i]
      /\ Append(rs, r)[n + 1] = r
  BY <1>4, <1>5, AppendFacts
<1>7. Append(rs, r) = [i \in 1 .. n + 1 |-> Append(rs, r)[i]]
  <2>1. Append(rs, r) = [i \in 1 .. Len(Append(rs, r)) |-> Append(rs, r)[i]]
    BY <1>6, SeqIsFunction
  <2>. QED BY <1>6, <2>1, Zenon
<1>8. ls = [i \in 1 .. n + 1 |-> ls[i]]
  BY <1>3
<1>9. ASSUME NEW i \in 1 .. n + 1 PROVE Append(rs, r)[i] = ls[i]
  <2>1. i \in 1 .. n \/ i = n + 1
    BY <1>1
  <2>2. i \in 1 .. n => ls[i] = rs[i]
    BY <1>1, <1>3
  <2>3. ls[n + 1] = Reference(particlePosToCell(p.x), cap, n + 1)
    BY <1>1, <1>3
  <2>. QED BY <1>6, <2>1, <2>2, <2>3 DEF r
<1>10. Append(rs, r) = ls
  <2>. DEFINE f == Append(rs, r)
  <2>. HIDE DEF f
  <2>1. f = [i \in 1 .. n + 1 |-> f[i]] /\ \A i \in 1 .. n + 1 : f[i] = ls[i]
    BY <1>7, <1>9 DEF f
  <2>2. f = ls
    BY <1>8, <2>1, SameFunction
  <2>. QED BY <2>2 DEF f
<1>. QED BY <1>10 DEF rs, r, ls, longer, n

-----------------------------------------------------------------------------
(***************************************************************************)
(* Positions and cells                                                     *)
(***************************************************************************)

\* Rounding down.
LEMMA DivisionFacts ==
    ASSUME NEW y \in Int, NEW d \in Nat \ {0}
    PROVE  y \div d \in Int /\ \A q \in Int : (q <= y \div d <=> q * d <= y)
<1>. DEFINE r == y \div d
<1>1. r \in Int /\ r * d <= y /\ y < r * d + d
  OBVIOUS
<1>. HIDE DEF r
<1>2. ASSUME NEW q \in Int, q <= r PROVE q * d <= y
  <2>1. (r - q) * d >= 0
    BY <1>1, <1>2
  <2>2. r * d = (r - q) * d + q * d
    BY <1>1
  <2>. QED BY <1>1, <2>1, <2>2
<1>3. ASSUME NEW q \in Int, q > r PROVE q * d > y
  <2>1. (q - r - 1) * d >= 0
    BY <1>1, <1>3
  <2>2. q * d = (q - r - 1) * d + r * d + d
    BY <1>1
  <2>. QED BY <1>1, <2>1, <2>2
<1>. QED BY <1>1, <1>2, <1>3 DEF r

LEMMA TripleIsCell ==
    ASSUME NEW f, f = [a \in Axes |-> f[a]], \A a \in Axes : f[a] \in -1 .. N[a]
    PROVE  f \in Cells
  BY DEF Axes, N, Cells

\* The coordinates particlePosToCell rounds to, in the container or outside.
Coordinates(x) == [a \in Axes |-> (x[a] * N[a]) \div DomainSize[a]]

LEMMA CoordinatesFacts ==
    ASSUME NEW x \in Positions
    PROVE  \A a \in Axes :
             /\ Coordinates(x)[a] \in Int
             /\ \A q \in Int : q <= Coordinates(x)[a] <=> q * DomainSize[a] <= x[a] * N[a]
<1>1. ASSUME NEW a \in Axes
      PROVE  /\ Coordinates(x)[a] \in Int
             /\ \A q \in Int : q <= Coordinates(x)[a] <=> q * DomainSize[a] <= x[a] * N[a]
  <2>1. x[a] \in Int /\ N[a] \in Nat /\ DomainSize[a] \in Nat \ {0}
    BY AxesAre, DomainSizeNat DEF Positions
  <2>2. x[a] * N[a] \in Int
    BY <2>1
  <2>3. Coordinates(x)[a] = (x[a] * N[a]) \div DomainSize[a]
    BY DEF Coordinates
  <2>. QED BY <2>1, <2>2, <2>3, DivisionFacts
<1>. QED BY <1>1

\* A coordinate is at a cell of the domain when the position is.
LEMMA InsideOnAxis ==
    ASSUME NEW x \in Positions, NEW a \in Axes
    PROVE  /\ Coordinates(x)[a] >= 0 <=> x[a] >= 0
           /\ Coordinates(x)[a] >= N[a] <=> x[a] >= DomainSize[a]
<1>. DEFINE c == Coordinates(x)[a]
<1>1. c \in Int /\ \A q \in Int : q <= c <=> q * DomainSize[a] <= x[a] * N[a]
  BY CoordinatesFacts
<1>. HIDE DEF c
<1>2. x[a] \in Int /\ N[a] \in Nat \ {0} /\ DomainSize[a] \in Nat \ {0}
  BY AxesAre, DomainSizeNat DEF Positions
<1>3. 0 <= c <=> 0 <= x[a] * N[a]
  BY <1>1, <1>2
<1>4. N[a] <= c <=> N[a] * DomainSize[a] <= x[a] * N[a]
  BY <1>1, <1>2
<1>5. ASSUME NEW y \in Int, NEW k \in Nat \ {0}
      PROVE  0 <= y * k <=> 0 <= y
  OBVIOUS
<1>6. 0 <= x[a] * N[a] <=> 0 <= x[a]
  BY <1>2, <1>5
<1>7. 0 <= (x[a] - DomainSize[a]) * N[a] <=> 0 <= x[a] - DomainSize[a]
  BY <1>2, <1>5
<1>8. x[a] * N[a] - N[a] * DomainSize[a] = (x[a] - DomainSize[a]) * N[a]
  BY <1>2
<1>9. N[a] * DomainSize[a] \in Int /\ x[a] * N[a] \in Int
  BY <1>2
<1>10. N[a] * DomainSize[a] <= x[a] * N[a] <=> DomainSize[a] <= x[a]
  BY <1>2, <1>7, <1>8, <1>9
<1>. QED BY <1>1, <1>2, <1>3, <1>4, <1>6, <1>10 DEF c

\* A cell has an index that is no error.
LEMMA IndexNat ==
    ASSUME NEW c \in Cells
    PROVE  cellCoordToCellIndex(c) # -1
<1>1. /\ c[1] \in Int /\ c[2] \in Int /\ c[3] \in Int
      /\ -1 <= c[1] /\ -1 <= c[2] /\ -1 <= c[3]
      /\ NY \in Nat /\ NZ \in Nat
  BY CellCoordinates, DomainAssumption DEF DomainAssumption
<1>2. (c[1] + 1) * (NY + 2) \in Nat
  BY <1>1
<1>3. Row(c) \in Nat
  BY <1>1, <1>2 DEF Row
<1>4. Row(c) * (NZ + 2) \in Nat
  BY <1>1, <1>3
<1>. QED BY <1>1, <1>4, IndexDigits

\* What particlePosToCell computes, and when it throws.
LEMMA CellOfPosition ==
    ASSUME NEW x \in Positions
    PROVE  IF \A a \in Axes : Coordinates(x)[a] \in -1 .. N[a]
           THEN particlePosToCell(x) = Coordinates(x) /\ Coordinates(x) \in Cells
           ELSE particlePosToCell(x) = NoCell
<1>. DEFINE c == Coordinates(x)
<1>1. particlePosToCell(x) = IF cellCoordToCellIndex(c) = -1 THEN NoCell ELSE c
  BY DEF particlePosToCell, Coordinates
<1>2. c = [a \in Axes |-> c[a]] /\ \A a \in Axes : c[a] \in Int
  BY CoordinatesFacts DEF Coordinates
<1>. HIDE DEF c
<1>3. ASSUME \A a \in Axes : c[a] \in -1 .. N[a]
      PROVE  c \in Cells /\ particlePosToCell(x) = c
  BY <1>1, <1>2, <1>3, TripleIsCell, IndexNat
<1>4. ASSUME NEW a \in Axes, c[a] \notin -1 .. N[a]
      PROVE  cellCoordToCellIndex(c) = -1
  <2>1. N[1] = NX /\ N[2] = NY /\ N[3] = NZ /\ NX \in Nat /\ NY \in Nat /\ NZ \in Nat
    BY DomainAssumption DEF N, DomainAssumption
  <2>2. a = 1 \/ a = 2 \/ a = 3
    BY AxesAre
  <2>3. c[a] < -1 \/ c[a] > N[a]
    BY <1>2, <1>4, <2>1, <2>2
  <2>. QED BY <2>1, <2>2, <2>3 DEF cellCoordToCellIndex
<1>. QED BY <1>1, <1>3, <1>4 DEF c

\* No cell of the halo is NoCell.
LEMMA NoCellIsNone == NoCell \notin Cells
  BY DEF NoCell, Cells

\* The particles in the cells of the domain are those that have not left it.
LEMMA InsideCells ==
    ASSUME NEW p, p.x \in Positions
    PROVE  particlePosToCell(p.x) \in Cells \ Halo <=> ExitsOf(p) = {}
<1>. DEFINE c == Coordinates(p.x)
<1>1. \A a \in Axes : /\ c[a] \in Int /\ p.x[a] \in Int /\ DomainSize[a] \in Int /\ N[a] \in Nat
                      /\ c[a] >= 0 <=> p.x[a] >= 0
                      /\ c[a] >= N[a] <=> p.x[a] >= DomainSize[a]
  BY CoordinatesFacts, InsideOnAxis, DomainSizeNat, AxesAre DEF Positions
<1>2. ASSUME ExitsOf(p) = {}
      PROVE  particlePosToCell(p.x) \in Cells \ Halo
  <2>1. \A a \in Axes : <<a, "low">> \in Sides /\ <<a, "high">> \in Sides
    BY DEF Sides
  <2>2. \A a \in Axes : ~(p.x[a] < 0) /\ ~(p.x[a] >= DomainSize[a])
    <3>1. ASSUME NEW a \in Axes
          PROVE  ~(p.x[a] < 0) /\ ~(p.x[a] >= DomainSize[a])
      <4>1. <<a, "low">> \notin ExitsOf(p) /\ <<a, "high">> \notin ExitsOf(p)
        BY <1>2
      <4>2. <<a, "low">> \in Sides /\ <<a, "high">> \in Sides
        BY <2>1
      <4>. QED BY <4>1, <4>2 DEF ExitsOf
    <3>. QED BY <3>1
  <2>3. \A a \in Axes : c[a] >= 0 /\ c[a] < N[a]
    BY <1>1, <2>2
  <2>. HIDE DEF c
  <2>4. \A a \in Axes : c[a] \in -1 .. N[a]
    BY <1>1, <2>3
  <2>5. particlePosToCell(p.x) = c /\ c \in Cells
    BY <2>4, CellOfPosition DEF c
  <2>6. c \notin Halo
    BY <1>1, <2>3 DEF Halo
  <2>. QED BY <2>5, <2>6
<1>3. ASSUME particlePosToCell(p.x) \in Cells \ Halo
      PROVE  ExitsOf(p) = {}
  <2>1. particlePosToCell(p.x) = c
    BY <1>3, CellOfPosition, NoCellIsNone
  <2>. HIDE DEF c
  <2>2. \A a \in Axes : ~(c[a] < 0) /\ ~(c[a] >= N[a])
    BY <1>3, <2>1 DEF Halo
  <2>3. \A a \in Axes : ~(p.x[a] < 0) /\ ~(p.x[a] >= DomainSize[a])
    BY <1>1, <2>2
  <2>4. \A s \in Sides : s[1] \in Axes
    BY DEF Sides
  <2>. QED BY <2>3, <2>4 DEF ExitsOf
<1>. QED BY <1>2, <1>3

\* A cell is as wide as the cutoff radius, unless it is all there is on its axis.
LEMMA CellWidth ==
    ASSUME NEW a \in Axes
    PROVE  N[a] = 1 \/ N[a] * Cutoff <= DomainSize[a]
<1>1. /\ N[a] \in Nat /\ DomainSize[a] \in Nat \ {0} /\ Cutoff \in Nat \ {0}
      /\ N[a] = domain_num_cells(a)
  BY AxesAre, LinkedCellsAssumption DEF LinkedCellsAssumption
<1>2. N[a] = 1 \/ N[a] = DomainSize[a] \div Cutoff
  BY <1>1 DEF domain_num_cells
<1>3. N[a] = DomainSize[a] \div Cutoff => N[a] * Cutoff <= DomainSize[a]
  BY <1>1, DivisionFacts
<1>. QED BY <1>2, <1>3

-----------------------------------------------------------------------------
(***************************************************************************)
(* Ghosts                                                                  *)
(***************************************************************************)

\* qs is ps, followed by particles with the ids of some in ps.
Extends(qs, ps) ==
    /\ Len(qs) >= Len(ps)
    /\ \A i \in 1 .. Len(ps) : qs[i] = ps[i]
    /\ \A i \in DOMAIN qs : \E j \in 1 .. Len(ps) : qs[i].id = ps[j].id

\* A container with exact references.
Exact(ps, cap) == [particles |-> ps, capacity |-> cap, refs |-> ReferencesTo(ps, cap)]

\* What becomes of a container with the particles ps when ghosts are added.
Grown(ps) == {Exact(e[1], e[2]) : e \in {qs \in Seq(Particle) : Extends(qs, ps)} \X Nat}

LEMMA GrownFacts ==
    ASSUME NEW ps
    PROVE  \A c : c \in Grown(ps) <=>
               \E qs \in Seq(Particle), cap \in Nat : Extends(qs, ps) /\ c = Exact(qs, cap)
<1>. DEFINE G == {qs \in Seq(Particle) : Extends(qs, ps)}
<1>1. \A c : c \in Grown(ps) <=> \E e \in G \X Nat : c = Exact(e[1], e[2])
  BY Zenon DEF Grown
<1>2. ASSUME NEW c, NEW e \in G \X Nat, c = Exact(e[1], e[2])
      PROVE  \E qs \in Seq(Particle), cap \in Nat : Extends(qs, ps) /\ c = Exact(qs, cap)
  <2>1. e[1] \in Seq(Particle) /\ Extends(e[1], ps) /\ e[2] \in Nat
    OBVIOUS
  <2>. QED BY <1>2, <2>1, Zenon
<1>3. ASSUME NEW c, NEW qs \in Seq(Particle), NEW cap \in Nat,
             Extends(qs, ps), c = Exact(qs, cap)
      PROVE  \E e \in G \X Nat : c = Exact(e[1], e[2])
  <2>1. <<qs, cap>> \in G \X Nat /\ <<qs, cap>>[1] = qs /\ <<qs, cap>>[2] = cap
    BY <1>3
  <2>. HIDE DEF G
  <2>. QED BY <1>3, <2>1, Zenon
<1>4. ASSUME NEW c, c \in Grown(ps)
      PROVE  \E qs \in Seq(Particle), cap \in Nat : Extends(qs, ps) /\ c = Exact(qs, cap)
  <2>. HIDE DEF G
  <2>1. PICK e \in G \X Nat : c = Exact(e[1], e[2])
    BY <1>1, <1>4, Zenon
  <2>. QED BY <1>2, <2>1
<1>5. ASSUME NEW c, NEW qs \in Seq(Particle), NEW cap \in Nat,
             Extends(qs, ps), c = Exact(qs, cap)
      PROVE  c \in Grown(ps)
  BY <1>1, <1>3, <1>5, Zenon
<1>. HIDE DEF G
<1>. QED BY <1>4, <1>5, Zenon

\* addParticle keeps the references exact, with a reallocation and without.
LEMMA AddExact ==
    ASSUME NEW ps \in Seq(Particle), NEW cap \in Nat, NEW p \in Particle
    PROVE  \E more \in Nat : Add(Exact(ps, cap), p) = Exact(Append(ps, p), more)
<1>. DEFINE st == Exact(ps, cap)
            more == IF Len(ps) < cap THEN cap ELSE IF cap = 0 THEN 1 ELSE 2 * cap
            longer == Append(ps, p)
            cell == particlePosToCell(p.x)
<1>1. st.particles = ps /\ st.capacity = cap /\ st.refs = ReferencesTo(ps, cap)
  BY DEF Exact
<1>2. more \in Nat /\ Len(longer) = Len(ps) + 1
  OBVIOUS
<1>3. Add(st, p) = [particles |-> longer, capacity |-> more,
                    refs |-> IF more # cap THEN ReferencesTo(longer, more)
                             ELSE Append(ReferencesTo(ps, cap), Reference(cell, more, Len(longer)))]
  <2>. HIDE DEF st
  <2>. QED BY <1>1, Zenon DEF Add
<1>4. more = cap => Append(ReferencesTo(ps, cap), Reference(cell, more, Len(longer)))
                      = ReferencesTo(longer, more)
  BY <1>2, AppendReference
<1>5. Add(st, p) = Exact(longer, more)
  <2>. HIDE DEF st, longer, more, cell
  <2>. QED BY <1>3, <1>4, Zenon DEF Exact
<1>. HIDE DEF st, longer, more
<1>. QED BY <1>2, <1>5 DEF st, longer

LEMMA GhostType ==
    ASSUME NEW p \in Particle, NEW d, \A a \in Axes : d[a] \in Int
    PROVE  Ghost(p, d) \in Particle /\ Ghost(p, d).id = p.id
<1>1. Offset(d) \in Positions
  <2>1. \A a \in Axes : d[a] * DomainSize[a] \in Int
    BY DomainSizeNat
  <2>. QED BY <2>1 DEF Offset, Positions
<1>2. p.x \in Positions
  BY DEF Particle
<1>3. Shifted(p.x, Offset(d)) \in Positions
  BY <1>1, <1>2, ShiftedType
<1>. QED BY <1>3 DEF Ghost, Particle

\* The directions of the ghosts are all there are.
Directions == ((-1 .. 1) \X (-1 .. 1) \X (-1 .. 1)) \ {<<0, 0, 0>>}

LEMMA DirectionsAre == Range(GhostDirections) = Directions
<1>1. DOMAIN GhostDirections = 1 .. 26 /\ \A k \in 1 .. 26 : GhostDirections[k] \in Directions
  BY DEF GhostDirections, Directions
<1>2. Range(GhostDirections) \subseteq Directions
  BY <1>1, Zenon DEF Range
<1>3. ASSUME NEW d \in Directions PROVE \E k \in 1 .. 26 : d = GhostDirections[k]
  <2>1. PICK x \in -1 .. 1, y \in -1 .. 1, z \in -1 .. 1 : d = <<x, y, z>> /\ d # <<0, 0, 0>>
    BY DEF Directions
  <2>2. CASE x = 0
    BY <2>1, <2>2 DEF GhostDirections
  <2>3. CASE x = 1
    BY <2>1, <2>3 DEF GhostDirections
  <2>4. CASE x = -1
    BY <2>1, <2>4 DEF GhostDirections
  <2>. QED BY <2>1, <2>2, <2>3, <2>4
<1>4. Directions \subseteq Range(GhostDirections)
  BY <1>1, <1>3 DEF Range
<1>. QED BY <1>2, <1>4

LEMMA DirectionFacts ==
    ASSUME NEW d \in Directions
    PROVE  /\ d = <<d[1], d[2], d[3]>>
           /\ \A a \in Axes : d[a] \in -1 .. 1
           /\ \E a \in Axes : d[a] # 0
  BY AxesAre DEF Directions

\* The place of a ghost, on each axis.
LEMMA GhostPlace ==
    ASSUME NEW p \in Particle, NEW d \in Directions, NEW a \in Axes
    PROVE  /\ Ghost(p, d).x[a] = p.x[a] + d[a] * DomainSize[a]
           /\ p.x[a] \in Int /\ DomainSize[a] \in Nat \ {0} /\ d[a] \in -1 .. 1
  BY DirectionFacts, DomainSizeNat DEF Ghost, Shifted, Offset, Particle, Positions

\* A ghost of a particle in the domain is outside.
LEMMA GhostOutside ==
    ASSUME NEW p \in Particle, NEW d \in Directions, particlePosToCell(p.x) \in Cells \ Halo
    PROVE  particlePosToCell(Ghost(p, d).x) \notin Cells \ Halo
<1>. DEFINE g == Ghost(p, d)
<1>1. ExitsOf(p) = {} /\ p.x \in Positions
  BY InsideCells DEF Particle
<1>2. PICK a \in Axes : d[a] # 0
  BY DirectionFacts
<1>3. /\ g.x[a] = p.x[a] + d[a] * DomainSize[a]
      /\ p.x[a] \in Int /\ DomainSize[a] \in Nat \ {0} /\ (d[a] = 1 \/ d[a] = -1)
  BY <1>2, GhostPlace
<1>4. <<a, "low">> \in Sides /\ <<a, "high">> \in Sides
  BY DEF Sides
<1>5. 0 <= p.x[a] /\ p.x[a] < DomainSize[a]
  <2>1. <<a, "low">> \notin ExitsOf(p) /\ <<a, "high">> \notin ExitsOf(p)
    BY <1>1
  <2>2. ~(p.x[a] < 0) /\ ~(p.x[a] >= DomainSize[a])
    BY <1>4, <2>1 DEF ExitsOf
  <2>. QED BY <1>3, <2>2
<1>6. g.x[a] < 0 \/ g.x[a] >= DomainSize[a]
  BY <1>3, <1>5
<1>7. g.x \in Positions
  BY GhostType, DirectionFacts DEF Particle
<1>. HIDE DEF g
<1>8. <<a, "low">> \in ExitsOf(g) \/ <<a, "high">> \in ExitsOf(g)
  BY <1>4, <1>6 DEF ExitsOf
<1>9. ExitsOf(g) # {}
  BY <1>8
<1>. QED BY <1>7, <1>9, InsideCells DEF g

\* Two ghosts of the particles ps are the same only if particle and direction are.
LEMMA GhostsDiffer ==
    ASSUME NEW ps, Real(ps), NEW i \in 1 .. Len(ps), NEW j \in 1 .. Len(ps),
           NEW d \in Directions, NEW e \in Directions,
           Ghost(ps[i], d).id = Ghost(ps[j], e).id,
           Ghost(ps[i], d).x = Ghost(ps[j], e).x
    PROVE  i = j /\ d = e
<1>1. ps \in Seq(Particle) /\ DOMAIN ps = 1 .. Len(ps)
  BY DEF Real
<1>2. ps[i] \in Particle /\ ps[j] \in Particle
  BY <1>1
<1>3. ps[i].id = ps[j].id
  BY DEF Ghost
<1>4. i = j
  BY <1>1, <1>3 DEF Real, DistinctIds
<1>5. ASSUME NEW a \in Axes PROVE d[a] = e[a]
  <2>1. /\ Ghost(ps[i], d).x[a] = ps[i].x[a] + d[a] * DomainSize[a]
        /\ Ghost(ps[j], e).x[a] = ps[j].x[a] + e[a] * DomainSize[a]
        /\ ps[i].x[a] \in Int /\ DomainSize[a] \in Nat \ {0}
        /\ d[a] \in -1 .. 1 /\ e[a] \in -1 .. 1
    BY <1>2, GhostPlace
  <2>2. ps[i].x[a] + d[a] * DomainSize[a] = ps[i].x[a] + e[a] * DomainSize[a]
    BY <1>4, <2>1
  <2>. QED BY <2>1, <2>2, SMTT(30)
<1>6. d[1] = e[1] /\ d[2] = e[2] /\ d[3] = e[3]
  BY <1>5, AxesAre
<1>. QED BY <1>4, <1>6, DirectionFacts

\* The ghosts there may be of ps: which particle, in which direction.
Wanted(ps) ==
    {e \in (1 .. Len(ps)) \X Directions :
        particlePosToCell(ps[e[1]].x) \in GhostSources[e[2]]}

\* qs is ps, followed by the ghosts of E, in any order, each once.
Ghosted(qs, ps, E) ==
    /\ Len(qs) >= Len(ps)
    /\ \A i \in 1 .. Len(ps) : qs[i] = ps[i]
    /\ \A k \in 1 .. Len(qs) : k > Len(ps) => \E e \in E : qs[k] = Ghost(ps[e[1]], e[2])
    /\ \A e \in E : \E k \in 1 .. Len(qs) : k > Len(ps) /\ qs[k] = Ghost(ps[e[1]], e[2])
    /\ \A k, l \in 1 .. Len(qs) :
         k > Len(ps) /\ l > Len(ps) /\ qs[k].id = qs[l].id /\ qs[k].x = qs[l].x => k = l

LEMMA WantedFacts ==
    ASSUME NEW ps, Real(ps), NEW e \in Wanted(ps)
    PROVE  /\ e = <<e[1], e[2]>> /\ e[1] \in 1 .. Len(ps) /\ e[2] \in Directions
           /\ ps[e[1]] \in Particle /\ particlePosToCell(ps[e[1]].x) \in Cells \ Halo
<1>1. /\ e = <<e[1], e[2]>> /\ e[1] \in 1 .. Len(ps) /\ e[2] \in Directions
      /\ particlePosToCell(ps[e[1]].x) \in GhostSources[e[2]]
  BY DEF Wanted
<1>2. ps \in Seq(Particle)
  BY DEF Real
<1>3. GhostSources[e[2]] \subseteq Cells \ Halo
  BY <1>1, DirectionsAre DEF GhostSources
<1>. QED BY <1>1, <1>2, <1>3

\* The ghosts behind the particles are none of the sources of other ghosts.
LEMMA SourcesAreReal ==
    ASSUME NEW ps, Real(ps), NEW E \in SUBSET Wanted(ps), NEW us \in Seq(Particle),
           Ghosted(us, ps, E), NEW d \in Directions, NEW i \in 1 .. Len(us)
    PROVE  particlePosToCell(us[i].x) \in GhostSources[d] <=> <<i, d>> \in Wanted(ps)
<1>1. Len(us) \in Nat /\ Len(ps) \in Nat /\ Len(us) >= Len(ps)
  BY DEF Real, Ghosted
<1>2. CASE i <= Len(ps)
  <2>1. us[i] = ps[i] /\ i \in 1 .. Len(ps)
    BY <1>1, <1>2 DEF Ghosted
  <2>. QED BY <2>1 DEF Wanted
<1>3. CASE i > Len(ps)
  <2>1. PICK e \in E : us[i] = Ghost(ps[e[1]], e[2])
    BY <1>3 DEF Ghosted
  <2>2. particlePosToCell(us[i].x) \notin Cells \ Halo
    BY <2>1, WantedFacts, GhostOutside
  <2>3. GhostSources[d] \subseteq Cells \ Halo
    BY DirectionsAre DEF GhostSources
  <2>4. <<i, d>> \notin Wanted(ps)
    BY <1>1, <1>3 DEF Wanted
  <2>. QED BY <2>2, <2>3, <2>4
<1>. QED BY <1>1, <1>2, <1>3

LEMMA GhostedStart ==
    ASSUME NEW ps, Real(ps)
    PROVE  Ghosted(ps, ps, {})
  BY DEF Ghosted, Real

\* One more.
LEMMA OneMoreGhost ==
    ASSUME NEW ps, Real(ps), NEW E \in SUBSET Wanted(ps), NEW qs \in Seq(Particle),
           Ghosted(qs, ps, E), NEW e \in Wanted(ps), e \notin E,
           NEW p \in Particle, p = Ghost(ps[e[1]], e[2])
    PROVE  Ghosted(Append(qs, p), ps, E \cup {e})
<1>. DEFINE ls == Append(qs, p)
            n == Len(qs)
<1>1. /\ ls \in Seq(Particle) /\ Len(ls) = n + 1
      /\ \A k \in 1 .. n : ls[k] = qs[k]
      /\ ls[n + 1] = p
  BY AppendFacts
<1>. HIDE DEF ls
<1>2. n \in Nat /\ Len(ps) \in Nat /\ n >= Len(ps)
  BY DEF Ghosted, Real
<1>3. \A i \in 1 .. Len(ps) : ls[i] = ps[i]
  BY <1>1, <1>2 DEF Ghosted
<1>4. ASSUME NEW k \in 1 .. Len(ls), k > Len(ps)
      PROVE  \E f \in E \cup {e} : ls[k] = Ghost(ps[f[1]], f[2])
  <2>1. CASE k = n + 1
    BY <1>1, <2>1
  <2>2. CASE k # n + 1
    <3>1. k \in 1 .. n /\ ls[k] = qs[k]
      BY <1>1, <1>2, <2>2
    <3>2. PICK f \in E : qs[k] = Ghost(ps[f[1]], f[2])
      BY <1>4, <3>1 DEF Ghosted
    <3>. QED BY <3>1, <3>2
  <2>. QED BY <2>1, <2>2
<1>5. ASSUME NEW f \in E \cup {e}
      PROVE  \E k \in 1 .. Len(ls) : k > Len(ps) /\ ls[k] = Ghost(ps[f[1]], f[2])
  <2>1. CASE f = e
    <3>1. n + 1 \in 1 .. Len(ls) /\ n + 1 > Len(ps)
      BY <1>1, <1>2
    <3>. QED BY <1>1, <2>1, <3>1
  <2>2. CASE f \in E
    <3>1. PICK k \in 1 .. n : k > Len(ps) /\ qs[k] = Ghost(ps[f[1]], f[2])
      BY <2>2 DEF Ghosted
    <3>2. k \in 1 .. Len(ls) /\ ls[k] = qs[k]
      BY <1>1, <1>2, <3>1
    <3>. QED BY <3>1, <3>2
  <2>. QED BY <2>1, <2>2
<1>6. ASSUME NEW k \in 1 .. n, k > Len(ps), qs[k].id = p.id, qs[k].x = p.x PROVE FALSE
  <2>1. PICK f \in E : qs[k] = Ghost(ps[f[1]], f[2])
    BY <1>6 DEF Ghosted
  <2>2. f \in Wanted(ps)
    OBVIOUS
  <2>3. /\ f[1] \in 1 .. Len(ps) /\ f[2] \in Directions /\ f = <<f[1], f[2]>>
        /\ e[1] \in 1 .. Len(ps) /\ e[2] \in Directions /\ e = <<e[1], e[2]>>
    BY <2>2, WantedFacts
  <2>4. f[1] = e[1] /\ f[2] = e[2]
    <3>1. Ghost(ps[f[1]], f[2]).id = Ghost(ps[e[1]], e[2]).id
      BY <1>6, <2>1
    <3>2. Ghost(ps[f[1]], f[2]).x = Ghost(ps[e[1]], e[2]).x
      BY <1>6, <2>1
    <3>. QED BY <2>3, <3>1, <3>2, GhostsDiffer
  <2>5. f = e
    BY <2>3, <2>4, Zenon
  <2>. QED BY <2>1, <2>5
<1>7. ASSUME NEW k \in 1 .. Len(ls), NEW l \in 1 .. Len(ls), k > Len(ps), l > Len(ps),
             ls[k].id = ls[l].id, ls[k].x = ls[l].x
      PROVE  k = l
  <2>1. (k \in 1 .. n \/ k = n + 1) /\ (l \in 1 .. n \/ l = n + 1)
    BY <1>1, <1>2
  <2>2. CASE k \in 1 .. n /\ l \in 1 .. n
    <3>1. ls[k] = qs[k] /\ ls[l] = qs[l]
      BY <1>1, <2>2
    <3>2. qs[k].id = qs[l].id /\ qs[k].x = qs[l].x
      BY <1>7, <3>1
    <3>. QED BY <1>7, <2>2, <3>2 DEF Ghosted
  <2>3. CASE k \in 1 .. n /\ l = n + 1
    BY <1>1, <1>6, <1>7, <2>3
  <2>4. CASE k = n + 1 /\ l \in 1 .. n
    BY <1>1, <1>6, <1>7, <2>4
  <2>. QED BY <2>1, <2>2, <2>3, <2>4
<1>8. Len(ls) >= Len(ps)
  BY <1>1, <1>2
<1>9. Ghosted(ls, ps, E \cup {e})
  BY <1>3, <1>4, <1>5, <1>7, <1>8 DEF Ghosted
<1>. QED BY <1>9 DEF ls

\* One more ghost.
LEMMA AddGhostStays ==
    ASSUME NEW ps \in Seq(Particle), NEW us \in Seq(Particle), NEW cap \in Nat,
           Extends(us, ps), NEW i \in 1 .. Len(us), NEW d, \A a \in Axes : d[a] \in Int,
           NEW c \in Grown(ps), Len(c.particles) >= Len(us)
    PROVE  /\ AddGhost(c, Exact(us, cap), i, d) \in Grown(ps)
           /\ Len(AddGhost(c, Exact(us, cap), i, d).particles) >= Len(us)
           /\ AddGhost(c, Exact(us, cap), i, d).particles
                = Append(c.particles, Ghost(c.particles[i], d))
<1>. DEFINE st == Exact(us, cap)
<1>1. PICK qs \in Seq(Particle), more \in Nat : Extends(qs, ps) /\ c = Exact(qs, more)
  BY GrownFacts
<1>2. c.particles = qs /\ st.refs[i].slot = i
  BY <1>1, ReferenceFacts DEF Exact
<1>3. i \in DOMAIN qs /\ qs[i] \in Particle
  BY <1>1, <1>2
<1>. DEFINE p == Ghost(qs[i], d)
            ls == Append(qs, p)
<1>4. p \in Particle /\ p.id = qs[i].id
  BY <1>3, GhostType
<1>5. AddGhost(c, st, i, d) = Add(Exact(qs, more), p)
  BY <1>1, <1>2, Zenon DEF AddGhost
<1>. HIDE DEF p
<1>6. PICK most \in Nat : Add(Exact(qs, more), p) = Exact(ls, most)
  BY <1>1, <1>4, AddExact
<1>7. /\ ls \in Seq(Particle) /\ Len(ls) = Len(qs) + 1
      /\ \A k \in 1 .. Len(qs) : ls[k] = qs[k]
      /\ ls[Len(qs) + 1] = p
  BY <1>1, <1>4, AppendFacts
<1>12. ls = Append(c.particles, Ghost(c.particles[i], d))
  BY <1>2 DEF p
<1>. HIDE DEF ls
<1>8. Extends(ls, ps)
  <2>1. Len(ls) >= Len(ps) /\ \A k \in 1 .. Len(ps) : ls[k] = ps[k]
    <3>1. Len(qs) >= Len(ps) /\ \A k \in 1 .. Len(ps) : qs[k] = ps[k]
      BY <1>1 DEF Extends
    <3>2. Len(qs) \in Nat /\ Len(ps) \in Nat
      BY <1>1
    <3>3. \A k \in 1 .. Len(ps) : k \in 1 .. Len(qs)
      BY <3>1, <3>2
    <3>. QED BY <1>7, <3>1, <3>2, <3>3
  <2>2. ASSUME NEW k \in DOMAIN ls PROVE \E j \in 1 .. Len(ps) : ls[k].id = ps[j].id
    <3>1. k \in 1 .. Len(qs) \/ k = Len(qs) + 1
      BY <1>7
    <3>2. CASE k \in 1 .. Len(qs)
      <4>1. k \in DOMAIN qs /\ ls[k] = qs[k]
        BY <1>1, <1>7, <3>2
      <4>. QED BY <1>1, <4>1, Zenon DEF Extends
    <3>3. CASE k = Len(qs) + 1
      <4>1. ls[k].id = qs[i].id
        BY <1>4, <1>7, <3>3
      <4>. QED BY <1>1, <1>3, <4>1, ZenonT(30) DEF Extends
    <3>. QED BY <3>1, <3>2, <3>3
  <2>. QED BY <2>1, <2>2 DEF Extends
<1>9. AddGhost(c, st, i, d) = Exact(ls, most)
  BY <1>5, <1>6, Zenon
<1>10. Exact(ls, most) \in Grown(ps)
  BY <1>7, <1>8, GrownFacts
<1>11. Exact(ls, most).particles = ls /\ Len(ls) >= Len(us)
  <2>1. Len(qs) >= Len(us) /\ Len(qs) \in Nat /\ Len(us) \in Nat
    BY <1>1, <1>2
  <2>. QED BY <1>7, <2>1 DEF Exact
<1>. HIDE DEF st
<1>. QED BY <1>9, <1>10, <1>11, <1>12 DEF st

\* The ghosts of one direction.
LEMMA AddGhostsGrows ==
    ASSUME NEW ps \in Seq(Particle), NEW st \in Grown(ps),
           NEW d \in Range(GhostDirections), \A a \in Axes : d[a] \in Int
    PROVE  AddGhosts(st, d) \in Grown(ps)
<1>1. PICK us \in Seq(Particle), cap \in Nat : Extends(us, ps) /\ st = Exact(us, cap)
  BY GrownFacts
<1>. DEFINE found == {i \in DOMAIN st.refs : st.refs[i].cell \in GhostSources[d]}
            list == Visits(st.refs, found)
            n == Cardinality(found)
            S == {c \in Grown(ps) : Len(c.particles) >= Len(us)}
            Good == [m \in 0 .. n |-> S]
<1>2. /\ st.refs = ReferencesTo(us, cap) /\ st.particles = us
      /\ DOMAIN st.refs = 1 .. Len(us) /\ \A i \in 1 .. Len(us) : st.refs[i].slot = i
  BY <1>1, ReferenceFacts DEF Exact
<1>3. GhostSources[d] \subseteq Cells
  BY DEF GhostSources
<1>4. n \in Nat /\ list \in Bijection(1 .. n, found) /\ found \in SUBSET (1 .. Len(us))
  <2>1. found \in SUBSET (1 .. Len(us))
    BY <1>2
  <2>2. \A i \in found : st.refs[i].cell \in Cells /\ st.refs[i].slot = i
    BY <1>2, <1>3
  <2>3. Len(us) \in Nat
    OBVIOUS
  <2>. HIDE DEF found
  <2>. QED BY <2>1, <2>2, <2>3, VisitsFacts
<1>5. DOMAIN list = 1 .. n /\ \A m \in 1 .. n : list[m] \in 1 .. Len(us)
  BY <1>4 DEF Bijection, Injection
<1>. HIDE DEF n
<1>6. st \in S
  BY <1>2
<1>7. \A m \in 1 .. n : \A c \in S : AddGhost(c, st, list[m], d) \in S
  <2>1. ASSUME NEW i \in 1 .. Len(us), NEW c \in S PROVE AddGhost(c, st, i, d) \in S
    <3>1. c \in Grown(ps) /\ Len(c.particles) >= Len(us)
      OBVIOUS
    <3>2. AddGhost(c, st, i, d) \in Grown(ps) /\ Len(AddGhost(c, st, i, d).particles) >= Len(us)
      <4>. HIDE DEF S
      <4>. QED BY <1>1, <3>1, AddGhostStays
    <3>. QED BY <3>2
  <2>. HIDE DEF S, list
  <2>. QED BY <1>5, <2>1
<1>8. st \in Good[0]
  BY <1>4, <1>6
<1>9. \A m \in 1 .. n : \A c \in S : c \in Good[m - 1] => AddGhost(c, st, list[m], d) \in Good[m]
  <2>1. \A m \in 1 .. n : Good[m] = S
    OBVIOUS
  <2>. HIDE DEF Good, S, list
  <2>. QED BY <1>7, <2>1
<1>10. AddGhosts(st, d) \in S
  <2>1. list = Visits(st.refs, {i \in DOMAIN st.refs : st.refs[i].cell \in GhostSources[d]})
    OBVIOUS
  <2>. HIDE DEF S, Good, list
  <2>. QED BY <1>4, <1>5, <1>6, <1>7, <1>8, <1>9, <2>1, AddGhostsFold
<1>. QED BY <1>10

\* Those of one direction.
WantedIn(ps, d) == {e \in Wanted(ps) : e[2] = d}

\* They are those that are wanted in the direction, each once.
LEMMA AddGhostsExact ==
    ASSUME NEW ps, Real(ps), NEW E \in SUBSET Wanted(ps), NEW st \in Grown(ps),
           Ghosted(st.particles, ps, E),
           NEW d \in Directions, \A e \in E : e[2] # d
    PROVE  Ghosted(AddGhosts(st, d).particles, ps, E \cup WantedIn(ps, d))
<1>1. PICK us \in Seq(Particle), cap \in Nat : Extends(us, ps) /\ st = Exact(us, cap)
  BY GrownFacts
<1>. DEFINE found == {i \in DOMAIN st.refs : st.refs[i].cell \in GhostSources[d]}
            list == Visits(st.refs, found)
            n == Cardinality(found)
            Done(m) == E \cup {<<list[l], d>> : l \in 1 .. m}
            S == {c \in Grown(ps) : Len(c.particles) >= Len(us)}
            Good == [m \in 0 .. n |-> {c \in S : Ghosted(c.particles, ps, Done(m))}]
<1>2. /\ st.refs = ReferencesTo(us, cap) /\ st.particles = us /\ DOMAIN st.refs = 1 .. Len(us)
      /\ \A i \in 1 .. Len(us) : /\ st.refs[i].slot = i
                                 /\ st.refs[i].cell = particlePosToCell(us[i].x)
  BY <1>1, ReferenceFacts DEF Exact
<1>3. GhostSources[d] \subseteq Cells
  BY DirectionsAre DEF GhostSources
<1>4. n \in Nat /\ list \in Bijection(1 .. n, found) /\ found \in SUBSET (1 .. Len(us))
  <2>1. found \in SUBSET (1 .. Len(us))
    BY <1>2
  <2>2. \A i \in found : st.refs[i].cell \in Cells /\ st.refs[i].slot = i
    BY <1>2, <1>3
  <2>3. Len(us) \in Nat
    OBVIOUS
  <2>. HIDE DEF found
  <2>. QED BY <2>1, <2>2, <2>3, VisitsFacts
<1>5. found = {i \in 1 .. Len(us) : <<i, d>> \in Wanted(ps)}
  <2>1. \A i \in 1 .. Len(us) :
          st.refs[i].cell \in GhostSources[d] <=> <<i, d>> \in Wanted(ps)
    BY <1>2, SourcesAreReal
  <2>. QED BY <1>2, <2>1
<1>6. /\ DOMAIN list = 1 .. n /\ \A m \in 1 .. n : list[m] \in found
      /\ \A k, l \in 1 .. n : list[k] = list[l] => k = l
      /\ \A i \in found : \E m \in 1 .. n : list[m] = i
  BY <1>4, Zenon DEF Bijection, Injection, Surjection, IsInjective
<1>7. \A m \in 1 .. n : list[m] \in 1 .. Len(us)
  BY <1>4, <1>6
<1>8. list = Visits(st.refs, {i \in DOMAIN st.refs : st.refs[i].cell \in GhostSources[d]})
  OBVIOUS
<1>. HIDE DEF n, found, list
<1>9. \A a \in Axes : d[a] \in Int
  BY DirectionFacts
<1>10. st \in S /\ st \in Good[0]
  <2>1. Done(0) = E
    OBVIOUS
  <2>2. 0 \in 0 .. n
    BY <1>4
  <2>. HIDE DEF Done
  <2>. QED BY <1>2, <2>1, <2>2
<1>11. ASSUME NEW m \in 1 .. n, NEW c \in S
       PROVE  /\ AddGhost(c, st, list[m], d) \in S
              /\ AddGhost(c, st, list[m], d).particles
                   = Append(c.particles, Ghost(c.particles[list[m]], d))
  <2>1. c \in Grown(ps) /\ Len(c.particles) >= Len(us) /\ ps \in Seq(Particle)
    BY DEF Real
  <2>2. PICK i \in 1 .. Len(us) : i = list[m]
    BY <1>7
  <2>. HIDE DEF S
  <2>3. /\ AddGhost(c, st, i, d) \in Grown(ps)
        /\ Len(AddGhost(c, st, i, d).particles) >= Len(us)
        /\ AddGhost(c, st, i, d).particles = Append(c.particles, Ghost(c.particles[i], d))
    BY <1>1, <1>9, <2>1, AddGhostStays, SMTT(30)
  <2>. QED BY <2>2, <2>3 DEF S
<1>12. ASSUME NEW m \in 1 .. n, NEW c \in S, c \in Good[m - 1]
       PROVE  AddGhost(c, st, list[m], d) \in Good[m]
  <2>. DEFINE e == <<list[m], d>>
              p == Ghost(ps[list[m]], d)
  <2>1. m \in 0 .. n /\ m - 1 \in 0 .. n
    BY <1>4
  <2>2. Ghosted(c.particles, ps, Done(m - 1))
    BY <1>12, <2>1
  <2>3. e \in Wanted(ps) /\ list[m] \in 1 .. Len(ps) /\ ps[list[m]] \in Particle
    <3>1. e \in Wanted(ps)
      BY <1>5, <1>6
    <3>. QED BY <3>1, WantedFacts
  <2>4. c.particles \in Seq(Particle) /\ c.particles[list[m]] = ps[list[m]]
    <3>1. PICK qs \in Seq(Particle), more \in Nat : Extends(qs, ps) /\ c = Exact(qs, more)
      BY GrownFacts
    <3>2. c.particles = qs
      BY <3>1 DEF Exact
    <3>. QED BY <2>2, <2>3, <3>1, <3>2 DEF Ghosted
  <2>5. Done(m - 1) \in SUBSET Wanted(ps)
    <3>1. \A l \in 1 .. (m - 1) : l \in 1 .. n
      BY <1>4
    <3>2. \A l \in 1 .. (m - 1) : <<list[l], d>> \in Wanted(ps)
      BY <1>5, <1>6, <3>1
    <3>. QED BY <3>2
  <2>6. e \notin Done(m - 1)
    <3>1. \A l \in 1 .. (m - 1) : l \in 1 .. n /\ l # m
      BY <1>4
    <3>2. \A l \in 1 .. (m - 1) : list[l] # list[m]
      BY <1>6, <3>1
    <3>. QED BY <3>2
  <2>7. Done(m) = Done(m - 1) \cup {e}
    <3>1. \A l : l \in 1 .. m <=> l \in 1 .. (m - 1) \/ l = m
      BY <1>4
    <3>. QED BY <3>1
  <2>8. p \in Particle
    BY <1>9, <2>3, GhostType
  <2>9. AddGhost(c, st, list[m], d).particles = Append(c.particles, p)
    BY <1>11, <2>4
  <2>10. p = Ghost(ps[e[1]], e[2])
    OBVIOUS
  <2>. HIDE DEF e, p, Done
  <2>11. Ghosted(Append(c.particles, p), ps, Done(m - 1) \cup {e})
    BY <2>2, <2>3, <2>4, <2>5, <2>6, <2>8, <2>10, OneMoreGhost
  <2>12. AddGhost(c, st, list[m], d) \in S
    BY <1>11
  <2>. QED BY <2>1, <2>7, <2>9, <2>11, <2>12
<1>13. AddGhosts(st, d) \in S /\ AddGhosts(st, d) \in Good[n]
  <2>. HIDE DEF S, Done, Good
  <2>1. \A m \in 1 .. n : \A c \in S : AddGhost(c, st, list[m], d) \in S
    BY <1>11
  <2>2. \A m \in 1 .. n : \A c \in S :
          c \in Good[m - 1] => AddGhost(c, st, list[m], d) \in Good[m]
    BY <1>12
  <2>3. n \in Nat /\ DOMAIN list = 1 .. n
    BY <1>4, <1>6
  <2>4. st \in S /\ st \in Good[0]
    BY <1>10
  <2>. QED BY <1>8, <2>1, <2>2, <2>3, <2>4, AddGhostsFold
<1>14. Done(n) = E \cup WantedIn(ps, d)
  <2>1. ASSUME NEW e \in Wanted(ps), e[2] = d PROVE e \in Done(n)
    <3>1. e = <<e[1], d>> /\ e[1] \in 1 .. Len(ps)
      BY <2>1, WantedFacts
    <3>2. Len(us) >= Len(ps) /\ Len(us) \in Nat /\ Len(ps) \in Nat
      BY <1>2 DEF Ghosted, Real
    <3>3. e[1] \in found
      BY <1>5, <3>1, <3>2
    <3>4. PICK m \in 1 .. n : list[m] = e[1]
      BY <1>6, <3>3
    <3>. QED BY <3>1, <3>4
  <2>2. \A l \in 1 .. n : <<list[l], d>> \in Wanted(ps)
    BY <1>5, <1>6
  <2>. QED BY <2>1, <2>2 DEF WantedIn
<1>15. n \in 0 .. n
  BY <1>4
<1>. HIDE DEF Done
<1>. QED BY <1>13, <1>14, <1>15

\* The ghosts of all directions that are periodic.
AllGhosts(ps) == {e \in Wanted(ps) : IsPeriodic(e[2])}

\* No direction is listed twice.
LEMMA DirectionsDiffer ==
    \A k, l \in 1 .. 26 : GhostDirections[k] = GhostDirections[l] => k = l
<1>1. ASSUME NEW k \in 1 .. 26, NEW l \in 1 .. 26, GhostDirections[k] = GhostDirections[l]
      PROVE  k = l
  <2>. DEFINE code(d) == (d[1] + 1) * 9 + (d[2] + 1) * 3 + d[3] + 1
              codes == <<22, 4, 16, 10, 14, 12, 25, 19, 7, 1, 23, 21, 5, 3, 17, 15, 11, 9,
                         26, 24, 20, 18, 8, 6, 2, 0>>
  <2>1. \A j \in 1 .. 26 : code(GhostDirections[j]) = codes[j]
    BY DEF GhostDirections
  <2>2. \A i, j \in 1 .. 26 : codes[i] = codes[j] => i = j
    OBVIOUS
  <2>. HIDE DEF codes
  <2>3. codes[k] = codes[l]
    BY <1>1, <2>1
  <2>. QED BY <2>2, <2>3
<1>. QED BY <1>1

\* All ghosts: the particles stay where they are, at the front of the vector, each
\* ghost is added once, and the references are exact at the end.
LEMMA WithGhostsGrows ==
    ASSUME NEW ps, Real(ps), NEW cap \in Nat
    PROVE  /\ WithGhosts(Exact(ps, cap)) \in Grown(ps)
           /\ Ghosted(WithGhosts(Exact(ps, cap)).particles, ps, AllGhosts(ps))
<1>. DEFINE st == Exact(ps, cap)
            S == Grown(ps)
            Done(m) == {e \in Wanted(ps) : IsPeriodic(e[2]) /\ \E k \in 1 .. m : e[2] = GhostDirections[k]}
            Good == [m \in 0 .. 26 |-> {c \in S : Ghosted(c.particles, ps, Done(m))}]
<1>1. st \in S /\ st.particles = ps
  <2>1. Extends(ps, ps) /\ ps \in Seq(Particle)
    BY DEF Extends, Real
  <2>. QED BY <2>1, GrownFacts DEF Exact
<1>2. \A m \in 1 .. 26 : GhostDirections[m] \in Directions
  BY GhostDirectionsType, DirectionsAre
<1>. HIDE DEF st, S
<1>3. ASSUME NEW m \in 1 .. 26
      PROVE  /\ Done(m - 1) \in SUBSET Wanted(ps)
             /\ \A e \in Done(m - 1) : e[2] # GhostDirections[m]
             /\ IsPeriodic(GhostDirections[m]) =>
                  Done(m) = Done(m - 1) \cup WantedIn(ps, GhostDirections[m])
             /\ ~IsPeriodic(GhostDirections[m]) => Done(m) = Done(m - 1)
  <2>1. \A k : k \in 1 .. m <=> k \in 1 .. (m - 1) \/ k = m
    OBVIOUS
  <2>2. \A k \in 1 .. (m - 1) : k \in 1 .. 26 /\ k # m
    OBVIOUS
  <2>3. \A k \in 1 .. (m - 1) : GhostDirections[k] # GhostDirections[m]
    BY <2>2, DirectionsDiffer
  <2>4. ASSUME NEW e \in Done(m - 1) PROVE e[2] # GhostDirections[m]
    BY <2>3
  <2>. QED BY <2>1, <2>4 DEF WantedIn
<1>4. \A m \in 1 .. 26 : \A c \in S : GhostsOf(c, GhostDirections[m]) \in S
  <2>1. ps \in Seq(Particle)
    BY DEF Real
  <2>. QED BY <2>1, GhostDirectionsType, AddGhostsGrows DEF GhostsOf, S
<1>5. \A m \in 1 .. 26 : \A c \in S :
        c \in Good[m - 1] => GhostsOf(c, GhostDirections[m]) \in Good[m]
  <2>1. ASSUME NEW m \in 1 .. 26, NEW c \in S, c \in Good[m - 1]
        PROVE  GhostsOf(c, GhostDirections[m]) \in Good[m]
    <3>. DEFINE d == GhostDirections[m]
    <3>1. m - 1 \in 0 .. 26 /\ m \in 0 .. 26 /\ d \in Directions
      BY <1>2
    <3>2. Ghosted(c.particles, ps, Done(m - 1)) /\ c \in Grown(ps)
      BY <2>1, <3>1 DEF S
    <3>3. GhostsOf(c, d) \in S
      BY <1>4
    <3>4. CASE IsPeriodic(d)
      <4>1. GhostsOf(c, d) = AddGhosts(c, d)
        BY <3>4 DEF GhostsOf
      <4>2. PICK E \in SUBSET Wanted(ps) : E = Done(m - 1)
        BY <1>3
      <4>3. \A e \in E : e[2] # d
        BY <1>3, <4>2
      <4>4. Ghosted(AddGhosts(c, d).particles, ps, E \cup WantedIn(ps, d))
        <5>1. Ghosted(c.particles, ps, E)
          BY <3>2, <4>2
        <5>. HIDE DEF d, Done, Good
        <5>. QED BY <3>1, <3>2, <4>3, <5>1, AddGhostsExact
      <4>5. Done(m) = E \cup WantedIn(ps, d)
        BY <1>3, <3>4, <4>2
      <4>6. Ghosted(GhostsOf(c, d).particles, ps, Done(m))
        <5>. HIDE DEF d, Done, Good
        <5>. QED BY <4>1, <4>4, <4>5
      <4>. HIDE DEF Done
      <4>. QED BY <3>1, <3>3, <4>6
    <3>5. CASE ~IsPeriodic(d)
      <4>1. GhostsOf(c, d) = c /\ Done(m) = Done(m - 1)
        BY <1>3, <3>5 DEF GhostsOf
      <4>. HIDE DEF Done
      <4>. QED BY <3>1, <3>2, <4>1
    <3>. QED BY <3>4, <3>5
  <2>. QED BY <2>1
<1>6. st \in Good[0]
  <2>1. Done(0) = {} /\ 0 \in 0 .. 26
    OBVIOUS
  <2>2. Ghosted(st.particles, ps, {})
    BY <1>1, GhostedStart
  <2>. HIDE DEF Done
  <2>. QED BY <1>1, <2>1, <2>2
<1>7. WithGhosts(st) \in S /\ WithGhosts(st) \in Good[26]
  <2>. HIDE DEF Good
  <2>1. PICK n \in Nat : n = 26
    OBVIOUS
  <2>2. PICK list : list = GhostDirections
    OBVIOUS
  <2>3. DOMAIN list = 1 .. n
    BY <2>1, <2>2, GhostDirectionsType
  <2>4. \A m \in 1 .. n : \A c \in S : GhostsOf(c, list[m]) \in S
    BY <1>4, <2>1, <2>2
  <2>5. \A m \in 1 .. n : \A c \in S : c \in Good[m - 1] => GhostsOf(c, list[m]) \in Good[m]
    BY <1>5, <2>1, <2>2
  <2>6. WithGhosts(st) \in S /\ WithGhosts(st) \in Good[n]
    BY <1>1, <1>6, <2>2, <2>3, <2>4, <2>5, WithGhostsFold
  <2>. QED BY <2>1, <2>6
<1>8. Done(26) = AllGhosts(ps)
  <2>1. ASSUME NEW e \in Wanted(ps) PROVE \E k \in 1 .. 26 : e[2] = GhostDirections[k]
    <3>1. e[2] \in Range(GhostDirections)
      BY WantedFacts, DirectionsAre
    <3>. QED BY <3>1, GhostDirectionsType DEF Range
  <2>. QED BY <2>1 DEF AllGhosts
<1>9. Ghosted(WithGhosts(st).particles, ps, Done(26))
  <2>1. 26 \in 0 .. 26
    OBVIOUS
  <2>. HIDE DEF Done
  <2>. QED BY <1>7, <2>1
<1>. QED BY <1>7, <1>8, <1>9 DEF st, S

-----------------------------------------------------------------------------
(***************************************************************************)
(* prepareForceCalculation                                                 *)
(***************************************************************************)

IdsOf(ps) == {ps[i].id : i \in DOMAIN ps}

\* The particles of qs are those of ps, at other places.
SameParticles(qs, ps) ==
    /\ qs \in Seq(Particle) /\ Len(qs) = Len(ps)
    /\ \A i \in 1 .. Len(ps) : qs[i].id = ps[i].id /\ qs[i].locked = ps[i].locked

LEMMA SameIsReal ==
    ASSUME NEW ps, Real(ps), NEW qs, SameParticles(qs, ps)
    PROVE  Real(qs) /\ IdsOf(qs) = IdsOf(ps)
<1>1. /\ ps \in Seq(Particle) /\ qs \in Seq(Particle)
      /\ DOMAIN qs = 1 .. Len(ps) /\ DOMAIN ps = 1 .. Len(ps)
  BY DEF Real, SameParticles
<1>2. \A i \in 1 .. Len(ps) : qs[i].id = ps[i].id /\ qs[i].locked = ps[i].locked
  BY DEF SameParticles
<1>3. DistinctIds(qs) /\ OnlyStartLocked(qs)
  BY <1>1, <1>2 DEF Real, DistinctIds, OnlyStartLocked
<1>4. IdsOf(qs) = IdsOf(ps)
  BY <1>1, <1>2 DEF IdsOf
<1>. QED BY <1>1, <1>3, <1>4 DEF Real

LEMMA MoveSame ==
    ASSUME NEW ps, NEW qs, SameParticles(qs, ps), NEW i \in Nat \ {0},
           NEW offset \in Positions
    PROVE  SameParticles(MoveSlot(qs, i, offset), ps)
<1>1. qs \in Seq(Particle) /\ Len(qs) = Len(ps)
  BY DEF SameParticles
<1>2. CASE i <= Len(qs)
  <2>. DEFINE p == [qs[i] EXCEPT !.x = Shifted(@, offset)]
              ms == [qs EXCEPT ![i] = p]
  <2>1. MoveSlot(qs, i, offset) = ms
    BY <1>2 DEF MoveSlot
  <2>2. qs[i] \in Particle
    BY <1>1, <1>2
  <2>3. p \in Particle /\ p.id = qs[i].id /\ p.locked = qs[i].locked
    <3>1. Shifted(qs[i].x, offset) \in Positions
      BY <2>2, ShiftedType DEF Particle
    <3>. QED BY <2>2, <3>1 DEF Particle
  <2>. HIDE DEF p
  <2>4. /\ ms \in Seq(Particle) /\ Len(ms) = Len(qs)
        /\ \A k \in 1 .. Len(qs) : ms[k] = IF k = i THEN p ELSE qs[k]
    BY <1>1, <1>2, <2>3
  <2>. HIDE DEF ms
  <2>5. SameParticles(ms, ps)
    BY <1>1, <2>3, <2>4 DEF SameParticles
  <2>. QED BY <2>1, <2>5
<1>3. CASE ~(i <= Len(qs))
  BY <1>3 DEF MoveSlot
<1>. QED BY <1>2, <1>3

LEMMA EscapedList ==
    ASSUME NEW ps \in Seq(Particle), NEW cap, NEW bc
    PROVE  \E n \in Nat :
             LET V == Escaped(ReferencesTo(ps, cap), bc) IN
             /\ DOMAIN V = 1 .. n
             /\ \A m \in 1 .. n : V[m].slot \in Nat \ {0} /\ V[m].side \in Sides
             /\ (\A s \in Sides : boundary_types[s] # bc) => n = 0
<1>. DEFINE V == Escaped(ReferencesTo(ps, cap), bc)
            n == Len(V)
<1>1. /\ V \in Seq(VisitsOf(Len(ps)))
      /\ \A e : e \in Range(V) <=>
                  /\ e \in VisitsOf(Len(ps)) /\ boundary_types[e.side] = bc
                  /\ particlePosToCell(ps[e.slot].x) \in HaloOf(e.side)
  BY EscapedFacts
<1>. HIDE DEF V
<1>2. n \in Nat /\ DOMAIN V = 1 .. n /\ \A m \in 1 .. n : V[m] \in VisitsOf(Len(ps))
  BY <1>1
<1>3. \A m \in 1 .. n : V[m].slot \in Nat \ {0} /\ V[m].side \in Sides
  BY <1>2 DEF VisitsOf
<1>4. ASSUME \A s \in Sides : boundary_types[s] # bc PROVE n = 0
  <2>1. \A m \in 1 .. n : V[m] \in Range(V)
    BY <1>2, Zenon DEF Range
  <2>2. \A m \in 1 .. n : boundary_types[V[m].side] = bc
    BY <1>1, <2>1
  <2>3. \A m \in 1 .. n : FALSE
    BY <1>3, <1>4, <2>2
  <2>. QED BY <1>2, <2>3
<1>. QED BY <1>2, <1>3, <1>4 DEF V

\* The erases leave particles of the simulation, and all if no side is OUTFLOW.
LEMMA OutflowReal ==
    ASSUME NEW ps, Real(ps), NEW cap
    PROVE  /\ Real(OutflowPre(ps, ReferencesTo(ps, cap)))
           /\ (\A s \in Sides : boundary_types[s] # "OUTFLOW")
                => OutflowPre(ps, ReferencesTo(ps, cap)) = ps
<1>. DEFINE rs == ReferencesTo(ps, cap)
            list == Escaped(rs, "OUTFLOW")
            S == {qs \in Seq(Particle) : Real(qs)}
            Closed == \A s \in Sides : boundary_types[s] # "OUTFLOW"
<1>1. PICK n \in Nat :
        /\ DOMAIN list = 1 .. n
        /\ \A m \in 1 .. n : list[m].slot \in Nat \ {0}
        /\ Closed => n = 0
  BY EscapedList DEF Real
<1>. DEFINE Good == [m \in 0 .. n |-> IF Closed THEN {ps} ELSE S]
<1>2. ps \in S /\ ps \in Good[0]
  BY DEF Real
<1>3. \A m \in 1 .. n : \A x \in S : Erase(x, list[m].slot) \in S
  <2>1. ASSUME NEW i \in Nat \ {0}, NEW x \in S PROVE Erase(x, i) \in S
    BY EraseReal DEF Real
  <2>. HIDE DEF S, list
  <2>. QED BY <1>1, <2>1
<1>4. \A m \in 1 .. n : \A x \in S : x \in Good[m - 1] => Erase(x, list[m].slot) \in Good[m]
  <2>1. \A m \in 1 .. n : ~Closed /\ Good[m] = S
    BY <1>1
  <2>. HIDE DEF Good, S, list, Closed
  <2>. QED BY <1>3, <2>1
<1>5. OutflowPre(ps, rs) \in S /\ OutflowPre(ps, rs) \in Good[n]
  <2>1. list = Escaped(rs, "OUTFLOW")
    OBVIOUS
  <2>. HIDE DEF S, Good, list, rs, Closed
  <2>. QED BY <1>1, <1>2, <1>3, <1>4, <2>1, OutflowPreFold
<1>6. Good[n] = IF Closed THEN {ps} ELSE S
  OBVIOUS
<1>. HIDE DEF Good
<1>. QED BY <1>5, <1>6

\* The moves keep the particles, whichever slots they go to.
LEMMA PeriodicSame ==
    ASSUME NEW ps, Real(ps), NEW us \in Seq(Particle), NEW cap
    PROVE  SameParticles(PeriodicPre(ps, ReferencesTo(us, cap)), ps)
<1>. DEFINE rs == ReferencesTo(us, cap)
            list == Escaped(rs, "PERIODIC")
            S == {qs \in Seq(Particle) : SameParticles(qs, ps)}
            Step(x, m) == MoveSlot(x, list[m].slot, Teleport(list[m].side))
<1>1. PICK n \in Nat :
        /\ DOMAIN list = 1 .. n
        /\ \A m \in 1 .. n : list[m].slot \in Nat \ {0} /\ list[m].side \in Sides
  BY EscapedList
<1>. DEFINE Good == [m \in 0 .. n |-> S]
<1>2. ps \in S /\ ps \in Good[0]
  BY DEF Real, SameParticles
<1>3. \A m \in 1 .. n : \A x \in S : Step(x, m) \in S
  <2>1. ASSUME NEW i \in Nat \ {0}, NEW s \in Sides, NEW x \in S
        PROVE  MoveSlot(x, i, Teleport(s)) \in S
    <3>1. SameParticles(MoveSlot(x, i, Teleport(s)), ps)
      BY MoveSame, TeleportType
    <3>. QED BY <3>1 DEF SameParticles
  <2>. HIDE DEF S, list
  <2>. QED BY <1>1, <2>1
<1>4. \A m \in 1 .. n : \A x \in S : x \in Good[m - 1] => Step(x, m) \in Good[m]
  <2>1. \A m \in 1 .. n : Good[m] = S
    OBVIOUS
  <2>. HIDE DEF Good, S, list, Step
  <2>. QED BY <1>3, <2>1
<1>5. PeriodicPre(ps, rs) \in S
  <2>1. list = Escaped(rs, "PERIODIC")
    OBVIOUS
  <2>. HIDE DEF S, Good, list, rs
  <2>. QED BY <1>1, <1>2, <1>3, <1>4, <2>1, PeriodicPreFold
<1>. QED BY <1>5

-----------------------------------------------------------------------------
(***************************************************************************)
(* The inductive invariant                                                 *)
(***************************************************************************)

Phases == {"setup", "moved", "prepared", "forces", "idle", "thrown", "undefined"}

\* The particles that are there when the ghosts are gone again.
Kept == SubSeq(particles, 1, original)

Inv ==
    /\ pc \in Phases /\ capacity \in Nat /\ original \in Nat
    /\ particles \in Seq(Particle)
    /\ ReferencesExact
    /\ pc = "setup" => \A i \in DOMAIN particles : particles[i].id = i
    /\ pc # "forces" => Real(particles)
    /\ pc = "forces" => original <= Len(particles) /\ Real(Kept) /\ Extends(particles, Kept)

LEMMA InitInv == Init => Inv
<1>. SUFFICES ASSUME Init PROVE Inv
  OBVIOUS
<1>1. /\ pc = "setup" /\ particles = <<>> /\ capacity = 0 /\ original = 0 /\ refs = <<>>
  BY DEF Init
<1>2. ReferencesTo(particles, capacity) = <<>>
  BY <1>1 DEF ReferencesTo
<1>3. Real(particles)
  BY <1>1 DEF Real, DistinctIds, OnlyStartLocked
<1>. QED BY <1>1, <1>2, <1>3 DEF Inv, ReferencesExact, Phases

LEMMA AddParticleInv == Inv /\ AddParticle => Inv'
<1>. SUFFICES ASSUME Inv, AddParticle PROVE Inv'
  OBVIOUS
<1>1. /\ pc = "setup" /\ capacity \in Nat /\ original \in Nat
      /\ particles \in Seq(Particle) /\ refs = ReferencesTo(particles, capacity)
      /\ Real(particles) /\ \A i \in DOMAIN particles : particles[i].id = i
  BY DEF Inv, ReferencesExact, AddParticle
<1>. DEFINE id == Len(particles) + 1
            p(x) == [id |-> id, x |-> x, locked |-> id \in StartLocked]
<1>2. original' = original
  BY DEF AddParticle
<1>3. PICK x \in StartPositions :
        IF particlePosToCell(x) = NoCell
        THEN pc' = "thrown" /\ UNCHANGED <<particles, capacity, refs>>
        ELSE Becomes(Add(Container, p(x))) /\ UNCHANGED pc
  BY Zenon DEF AddParticle
<1>4. CASE particlePosToCell(x) = NoCell
  <2>1. pc' = "thrown" /\ UNCHANGED <<particles, capacity, refs>>
    BY <1>3, <1>4
  <2>. QED BY <1>1, <1>2, <2>1 DEF Inv, ReferencesExact, Phases
<1>5. CASE particlePosToCell(x) # NoCell
  <2>1. pc' = "setup" /\ Becomes(Add(Container, p(x)))
    BY <1>1, <1>3, <1>5
  <2>. DEFINE q == p(x)
              longer == Append(particles, q)
  <2>2. q \in Particle /\ q.id = id /\ q.locked = (id \in StartLocked)
    <3>1. x \in Positions
      BY LinkedCellsAssumption DEF LinkedCellsAssumption, Positions
    <3>2. id \in Nat
      BY <1>1
    <3>3. (id \in StartLocked) \in BOOLEAN
      OBVIOUS
    <3>. QED BY <3>1, <3>2, <3>3 DEF Particle
  <2>. HIDE DEF q
  <2>3. PICK more \in Nat : Add(Container, q) = Exact(longer, more)
    <3>1. Container = Exact(particles, capacity)
      BY <1>1 DEF Container, Exact
    <3>. QED BY <1>1, <2>2, <3>1, AddExact
  <2>4. particles' = longer /\ capacity' = more /\ refs' = ReferencesTo(longer, more)
    BY <2>1, <2>3 DEF Becomes, Exact, q
  <2>5. /\ longer \in Seq(Particle) /\ Len(longer) = id
        /\ \A i \in 1 .. Len(particles) : longer[i] = particles[i]
        /\ longer[id] = q
    BY <1>1, <2>2, AppendFacts
  <2>. HIDE DEF longer
  <2>6. \A i \in DOMAIN longer : i \in DOMAIN particles \/ i = id
    BY <1>1, <2>5
  <2>7. \A i \in DOMAIN longer : longer[i].id = i
    BY <1>1, <2>2, <2>5, <2>6
  <2>8. \A i \in DOMAIN longer : longer[i].locked <=> longer[i].id \in StartLocked
    <3>1. \A i \in DOMAIN particles : particles[i].locked <=> particles[i].id \in StartLocked
      BY <1>1 DEF Real, OnlyStartLocked
    <3>2. \A i \in DOMAIN particles : longer[i] = particles[i]
      BY <1>1, <2>5
    <3>. QED BY <2>2, <2>5, <2>6, <3>1, <3>2, Zenon
  <2>9. Real(longer)
    BY <2>5, <2>7, <2>8 DEF Real, DistinctIds, OnlyStartLocked
  <2>. QED BY <1>1, <1>2, <2>1, <2>3, <2>4, <2>5, <2>7, <2>9 DEF Inv, ReferencesExact, Phases
<1>. QED BY <1>4, <1>5

LEMMA ReserveInv == Inv /\ Reserve => Inv'
<1>. SUFFICES ASSUME Inv, Reserve PROVE Inv'
  OBVIOUS
<1>1. Reserved \in Nat
  BY LinkedCellsAssumption DEF LinkedCellsAssumption
<1>. QED BY <1>1 DEF Inv, Reserve, ReferencesExact, Phases

LEMMA StartSimulationInv == Inv /\ StartSimulation => Inv'
  BY DEF Inv, StartSimulation, ReferencesExact, Phases

LEMMA UpdatePositionsSame ==
    ASSUME Inv, UpdatePositions
    PROVE  Real(particles) /\ SameParticles(particles', particles)
<1>1. Real(particles) /\ particles \in Seq(Particle)
  BY DEF Inv, UpdatePositions
<1>2. PICK move \in [DOMAIN particles -> Moves] :
        particles' = [i \in DOMAIN particles |->
            IF particles[i].locked THEN particles[i]
            ELSE [particles[i] EXCEPT !.x = Shifted(@, move[i])]]
  BY Zenon DEF UpdatePositions
<1>. DEFINE n == Len(particles)
<1>3. n \in Nat /\ DOMAIN particles = 1 .. n
  BY <1>1
<1>4. ASSUME NEW i \in 1 .. n
      PROVE  /\ particles'[i] \in Particle
             /\ particles'[i].id = particles[i].id /\ particles'[i].locked = particles[i].locked
  <2>1. particles[i] \in Particle /\ move[i] \in Positions
    BY <1>1, <1>2, <1>3, LinkedCellsAssumption DEF LinkedCellsAssumption, Positions
  <2>2. Shifted(particles[i].x, move[i]) \in Positions
    BY <2>1, ShiftedType DEF Particle
  <2>3. particles'[i] = IF particles[i].locked THEN particles[i]
                        ELSE [particles[i] EXCEPT !.x = Shifted(@, move[i])]
    BY <1>2, <1>3
  <2>. QED BY <2>1, <2>2, <2>3 DEF Particle
<1>5. particles' \in Seq(Particle) /\ Len(particles') = n
  <2>1. particles' \in [1 .. n -> Particle]
    BY <1>2, <1>3, <1>4
  <2>. QED BY <1>3, <2>1, FunctionIsSeq
<1>. QED BY <1>1, <1>4, <1>5 DEF SameParticles

LEMMA UpdatePositionsInv == Inv /\ UpdatePositions => Inv'
<1>. SUFFICES ASSUME Inv, UpdatePositions PROVE Inv'
  OBVIOUS
<1>1. Real(particles) /\ SameParticles(particles', particles)
  BY UpdatePositionsSame
<1>2. Real(particles')
  BY <1>1, SameIsReal
<1>3. pc' = "moved" /\ capacity' = capacity /\ original' = original
  BY DEF UpdatePositions
<1>4. particles' \in Seq(Particle)
  BY <1>2 DEF Real
<1>5. Real(particles)'
  BY <1>2 DEF Real, DistinctIds, OnlyStartLocked
<1>. QED BY <1>3, <1>4, <1>5 DEF Inv, ReferencesExact, Phases

\* What prepareForceCalculation does to the particles.
LEMMA PrepareSame ==
    ASSUME Inv, PrepareForceCalculation
    PROVE  /\ Real(particles) /\ Real(particles')
           /\ (\A s \in Sides : boundary_types[s] # "OUTFLOW")
                => IdsOf(particles') = IdsOf(particles)
<1>. DEFINE fresh == ReferencesTo(particles, capacity)
            out == OutflowPre(particles, fresh)
            prepared == PeriodicPre(out, fresh)
<1>1. Real(particles) /\ particles \in Seq(Particle)
  BY DEF Inv, PrepareForceCalculation
<1>2. particles' = particles \/ particles' = prepared
  BY Zenon DEF PrepareForceCalculation
<1>3. /\ Real(out)
      /\ (\A s \in Sides : boundary_types[s] # "OUTFLOW") => out = particles
  BY <1>1, OutflowReal
<1>4. Real(prepared) /\ IdsOf(prepared) = IdsOf(out)
  <2>1. SameParticles(prepared, out)
    BY <1>1, <1>3, PeriodicSame
  <2>. HIDE DEF prepared, out
  <2>. QED BY <1>3, <2>1, SameIsReal
<1>. HIDE DEF prepared, out
<1>. QED BY <1>1, <1>2, <1>3, <1>4

LEMMA PrepareForceCalculationInv == Inv /\ PrepareForceCalculation => Inv'
<1>. SUFFICES ASSUME Inv, PrepareForceCalculation PROVE Inv'
  OBVIOUS
<1>1. Real(particles')
  BY PrepareSame
<1>2. Real(particles)' /\ particles' \in Seq(Particle)
  BY <1>1 DEF Real, DistinctIds, OnlyStartLocked
<1>3. capacity' = capacity /\ original' = original /\ pc = "moved"
  BY DEF PrepareForceCalculation
<1>4. \/ pc' \in {"thrown", "undefined"}
      \/ pc' = "prepared" /\ refs' = ReferencesTo(particles', capacity)
  BY Zenon DEF PrepareForceCalculation
<1>. QED BY <1>2, <1>3, <1>4 DEF Inv, ReferencesExact, Phases

\* The container while the forces are computed.
LEMMA ApplyGrows ==
    ASSUME Inv, ApplyBoundaryConditions
    PROVE  /\ Real(particles) /\ original' = Len(particles)
           /\ particles' \in Seq(Particle) /\ capacity' \in Nat
           /\ refs' = ReferencesTo(particles', capacity')
           /\ Extends(particles', particles)
           /\ Ghosted(particles', particles, AllGhosts(particles))
<1>1. /\ Real(particles) /\ particles \in Seq(Particle) /\ capacity \in Nat
      /\ refs = ReferencesTo(particles, capacity)
  BY DEF Inv, ReferencesExact, ApplyBoundaryConditions
<1>2. original' = Len(particles) /\ Becomes(WithGhosts(Container))
  BY DEF ApplyBoundaryConditions
<1>3. Container = Exact(particles, capacity)
  BY <1>1 DEF Container, Exact
<1>4. /\ WithGhosts(Container) \in Grown(particles)
      /\ Ghosted(WithGhosts(Container).particles, particles, AllGhosts(particles))
  BY <1>1, <1>3, WithGhostsGrows
<1>5. PICK qs \in Seq(Particle), cap \in Nat :
        Extends(qs, particles) /\ WithGhosts(Container) = Exact(qs, cap)
  BY <1>4, GrownFacts
<1>6. /\ particles' = qs /\ capacity' = cap /\ refs' = ReferencesTo(qs, cap)
      /\ WithGhosts(Container).particles = qs
  BY <1>2, <1>5 DEF Becomes, Exact
<1>. QED BY <1>1, <1>2, <1>4, <1>5, <1>6

\* The front of an extended vector is the vector.
LEMMA FrontOfExtended ==
    ASSUME NEW ps \in Seq(Particle), NEW qs \in Seq(Particle), Extends(qs, ps)
    PROVE  SubSeq(qs, 1, Len(ps)) = ps
<1>. DEFINE f == SubSeq(qs, 1, Len(ps))
<1>1. Len(qs) >= Len(ps) /\ \A i \in 1 .. Len(ps) : qs[i] = ps[i]
  BY DEF Extends
<1>2. f \in Seq(Particle) /\ Len(f) = Len(ps) /\ \A i \in 1 .. Len(ps) : f[i] = qs[i]
  BY <1>1
<1>. HIDE DEF f
<1>3. f = [i \in 1 .. Len(ps) |-> f[i]] /\ ps = [i \in 1 .. Len(ps) |-> ps[i]]
  BY <1>2, SeqIsFunction
<1>4. \A i \in 1 .. Len(ps) : f[i] = ps[i]
  BY <1>1, <1>2
<1>5. f = ps
  BY <1>3, <1>4, SameFunction
<1>. QED BY <1>5 DEF f

LEMMA ApplyBoundaryConditionsInv == Inv /\ ApplyBoundaryConditions => Inv'
<1>. SUFFICES ASSUME Inv, ApplyBoundaryConditions PROVE Inv'
  OBVIOUS
<1>1. /\ Real(particles) /\ original' = Len(particles)
      /\ particles' \in Seq(Particle) /\ capacity' \in Nat
      /\ refs' = ReferencesTo(particles', capacity')
      /\ Extends(particles', particles)
  BY ApplyGrows
<1>2. pc' = "forces" /\ particles \in Seq(Particle)
  BY <1>1 DEF ApplyBoundaryConditions, Real
<1>3. Kept' = particles
  BY <1>1, <1>2, FrontOfExtended DEF Kept
<1>4. original' \in Nat /\ original' <= Len(particles')
  BY <1>1, <1>2 DEF Extends
<1>5. Real(Kept)' /\ Extends(particles, Kept)'
  BY <1>1, <1>3 DEF Real, DistinctIds, OnlyStartLocked, Extends
<1>. QED BY <1>1, <1>2, <1>4, <1>5 DEF Inv, ReferencesExact, Phases

LEMMA RemoveGhostsInv == Inv /\ RemoveGhosts => Inv'
<1>. SUFFICES ASSUME Inv, RemoveGhosts PROVE Inv'
  OBVIOUS
<1>1. /\ pc' = "idle" /\ capacity' = capacity /\ original' = 0 /\ particles' = Kept
      /\ refs' = ReferencesTo(particles', capacity)
  BY DEF RemoveGhosts, Kept
<1>2. Real(Kept) /\ capacity \in Nat
  BY DEF Inv, RemoveGhosts
<1>3. Real(particles)' /\ particles' \in Seq(Particle)
  BY <1>1, <1>2 DEF Real, DistinctIds, OnlyStartLocked
<1>. QED BY <1>1, <1>2, <1>3 DEF Inv, ReferencesExact, Phases

LEMMA NextInv == Inv /\ [Next]_vars => Inv'
<1>. SUFFICES ASSUME Inv, [Next]_vars PROVE Inv'
  OBVIOUS
<1>1. CASE AddParticle BY <1>1, AddParticleInv
<1>2. CASE Reserve BY <1>2, ReserveInv
<1>3. CASE StartSimulation BY <1>3, StartSimulationInv
<1>4. CASE UpdatePositions BY <1>4, UpdatePositionsInv
<1>5. CASE PrepareForceCalculation BY <1>5, PrepareForceCalculationInv
<1>6. CASE ApplyBoundaryConditions BY <1>6, ApplyBoundaryConditionsInv
<1>7. CASE RemoveGhosts BY <1>7, RemoveGhostsInv
<1>8. CASE UNCHANGED vars
  BY <1>8 DEF Inv, vars, ReferencesExact, Real, DistinctIds, OnlyStartLocked, Kept, Extends
<1>. QED BY <1>1, <1>2, <1>3, <1>4, <1>5, <1>6, <1>7, <1>8 DEF Next, Stopped

LEMMA InvAlways == Spec => []Inv
  BY InitInv, NextInv, PTL DEF Spec

-----------------------------------------------------------------------------
(***************************************************************************)
(* Walls                                                                   *)
(***************************************************************************)

\* The cells a wall looks at hold the particles inside of the container that are
\* not farther away from it than a cell is wide.
LEMMA LayerIsBoundary ==
    ASSUME NEW p, p.x \in Positions, NEW s \in Sides
    PROVE  particlePosToCell(p.x) \in CellsAtWall(s) <=> ExitsOf(p) = {} /\ InLayer(p.x, s)
<1>. DEFINE a == s[1]
            c == Coordinates(p.x)
            x == p.x[a]
            Layer == IF s[2] = "low" THEN 0 ELSE N[a] - 1
<1>1. a \in Axes /\ (s = <<a, "low">> \/ s = <<a, "high">>)
  BY DEF Sides
<1>2. x \in Int /\ DomainSize[a] \in Nat \ {0} /\ N[a] \in Nat \ {0}
  BY <1>1, AxesAre, DomainSizeNat, LinkedCellsAssumption DEF LinkedCellsAssumption, Positions
<1>3. \A q \in Int : q <= c[a] <=> q * DomainSize[a] <= x * N[a]
  BY <1>1, CoordinatesFacts
<1>4. c[a] \in Int
  BY <1>1, CoordinatesFacts
<1>5. CellsAtWall(s) \subseteq Cells \ Halo
  BY DEF CellsAtWall, BoundaryOf, Boundary
<1>6. \A d : d \in CellsAtWall(s) <=> d \in Cells \ Halo /\ d[a] = Layer
  BY <1>1 DEF CellsAtWall, BoundaryOf, Boundary
<1>7. ASSUME particlePosToCell(p.x) \in Cells \ Halo
      PROVE  particlePosToCell(p.x) = c /\ (c[a] = Layer <=> InLayer(p.x, s))
  <2>1. particlePosToCell(p.x) = c
    BY <1>7, CellOfPosition, NoCellIsNone
  <2>2. c[a] >= 0 /\ c[a] < N[a]
    <3>1. ~(c[a] < 0) /\ ~(c[a] >= N[a])
      BY <1>1, <1>7, <2>1 DEF Halo
    <3>. QED BY <1>2, <1>4, <3>1
  <2>3. CASE s = <<a, "low">>
    <3>1. 1 <= c[a] <=> DomainSize[a] <= x * N[a]
      BY <1>2, <1>3
    <3>2. InLayer(p.x, s) <=> x * N[a] < DomainSize[a]
      BY <2>3 DEF InLayer
    <3>3. x * N[a] \in Int
      BY <1>2
    <3>4. Layer = 0
      BY <2>3
    <3>. QED BY <1>2, <1>4, <2>1, <2>2, <3>1, <3>2, <3>3, <3>4
  <2>4. CASE s = <<a, "high">>
    <3>1. N[a] - 1 <= c[a] <=> (N[a] - 1) * DomainSize[a] <= x * N[a]
      BY <1>2, <1>3
    <3>2. InLayer(p.x, s) <=> x * N[a] >= (N[a] - 1) * DomainSize[a]
      BY <2>4 DEF InLayer
    <3>3. x * N[a] \in Int /\ (N[a] - 1) * DomainSize[a] \in Int
      BY <1>2
    <3>4. Layer = N[a] - 1
      BY <2>4
    <3>. QED BY <1>2, <1>4, <2>1, <2>2, <3>1, <3>2, <3>3, <3>4
  <2>. QED BY <1>1, <2>3, <2>4
<1>. HIDE DEF Layer, c, a
<1>8. particlePosToCell(p.x) \in Cells \ Halo <=> ExitsOf(p) = {}
  BY InsideCells
<1>. QED BY <1>6, <1>7, <1>8

\* The pushes of the walls on exact references.
LEMMA PushesFacts ==
    ASSUME particles \in Seq(Particle), refs = ReferencesTo(particles, capacity)
    PROVE  /\ IsInjective(ReflectivePushes)
           /\ Range(ReflectivePushes) =
                {e \in [slot : 1 .. Len(particles), side : Sides] :
                   LET p == particles[e.slot] IN
                       /\ boundary_types[e.side] = "REFLECTIVE"
                       /\ ~p.locked /\ ExitsOf(p) = {}
                       /\ InLayer(p.x, e.side) /\ WallDistance(p.x, e.side) <= Reach}
<1>. DEFINE n == Len(particles)
            found == [s \in Sides |-> {i \in DOMAIN refs :
                LET p == particles[refs[i].slot] IN
                    refs[i].cell \in CellsAtWall(s) /\ ~p.locked /\ WallDistance(p.x, s) <= Reach}]
            V == VisitsAtSides("REFLECTIVE", refs, found)
<1>1. ReflectivePushes = V
  BY Zenon DEF ReflectivePushes
<1>2. /\ n \in Nat /\ DOMAIN refs = 1 .. n
      /\ \A i \in 1 .. n : refs[i].slot = i /\ refs[i].cell = particlePosToCell(particles[i].x)
  BY ReferenceFacts
<1>3. \A i \in 1 .. n : particles[i].x \in Positions
  <2>1. \A i \in 1 .. n : particles[i] \in Particle
    OBVIOUS
  <2>. QED BY <2>1 DEF Particle
<1>. HIDE DEF n
<1>4. \A s \in Sides : found[s] = {i \in 1 .. n :
        /\ particlePosToCell(particles[i].x) \in CellsAtWall(s)
        /\ ~particles[i].locked /\ WallDistance(particles[i].x, s) <= Reach}
  BY <1>2
<1>. HIDE DEF found
<1>5. \A s \in Sides : CellsAtWall(s) \subseteq Cells
  BY DEF CellsAtWall, BoundaryOf, Boundary
<1>6. \A s \in Sides : found[s] \in SUBSET (1 .. n)
  BY <1>4
<1>7. \A s \in Sides : \A i \in found[s] : refs[i].cell \in Cells /\ refs[i].slot = i
  BY <1>2, <1>4, <1>5
<1>8. ASSUME NEW bc
      PROVE  /\ VisitsAtSides(bc, refs, found) \in Seq(VisitsOf(n))
             /\ IsInjective(VisitsAtSides(bc, refs, found))
             /\ \A e : e \in Range(VisitsAtSides(bc, refs, found)) <=>
                         /\ e \in VisitsOf(n)
                         /\ boundary_types[e.side] = bc /\ e.slot \in found[e.side]
  BY ONLY <1>2, <1>6, <1>7, VisitsAtSidesFacts, Zenon
<1>9. \A s \in Sides : \A i \in 1 .. n :
        i \in found[s] <=>
          /\ ~particles[i].locked /\ ExitsOf(particles[i]) = {}
          /\ InLayer(particles[i].x, s) /\ WallDistance(particles[i].x, s) <= Reach
  BY <1>3, <1>4, LayerIsBoundary
<1>10. \A e \in VisitsOf(n) :
         e.slot \in found[e.side] <=>
           /\ ~particles[e.slot].locked /\ ExitsOf(particles[e.slot]) = {}
           /\ InLayer(particles[e.slot].x, e.side)
           /\ WallDistance(particles[e.slot].x, e.side) <= Reach
  BY <1>9 DEF VisitsOf
<1>11. VisitsOf(n) = [slot : 1 .. n, side : Sides]
  BY DEF VisitsOf
<1>12. /\ IsInjective(V)
       /\ \A e : e \in Range(V) <=>
                   /\ e \in VisitsOf(n)
                   /\ boundary_types[e.side] = "REFLECTIVE" /\ e.slot \in found[e.side]
  BY <1>8, Zenon
<1>. HIDE DEF V
<1>13. Range(V) = {e \in VisitsOf(n) :
                     /\ boundary_types[e.side] = "REFLECTIVE"
                     /\ ~particles[e.slot].locked /\ ExitsOf(particles[e.slot]) = {}
                     /\ InLayer(particles[e.slot].x, e.side)
                     /\ WallDistance(particles[e.slot].x, e.side) <= Reach}
  BY <1>10, <1>12
<1>. QED BY <1>1, <1>11, <1>12, <1>13 DEF n

-----------------------------------------------------------------------------
(***************************************************************************)
(* Theorems                                                                *)
(***************************************************************************)

\* Whenever forces may be computed or particles added, every cell references the
\* particles inside of it, each once, and no reference is dangling, however
\* often the vector of the particles is reallocated while ghosts are added.
THEOREM ReferencesStayExact == Spec => []ReferencesExact
<1>1. Inv => ReferencesExact
  BY DEF Inv
<1>. QED BY <1>1, InvAlways, PTL

\* As many ids as particles: each particle is there once.
LEMMA IdsCounted ==
    ASSUME NEW ps, Real(ps)
    PROVE  Cardinality(IdsOf(ps)) = Len(ps)
<1>. DEFINE n == Len(ps)
            f == [i \in 1 .. n |-> ps[i].id]
<1>1. n \in Nat /\ DOMAIN ps = 1 .. n
  BY DEF Real
<1>. HIDE DEF n
<1>2. IdsOf(ps) = {ps[i].id : i \in 1 .. n}
  BY <1>1 DEF IdsOf
<1>3. \A i, j \in 1 .. n : ps[i].id = ps[j].id => i = j
  BY <1>1 DEF Real, DistinctIds
<1>4. f \in Bijection(1 .. n, IdsOf(ps))
  <2>. DEFINE T == IdsOf(ps)
  <2>1. \A i \in 1 .. n : f[i] = ps[i].id /\ f[i] \in T
    BY <1>2
  <2>2. \A t \in T : \E i \in 1 .. n : f[i] = t
    BY <1>2
  <2>. HIDE DEF T
  <2>3. f \in [1 .. n -> T]
    BY <2>1
  <2>4. \A i, j \in DOMAIN f : f[i] = f[j] => i = j
    BY <1>3
  <2>. HIDE DEF f
  <2>. QED BY <2>2, <2>3, <2>4 DEF Bijection, Injection, Surjection, IsInjective, T
<1>5. ExistsBijection(1 .. n, IdsOf(ps))
  BY <1>4 DEF ExistsBijection
<1>6. Cardinality(IdsOf(ps)) = n
  BY <1>1, <1>5, FS_CountingElements
<1>. QED BY <1>6 DEF n

\* Between the force calculations no ghost is left: each particle is there once,
\* and exactly the particles the simulation was given as LOCKED are locked.
THEOREM NoGhostStays == Spec => []GhostsAreTemporary
<1>1. Inv => GhostsAreTemporary
  <2>1. SUFFICES ASSUME Inv, pc # "forces"
                 PROVE  /\ Cardinality(Ids) = Len(particles)
                        /\ \A i \in DOMAIN particles :
                             particles[i].locked <=> particles[i].id \in StartLocked
    BY DEF GhostsAreTemporary
  <2>2. Real(particles)
    BY <2>1 DEF Inv
  <2>3. Ids = IdsOf(particles)
    BY DEF Ids, IdsOf
  <2>4. Cardinality(Ids) = Len(particles)
    BY <2>2, <2>3, IdsCounted
  <2>. QED BY <2>2, <2>4 DEF Real, OnlyStartLocked
<1>. QED BY <1>1, InvAlways, PTL

LEMMA ExtensionSameIds ==
    ASSUME NEW ps \in Seq(Particle), NEW qs \in Seq(Particle), Extends(qs, ps)
    PROVE  IdsOf(qs) = IdsOf(ps)
<1>1. /\ DOMAIN ps = 1 .. Len(ps) /\ DOMAIN qs = 1 .. Len(qs)
      /\ Len(ps) \in Nat /\ Len(qs) \in Nat /\ Len(qs) >= Len(ps)
  BY DEF Extends
<1>2. \A i \in DOMAIN ps : i \in DOMAIN qs /\ qs[i].id = ps[i].id
  BY <1>1 DEF Extends
<1>3. \A i \in DOMAIN qs : \E j \in DOMAIN ps : qs[i].id = ps[j].id
  BY <1>1 DEF Extends
<1>4. \A k : k \in IdsOf(ps) <=> \E i \in DOMAIN ps : k = ps[i].id
  BY Zenon DEF IdsOf
<1>5. \A k : k \in IdsOf(qs) <=> \E i \in DOMAIN qs : k = qs[i].id
  BY Zenon DEF IdsOf
<1>6. ASSUME NEW k, k \in IdsOf(ps) PROVE k \in IdsOf(qs)
  <2>1. PICK i \in DOMAIN ps : k = ps[i].id
    BY <1>4, <1>6
  <2>. QED BY <1>2, <1>5, <2>1
<1>7. ASSUME NEW k, k \in IdsOf(qs) PROVE k \in IdsOf(ps)
  <2>1. PICK i \in DOMAIN qs : k = qs[i].id
    BY <1>5, <1>7
  <2>. QED BY <1>3, <1>4, <2>1
<1>. QED BY <1>6, <1>7

\* Without an OUTFLOW side no step after the setup loses a particle or gains
\* one: not the moves through PERIODIC sides, not a throw, not the erase of the
\* ghosts.
THEOREM ClosedDomainKeepsParticles == Spec => ClosedDomainConserves
<1>. DEFINE Closed == pc # "setup" /\ \A s \in Sides : boundary_types[s] # "OUTFLOW"
            Conserves == Closed => Ids' = Ids
<1>1. Ids = IdsOf(particles) /\ Ids' = IdsOf(particles')
  BY DEF Ids, IdsOf
<1>2. ASSUME Inv, Closed, UpdatePositions PROVE Ids' = Ids
  BY <1>1, <1>2, UpdatePositionsSame, SameIsReal
<1>3. ASSUME Inv, Closed, PrepareForceCalculation PROVE Ids' = Ids
  BY <1>1, <1>3, PrepareSame
<1>4. ASSUME Inv, Closed, ApplyBoundaryConditions PROVE Ids' = Ids
  <2>1. /\ particles \in Seq(Particle) /\ particles' \in Seq(Particle)
        /\ Extends(particles', particles)
    BY <1>4, ApplyGrows DEF Inv
  <2>. QED BY <1>1, <2>1, ExtensionSameIds
<1>5. ASSUME Inv, Closed, RemoveGhosts PROVE Ids' = Ids
  <2>1. /\ particles' = Kept /\ particles \in Seq(Particle) /\ Kept \in Seq(Particle)
        /\ Extends(particles, Kept)
    BY <1>5 DEF Inv, RemoveGhosts, Real, Kept
  <2>. QED BY <1>1, <2>1, ExtensionSameIds
<1>6. ASSUME Closed PROVE ~AddParticle /\ ~Reserve /\ ~StartSimulation
  BY <1>6 DEF AddParticle, Reserve, StartSimulation
<1>7. ASSUME UNCHANGED vars PROVE Ids' = Ids
  BY <1>7 DEF vars, Ids
<1>8. Inv /\ [Next]_vars => [Conserves]_vars
  <2>. SUFFICES ASSUME Inv, [Next]_vars, Closed PROVE Ids' = Ids
    OBVIOUS
  <2>. QED BY <1>2, <1>3, <1>4, <1>5, <1>6, <1>7 DEF Next, Stopped
<1>. QED BY <1>8, InvAlways, PTL DEF Spec, ClosedDomainConserves

\* What holds in the force loop is made by applyBoundaryConditions.
LEMMA WallsPushed == ASSUME Inv, ApplyBoundaryConditions PROVE WallsPushOnce'
<1>1. particles \in Seq(Particle) /\ refs = ReferencesTo(particles, capacity)
  BY DEF Inv, ReferencesExact, ApplyBoundaryConditions
<1>2. /\ original' = Len(particles) /\ Extends(particles', particles)
      /\ pushes' = ReflectivePushes /\ boundary_types' = boundary_types
  BY ApplyGrows DEF ApplyBoundaryConditions
<1>3. \A i \in 1 .. Len(particles) : particles'[i] = particles[i]
  BY <1>2 DEF Extends
<1>. DEFINE Pushed(ps, bt) == {e \in [slot : 1 .. Len(particles), side : Sides] :
                LET p == ps[e.slot] IN
                    /\ bt[e.side] = "REFLECTIVE"
                    /\ ~p.locked /\ ExitsOf(p) = {}
                    /\ InLayer(p.x, e.side) /\ WallDistance(p.x, e.side) <= Reach}
<1>4. IsInjective(pushes') /\ Range(pushes') = Pushed(particles, boundary_types)
  BY <1>1, <1>2, PushesFacts
<1>5. Pushed(particles', boundary_types') = Pushed(particles, boundary_types)
  BY <1>2, <1>3
<1>6. IsInjective(pushes') /\ Range(pushes') = Pushed(particles', boundary_types')
  BY <1>4, <1>5
<1>. QED BY <1>2, <1>6 DEF WallsPushOnce

\* A wall pushes every unlocked particle of the cells next to it that is within
\* its reach exactly once, in a corner from both walls, and no other particle: in
\* particular none that has left through it, and none in the next layer of cells,
\* however far the wall reaches.
THEOREM EveryWallPushesOnce == Spec => []WallsPushOnce
<1>1. Init => WallsPushOnce
  BY DEF Init, WallsPushOnce
<1>2. Inv /\ WallsPushOnce /\ [Next]_vars => WallsPushOnce'
  <2>. SUFFICES ASSUME Inv, WallsPushOnce, [Next]_vars PROVE WallsPushOnce'
    OBVIOUS
  <2>1. CASE ApplyBoundaryConditions
    BY <2>1, WallsPushed
  <2>2. CASE UNCHANGED vars
    BY <2>2 DEF vars, WallsPushOnce
  <2>3. CASE AddParticle \/ Reserve \/ StartSimulation \/ UpdatePositions
             \/ PrepareForceCalculation \/ RemoveGhosts
    <3>1. pc' # "forces"
      <4>1. pc' \in {"setup", "thrown", "moved", "undefined", "prepared", "idle"}
        BY <2>3, Zenon DEF AddParticle, Reserve, StartSimulation, UpdatePositions,
                           PrepareForceCalculation, RemoveGhosts
      <4>. QED BY <4>1
    <3>. QED BY <3>1 DEF WallsPushOnce
  <2>. QED BY <2>1, <2>2, <2>3 DEF Next, Stopped
<1>. QED BY <1>1, <1>2, InvAlways, PTL DEF Spec

-----------------------------------------------------------------------------
(***************************************************************************)
(* What prepareForceCalculation should leave behind                        *)
(***************************************************************************)

Stay(acc, p) == IF LeftThrough(p, "OUTFLOW") THEN acc ELSE Append(acc, p)

\* Who stays, as a fold.
StayingIter(list) ==
    CHOOSE iter : iter = [s \in SUBSET (DOMAIN list) |->
        IF s = {} THEN <<>> ELSE Stay(iter[s \ {Max(s)}], list[Max(s)])]

LEMMA StayingFold ==
    ASSUME NEW S, <<>> \in S, NEW ps, NEW list, NEW n \in Nat,
           list = ps, DOMAIN list = 1 .. n,
           \A m \in 1 .. n : \A x \in S : Stay(x, list[m]) \in S,
           NEW Good, <<>> \in Good[0],
           \A m \in 1 .. n : \A x \in S :
               x \in Good[m - 1] => Stay(x, list[m]) \in Good[m]
    PROVE  Staying(ps) \in S /\ Staying(ps) \in Good[n]
<1>. DEFINE F == [m \in 1 .. n |-> [x \in S |-> Stay(x, list[m])]]
            iter == StayingIter(list)
            Right == [m \in 0 .. n |-> S \cap Good[m]]
<1>1. F \in [1 .. n -> [S -> S]]
  OBVIOUS
<1>2. PICK g \in [SUBSET (1 .. n) -> S] : IsFold(g, n, <<>>, F)
  <2>. HIDE DEF F
  <2>. QED BY <1>1, FoldExists
<1>3. ASSUME NEW s \in SUBSET (1 .. n)
      PROVE  g[s] = IF s = {} THEN <<>> ELSE Stay(g[s \ {Max(s)}], list[Max(s)])
  <2>1. CASE s = {}
    BY <1>2, <2>1, Zenon DEF IsFold
  <2>2. CASE s # {}
    <3>1. Max(s) \in 1 .. n /\ s \ {Max(s)} \in SUBSET (1 .. n)
      BY <2>2, MaxIsGreatest
    <3>2. g[s] = F[Max(s)][g[s \ {Max(s)}]]
      BY <1>2, <2>2, Zenon DEF IsFold
    <3>3. g[s \ {Max(s)}] \in S
      BY <1>2, <3>1
    <3>. QED BY <2>2, <3>1, <3>2, <3>3, Zenon
  <2>. QED BY <2>1, <2>2
<1>4. g = [s \in SUBSET (DOMAIN list) |->
             IF s = {} THEN <<>> ELSE Stay(g[s \ {Max(s)}], list[Max(s)])]
  BY <1>2, <1>3, Zenon
<1>5. iter = [s \in SUBSET (DOMAIN list) |->
                IF s = {} THEN <<>> ELSE Stay(iter[s \ {Max(s)}], list[Max(s)])]
  BY <1>4, Zenon DEF StayingIter, Stay
<1>6. Staying(ps) = iter[1 .. n]
  BY Zenon DEF Staying, StayingIter, Stay, FoldLeft, MapThenFoldSet
<1>. HIDE DEF iter
<1>7. iter[{}] \in Right[0]
  <2>1. {} \in SUBSET (DOMAIN list) /\ 0 \in 0 .. n
    OBVIOUS
  <2>2. iter[{}] = <<>>
    BY <1>5, <2>1, Zenon
  <2>. QED BY <2>1, <2>2
<1>8. ASSUME NEW m \in 1 .. n, iter[1 .. (m - 1)] \in Right[m - 1]
      PROVE  iter[1 .. m] \in Right[m]
  <2>1. /\ 1 .. m \in SUBSET (1 .. n) /\ 1 .. m # {}
        /\ Max(1 .. m) = m /\ (1 .. m) \ {Max(1 .. m)} = 1 .. (m - 1)
    BY UpTo
  <2>2. iter[1 .. m] = Stay(iter[1 .. (m - 1)], list[m])
    BY <1>5, <2>1, Zenon
  <2>3. m - 1 \in 0 .. n /\ m \in 0 .. n
    OBVIOUS
  <2>4. iter[1 .. (m - 1)] \in S /\ iter[1 .. (m - 1)] \in Good[m - 1]
    BY <1>8, <2>3
  <2>5. iter[1 .. m] \in S /\ iter[1 .. m] \in Good[m]
    BY <2>2, <2>4
  <2>. QED BY <2>3, <2>5
<1>9. iter[1 .. n] \in Right[n]
  <2>. HIDE DEF Right
  <2>. QED BY <1>7, <1>8, FoldInduction
<1>10. n \in 0 .. n
  OBVIOUS
<1>. QED BY <1>6, <1>9, <1>10

\* The vector without the element at slot i, or all of it if i is behind its end.
LEMMA StayingFacts ==
    ASSUME NEW ps \in Seq(Particle), NEW i \in 1 .. Len(ps) + 1,
           \A k \in 1 .. Len(ps) : LeftThrough(ps[k], "OUTFLOW") <=> k = i
    PROVE  /\ Staying(ps) \in Seq(Particle)
           /\ Len(Staying(ps)) = IF i <= Len(ps) THEN Len(ps) - 1 ELSE Len(ps)
           /\ \A k \in 1 .. Len(Staying(ps)) :
                Staying(ps)[k] = ps[IF k < i THEN k ELSE k + 1]
<1>. DEFINE n == Len(ps)
            S == Seq(Particle)
            Right(x, m) == /\ Len(x) = IF i <= m THEN m - 1 ELSE m
                           /\ \A k \in 1 .. Len(x) : x[k] = ps[IF k < i THEN k ELSE k + 1]
            Good == [m \in 0 .. n |-> {x \in S : Right(x, m)}]
<1>1. n \in Nat /\ DOMAIN ps = 1 .. n /\ i \in 1 .. n + 1 /\ \A m \in 1 .. n : ps[m] \in Particle
  OBVIOUS
<1>. HIDE DEF n
<1>2. <<>> \in S /\ <<>> \in Good[0]
  <2>1. 0 \in 0 .. n /\ Right(<<>>, 0) /\ <<>> \in Seq(Particle)
    BY <1>1
  <2>. QED BY <2>1
<1>3. ASSUME NEW m \in 1 .. n, NEW x \in S
      PROVE  Stay(x, ps[m]) \in S /\ (Right(x, m - 1) => Right(Stay(x, ps[m]), m))
  <2>1. CASE m = i
    <3>1. Stay(x, ps[m]) = x
      BY <2>1 DEF Stay, n
    <3>. QED BY <1>1, <2>1, <3>1
  <2>2. CASE m # i
    <3>. DEFINE y == Append(x, ps[m])
    <3>1. Stay(x, ps[m]) = y
      BY <2>2 DEF Stay, n
    <3>2. /\ y \in Seq(Particle) /\ Len(y) = Len(x) + 1
          /\ \A k \in 1 .. Len(x) : y[k] = x[k]
          /\ y[Len(x) + 1] = ps[m]
      BY <1>1, AppendFacts
    <3>. HIDE DEF y
    <3>3. ASSUME Right(x, m - 1) PROVE Right(y, m)
      <4>1. Len(x) = (IF i <= m - 1 THEN m - 2 ELSE m - 1) /\ Len(x) \in Nat
        BY <1>1, <3>3
      <4>2. Len(y) = IF i <= m THEN m - 1 ELSE m
        BY <1>1, <2>2, <3>2, <4>1
      <4>3. ASSUME NEW k \in 1 .. Len(y)
            PROVE  y[k] = ps[IF k < i THEN k ELSE k + 1]
        <5>1. CASE k \in 1 .. Len(x)
          BY <3>2, <3>3, <5>1
        <5>2. CASE k = Len(x) + 1
          <6>1. (IF k < i THEN k ELSE k + 1) = m
            BY <1>1, <2>2, <4>1, <5>2
          <6>. QED BY <3>2, <5>2, <6>1
        <5>. QED BY <3>2, <4>1, <5>1, <5>2
      <4>. QED BY <4>2, <4>3
    <3>. HIDE DEF Right
    <3>. QED BY <3>1, <3>2, <3>3
  <2>. QED BY <2>1, <2>2
<1>4. \A m \in 1 .. n : \A x \in S : Stay(x, ps[m]) \in S
  BY <1>3
<1>5. \A m \in 1 .. n : \A x \in S : x \in Good[m - 1] => Stay(x, ps[m]) \in Good[m]
  <2>1. \A m \in 1 .. n : m - 1 \in 0 .. n /\ m \in 0 .. n
    BY <1>1
  <2>. HIDE DEF Right, S
  <2>. QED BY <1>3, <2>1
<1>6. Staying(ps) \in S /\ Staying(ps) \in Good[n]
  <2>. HIDE DEF S, Good
  <2>. QED BY <1>1, <1>2, <1>4, <1>5, StayingFold
<1>7. Staying(ps) \in S /\ Right(Staying(ps), n)
  <2>1. n \in 0 .. n
    BY <1>1
  <2>. HIDE DEF Right, S
  <2>. QED BY <1>6, <2>1
<1>. QED BY <1>1, <1>7 DEF n

\* The coordinates of a particle that is not behind the halo are those of a cell.
LEMMA InHaloOnAxis ==
    ASSUME NEW x \in Positions, NEW a \in Axes
    PROVE  Coordinates(x)[a] \in -1 .. N[a] <=>
             N[a] * x[a] \in -DomainSize[a] .. (N[a] + 1) * DomainSize[a] - 1
<1>. DEFINE c == Coordinates(x)[a]
            D == DomainSize[a]
            M == N[a]
            y == x[a] * N[a]
<1>1. c \in Int /\ \A q \in Int : q <= c <=> q * D <= y
  BY CoordinatesFacts
<1>2. x[a] \in Int /\ M \in Nat \ {0} /\ D \in Nat \ {0}
  BY AxesAre, DomainSizeNat DEF Positions
<1>3. y \in Int /\ M * x[a] = y /\ (M + 1) * D \in Int
  BY <1>2
<1>. HIDE DEF c, D, M, y
<1>4. -1 <= c <=> -D <= y
  <2>1. -1 <= c <=> (-1) * D <= y
    BY <1>1
  <2>. QED BY <1>2, <2>1
<1>5. M + 1 <= c <=> (M + 1) * D <= y
  <2>1. M + 1 \in Int
    BY <1>2
  <2>. QED BY <1>1, <2>1
<1>6. c \in -1 .. M <=> y \in -D .. (M + 1) * D - 1
  BY <1>1, <1>2, <1>3, <1>4, <1>5
<1>. QED BY <1>3, <1>6 DEF c, D, M, y

\* prepareForceCalculation throws on particles that have jumped over the halo.
LEMMA FitsIsNoneBehind ==
    ASSUME NEW ps \in Seq(Particle)
    PROVE  Fits(ps) <=> NoneBehindHalo(ps)
<1>1. \A i \in DOMAIN ps : ps[i].x \in Positions
  <2>1. \A i \in DOMAIN ps : ps[i] \in Particle
    OBVIOUS
  <2>. QED BY <2>1 DEF Particle
<1>2. ASSUME NEW i \in DOMAIN ps
      PROVE  particlePosToCell(ps[i].x) # NoCell <=>
               \A a \in Axes :
                 N[a] * ps[i].x[a] \in -DomainSize[a] .. (N[a] + 1) * DomainSize[a] - 1
  <2>1. ps[i].x \in Positions
    BY <1>1
  <2>2. particlePosToCell(ps[i].x) # NoCell <=>
          \A a \in Axes : Coordinates(ps[i].x)[a] \in -1 .. N[a]
    BY <2>1, CellOfPosition, NoCellIsNone
  <2>. QED BY <2>1, <2>2, InHaloOnAxis
<1>. QED BY <1>2 DEF Fits, NoneBehindHalo

\* A particle is in the halo at the sides it has left through.
LEMMA ExitCells ==
    ASSUME NEW p, p.x \in Positions, particlePosToCell(p.x) # NoCell, NEW s \in Sides
    PROVE  particlePosToCell(p.x) \in HaloOf(s) <=> s \in ExitsOf(p)
<1>. DEFINE c == Coordinates(p.x)
            a == s[1]
<1>1. /\ \A b \in Axes : c[b] \in -1 .. N[b]
      /\ particlePosToCell(p.x) = c /\ c \in Cells
  BY CellOfPosition
<1>2. a \in Axes /\ (s = <<a, "low">> \/ s = <<a, "high">>)
  BY DEF Sides
<1>3. /\ c[a] >= 0 <=> p.x[a] >= 0
      /\ c[a] >= N[a] <=> p.x[a] >= DomainSize[a]
  BY <1>2, InsideOnAxis
<1>4. /\ c[a] \in Int /\ N[a] \in Nat \ {0} /\ -1 <= c[a] /\ c[a] <= N[a]
      /\ p.x[a] \in Int /\ DomainSize[a] \in Nat
  BY <1>1, <1>2, AxesAre, DomainSizeNat DEF Positions
<1>. HIDE DEF c
<1>5. CASE s = <<a, "low">>
  <2>1. s[2] = "low"
    BY <1>5
  <2>2. c \in HaloOf(s) <=> c[a] = -1
    BY <1>1, <1>2, <1>4, <2>1 DEF HaloOf, Halo
  <2>3. s \in ExitsOf(p) <=> p.x[a] < 0
    BY <2>1 DEF ExitsOf
  <2>. QED BY <1>1, <1>3, <1>4, <2>2, <2>3
<1>6. CASE s = <<a, "high">>
  <2>1. s[2] = "high"
    BY <1>6
  <2>2. c \in HaloOf(s) <=> c[a] = N[a]
    BY <1>1, <1>2, <1>4, <2>1 DEF HaloOf, Halo
  <2>3. s \in ExitsOf(p) <=> p.x[a] >= DomainSize[a]
    BY <2>1 DEF ExitsOf
  <2>. QED BY <1>1, <1>3, <1>4, <2>2, <2>3
<1>. QED BY <1>2, <1>5, <1>6

\* The crossings of sides with condition bc, one by one.
CrossingsOf(ps, bc) ==
    {e \in (DOMAIN ps) \X Sides : e[2] \in ExitsOf(ps[e[1]]) /\ boundary_types[e[2]] = bc}

\* The particle at slot i has left through s, which has condition bc, and no
\* particle through another side with that condition.
OnlyCrossing(ps, bc, i, s) ==
    \A j \in 1 .. Len(ps), t \in Sides :
        t \in ExitsOf(ps[j]) /\ boundary_types[t] = bc <=> j = i /\ t = s

LEMMA CrossingsFacts ==
    ASSUME NEW ps \in Seq(Particle), NEW bc
    PROVE  /\ Crossings(ps, bc) = 0 =>
                \A i \in 1 .. Len(ps) : ~LeftThrough(ps[i], bc)
           /\ Crossings(ps, bc) = 1 =>
                \E i \in 1 .. Len(ps), s \in Sides : OnlyCrossing(ps, bc, i, s)
<1>. DEFINE C == CrossingsOf(ps, bc)
<1>1. Crossings(ps, bc) = Cardinality(C)
  BY Zenon DEF Crossings, CrossingsOf
<1>2. IsFiniteSet(C)
  <2>1. IsFiniteSet(DOMAIN ps)
    <3>1. DOMAIN ps = 1 .. Len(ps) /\ Len(ps) \in Nat
      OBVIOUS
    <3>. QED BY <3>1, FS_Interval
  <2>2. IsFiniteSet(Sides)
    <3>1. IsFiniteSet(Axes)
      <4>1. PICK one \in Int, three \in Int : one = 1 /\ three = 3
        OBVIOUS
      <4>2. IsFiniteSet(one .. three)
        BY FS_Interval
      <4>. QED BY <4>1, <4>2 DEF Axes
    <3>2. IsFiniteSet({"low", "high"})
      <4>1. IsFiniteSet({"low"})
        BY FS_Singleton
      <4>2. IsFiniteSet({"low"} \cup {"high"})
        BY <4>1, FS_AddElement
      <4>3. {"low"} \cup {"high"} = {"low", "high"}
        OBVIOUS
      <4>. QED BY <4>2, <4>3
    <3>. QED BY <3>1, <3>2, FS_Product DEF Sides
  <2>3. IsFiniteSet((DOMAIN ps) \X Sides)
    BY <2>1, <2>2, FS_Product
  <2>4. C \subseteq (DOMAIN ps) \X Sides
    BY DEF CrossingsOf
  <2>. QED BY <2>3, <2>4, FS_Subset
<1>3. \A j \in 1 .. Len(ps), t \in Sides :
        t \in ExitsOf(ps[j]) /\ boundary_types[t] = bc <=> <<j, t>> \in C
  BY DEF CrossingsOf
<1>4. ASSUME Crossings(ps, bc) = 0, NEW i \in 1 .. Len(ps)
      PROVE  ~LeftThrough(ps[i], bc)
  <2>1. C = {}
    BY <1>1, <1>2, <1>4, FS_EmptySet
  <2>2. \A t \in Sides : ~(t \in ExitsOf(ps[i]) /\ boundary_types[t] = bc)
    BY <1>3, <2>1
  <2>. QED BY <2>2 DEF LeftThrough, ExitsOf
<1>5. ASSUME Crossings(ps, bc) = 1
      PROVE  \E i \in 1 .. Len(ps), s \in Sides : OnlyCrossing(ps, bc, i, s)
  <2>1. PICK e : C = {e}
    BY <1>1, <1>2, <1>5, FS_Singleton
  <2>2. e \in (DOMAIN ps) \X Sides
    BY <2>1 DEF CrossingsOf
  <2>3. PICK i \in 1 .. Len(ps), s \in Sides : e = <<i, s>>
    BY <2>2
  <2>. HIDE DEF C
  <2>4. \A j \in 1 .. Len(ps), t \in Sides : <<j, t>> \in C <=> j = i /\ t = s
    BY <2>1, <2>3
  <2>5. \A j \in 1 .. Len(ps), t \in Sides :
          t \in ExitsOf(ps[j]) /\ boundary_types[t] = bc <=> j = i /\ t = s
    BY <1>3, <2>4
  <2>. QED BY <2>5, Zenon DEF OnlyCrossing
<1>. QED BY <1>4, <1>5

\* The visits of the particles that have left through sides with condition bc.
LEMMA EscapedExits ==
    ASSUME NEW ps \in Seq(Particle), Fits(ps), NEW cap, NEW bc
    PROVE  LET V == Escaped(ReferencesTo(ps, cap), bc) IN
           /\ V \in Seq(VisitsOf(Len(ps))) /\ IsInjective(V)
           /\ \A e : e \in Range(V) <=>
                       /\ e \in VisitsOf(Len(ps)) /\ boundary_types[e.side] = bc
                       /\ e.side \in ExitsOf(ps[e.slot])
<1>. DEFINE V == Escaped(ReferencesTo(ps, cap), bc)
<1>1. /\ V \in Seq(VisitsOf(Len(ps))) /\ IsInjective(V)
      /\ \A e : e \in Range(V) <=>
                  /\ e \in VisitsOf(Len(ps)) /\ boundary_types[e.side] = bc
                  /\ particlePosToCell(ps[e.slot].x) \in HaloOf(e.side)
  BY EscapedFacts
<1>2. \A i \in 1 .. Len(ps) : ps[i].x \in Positions /\ particlePosToCell(ps[i].x) # NoCell
  <2>1. \A i \in 1 .. Len(ps) : ps[i] \in Particle
    OBVIOUS
  <2>. QED BY <2>1 DEF Particle, Fits
<1>. HIDE DEF V
<1>3. \A e \in VisitsOf(Len(ps)) :
        particlePosToCell(ps[e.slot].x) \in HaloOf(e.side) <=> e.side \in ExitsOf(ps[e.slot])
  BY <1>2, ExitCells DEF VisitsOf
<1>. QED BY <1>1, <1>3 DEF V

\* How far a particle at slot i has been moved on axis a after the visits in seen.
Moved(seen, i, a) ==
    IF [side |-> <<a, "low">>, slot |-> i] \in seen THEN DomainSize[a]
    ELSE IF [side |-> <<a, "high">>, slot |-> i] \in seen THEN -DomainSize[a]
    ELSE 0

\* No particle has left through both sides of an axis.
LEMMA ExitsExclude ==
    ASSUME NEW p, p.x \in Positions, NEW a \in Axes, <<a, "low">> \in ExitsOf(p)
    PROVE  <<a, "high">> \notin ExitsOf(p)
<1>1. p.x[a] \in Int /\ DomainSize[a] \in Nat
  BY DomainSizeNat DEF Positions
<1>2. p.x[a] < 0
  BY DEF ExitsOf
<1>3. ~(p.x[a] >= DomainSize[a])
  BY <1>1, <1>2
<1>. QED BY <1>3 DEF ExitsOf

\* One more visit moves its particle through the domain, on one axis.
LEMMA MovedByVisit ==
    ASSUME NEW n \in Nat, NEW seen, NEW e \in VisitsOf(n), e \notin seen,
           \A i \in 1 .. n, a \in Axes :
             ~(/\ [side |-> <<a, "low">>, slot |-> i] \in seen \cup {e}
               /\ [side |-> <<a, "high">>, slot |-> i] \in seen \cup {e}),
           NEW i \in 1 .. n, NEW a \in Axes
    PROVE  Moved(seen \cup {e}, i, a) =
             Moved(seen, i, a) + (IF e.slot = i THEN Teleport(e.side)[a] ELSE 0)
<1>. DEFINE low == [side |-> <<a, "low">>, slot |-> i]
            high == [side |-> <<a, "high">>, slot |-> i]
            s == e.side
<1>1. /\ s \in Sides /\ e.slot \in 1 .. n /\ e = [side |-> s, slot |-> e.slot]
      /\ DomainSize[a] \in Nat
  BY DomainSizeNat DEF VisitsOf
<1>2. s[1] \in Axes /\ (s = <<s[1], "low">> \/ s = <<s[1], "high">>)
  BY <1>1 DEF Sides
<1>3. CASE e = low
  <2>1. e.slot = i /\ s[1] = a /\ s[2] = "low"
    BY <1>3
  <2>2. low \notin seen /\ high \notin seen
    BY <1>3
  <2>3. Teleport(s)[a] = DomainSize[a]
    BY <2>1 DEF Teleport
  <2>. QED BY <1>1, <1>3, <2>1, <2>2, <2>3 DEF Moved
<1>4. CASE e = high
  <2>1. e.slot = i /\ s[1] = a /\ s[2] = "high"
    BY <1>4
  <2>2. low \notin seen /\ high \notin seen /\ low # e
    BY <1>4
  <2>3. Teleport(s)[a] = -DomainSize[a]
    BY <2>1 DEF Teleport
  <2>. QED BY <1>1, <1>4, <2>1, <2>2, <2>3 DEF Moved
<1>5. CASE e # low /\ e # high
  <2>1. Moved(seen \cup {e}, i, a) = Moved(seen, i, a)
    BY <1>5 DEF Moved
  <2>2. Moved(seen, i, a) \in Int
    BY <1>1 DEF Moved
  <2>3. e.slot = i => s[1] # a
    BY <1>1, <1>2, <1>5
  <2>4. e.slot = i => Teleport(s)[a] = 0
    BY <2>3 DEF Teleport
  <2>. QED BY <2>1, <2>2, <2>4
<1>. QED BY <1>3, <1>4, <1>5

\* The particle p of slot i after the visits in seen.
MovedTo(p, seen, i) == [p EXCEPT !.x = [a \in Axes |-> p.x[a] + Moved(seen, i, a)]]

\* The particles of ps after the visits in seen.
AllMoved(qs, ps, seen) ==
    /\ qs \in Seq(Particle) /\ Len(qs) = Len(ps)
    /\ \A i \in 1 .. Len(ps) : qs[i] = MovedTo(ps[i], seen, i)

LEMMA MoveOnce ==
    ASSUME NEW ps \in Seq(Particle), NEW seen, NEW e \in VisitsOf(Len(ps)), e \notin seen,
           \A i \in 1 .. Len(ps), a \in Axes :
             ~(/\ [side |-> <<a, "low">>, slot |-> i] \in seen \cup {e}
               /\ [side |-> <<a, "high">>, slot |-> i] \in seen \cup {e}),
           NEW qs, AllMoved(qs, ps, seen)
    PROVE  AllMoved(MoveSlot(qs, e.slot, Teleport(e.side)), ps, seen \cup {e})
<1>. DEFINE n == Len(ps)
            j == e.slot
            t == Teleport(e.side)
            p == [qs[j] EXCEPT !.x = Shifted(@, t)]
            ms == [qs EXCEPT ![j] = p]
            more == seen \cup {e}
<1>1. n \in Nat /\ j \in 1 .. n /\ e.side \in Sides /\ t \in Positions
  BY TeleportType DEF VisitsOf
<1>2. /\ qs \in Seq(Particle) /\ Len(qs) = n
      /\ \A i \in 1 .. n : qs[i] = MovedTo(ps[i], seen, i)
      /\ \A i \in 1 .. n : ps[i] \in Particle /\ ps[i].x \in Positions
  <2>1. \A i \in 1 .. n : ps[i] \in Particle
    OBVIOUS
  <2>. QED BY <2>1 DEF AllMoved, Particle
<1>3. MoveSlot(qs, j, t) = ms
  BY <1>1, <1>2 DEF MoveSlot
<1>4. \A i \in 1 .. n, a \in Axes :
        Moved(more, i, a) = Moved(seen, i, a) + (IF j = i THEN t[a] ELSE 0)
  BY <1>1, MovedByVisit
<1>5. \A i \in 1 .. n, a \in Axes : Moved(seen, i, a) \in Int
  <2>1. ASSUME NEW i \in 1 .. n, NEW a \in Axes PROVE Moved(seen, i, a) \in Int
    <3>1. DomainSize[a] \in Int /\ -DomainSize[a] \in Int
      BY DomainSizeNat
    <3>. QED BY <3>1 DEF Moved
  <2>. QED BY <2>1
<1>6. \A i \in 1 .. n, a \in Axes : ps[i].x[a] \in Int /\ t[a] \in Int
  BY <1>1, <1>2 DEF Positions
<1>7. p \in Particle
  <2>1. qs[j] \in Particle
    BY <1>1, <1>2
  <2>2. Shifted(qs[j].x, t) \in Positions
    BY <1>1, <2>1, ShiftedType DEF Particle
  <2>. QED BY <2>1, <2>2 DEF Particle
<1>. HIDE DEF p, n, t
<1>8. ms \in Seq(Particle) /\ Len(ms) = n /\ \A i \in 1 .. n : ms[i] = IF i = j THEN p ELSE qs[i]
  BY <1>1, <1>2, <1>7
<1>9. ASSUME NEW i \in 1 .. n
      PROVE  ms[i] = MovedTo(ps[i], more, i)
  <2>. DEFINE y == [a \in Axes |-> ps[i].x[a] + Moved(seen, i, a)]
              z == [a \in Axes |-> ps[i].x[a] + Moved(more, i, a)]
  <2>1. qs[i] = [ps[i] EXCEPT !.x = y] /\ qs[i].x = y
    BY <1>2 DEF MovedTo, Particle
  <2>2. CASE i = j
    <3>1. ASSUME NEW a \in Axes PROVE y[a] + t[a] = z[a]
      <4>1. y[a] = ps[i].x[a] + Moved(seen, i, a) /\ z[a] = ps[i].x[a] + Moved(more, i, a)
        OBVIOUS
      <4>2. Moved(more, i, a) = Moved(seen, i, a) + t[a]
        BY <1>4, <2>2
      <4>3. ps[i].x[a] \in Int /\ Moved(seen, i, a) \in Int /\ t[a] \in Int
        BY <1>5, <1>6
      <4>. QED BY <4>1, <4>2, <4>3
    <3>2. Shifted(y, t) = z
      BY <3>1 DEF Shifted
    <3>3. p = [qs[i] EXCEPT !.x = Shifted(qs[i].x, t)]
      BY <2>2 DEF p
    <3>4. p = [qs[i] EXCEPT !.x = z]
      BY <2>1, <3>2, <3>3
    <3>. HIDE DEF y, z
    <3>5. p = [ps[i] EXCEPT !.x = z]
      BY <2>1, <3>4, <1>2 DEF Particle
    <3>. QED BY <1>8, <2>2, <3>5 DEF MovedTo, z
  <2>3. CASE i # j
    <3>1. ASSUME NEW a \in Axes PROVE y[a] = z[a]
      <4>1. y[a] = ps[i].x[a] + Moved(seen, i, a) /\ z[a] = ps[i].x[a] + Moved(more, i, a)
        OBVIOUS
      <4>2. Moved(more, i, a) = Moved(seen, i, a) + 0
        BY <1>4, <2>3
      <4>3. Moved(seen, i, a) \in Int
        BY <1>5
      <4>. QED BY <4>1, <4>2, <4>3
    <3>2. y = z
      BY <3>1
    <3>. HIDE DEF y, z
    <3>3. ms[i] = [ps[i] EXCEPT !.x = z]
      BY <1>8, <2>1, <2>3, <3>2
    <3>. QED BY <3>3 DEF MovedTo, z
  <2>. QED BY <2>2, <2>3
<1>. HIDE DEF ms
<1>10. AllMoved(ms, ps, more)
  BY <1>8, <1>9 DEF AllMoved, n
<1>. QED BY <1>3, <1>10 DEF t

\* When all particles have been visited, each is at the opposite side of the
\* container on every axis it has left through a PERIODIC side of.
LEMMA PeriodicMoves ==
    ASSUME NEW ps \in Seq(Particle), Fits(ps), NEW cap
    PROVE  LET qs == PeriodicPre(ps, ReferencesTo(ps, cap)) IN
           /\ qs \in Seq(Particle) /\ Len(qs) = Len(ps)
           /\ \A i \in 1 .. Len(ps) : qs[i] = [ps[i] EXCEPT !.x = Opposite(ps[i])]
<1>. DEFINE rs == ReferencesTo(ps, cap)
            V == Escaped(rs, "PERIODIC")
            n == Len(V)
            Seen == [m \in 0 .. n |-> {V[k] : k \in 1 .. m}]
            S == {qs \in Seq(Particle) : Len(qs) = Len(ps)}
            Good == [m \in 0 .. n |-> {qs \in S : AllMoved(qs, ps, Seen[m])}]
            Step(x, m) == MoveSlot(x, V[m].slot, Teleport(V[m].side))
<1>1. /\ V \in Seq(VisitsOf(Len(ps))) /\ IsInjective(V)
      /\ \A e : e \in Range(V) <=>
                  /\ e \in VisitsOf(Len(ps)) /\ boundary_types[e.side] = "PERIODIC"
                  /\ e.side \in ExitsOf(ps[e.slot])
  BY EscapedExits
<1>2. \A i \in 1 .. Len(ps) : ps[i] \in Particle /\ ps[i].x \in Positions
  <2>1. \A i \in 1 .. Len(ps) : ps[i] \in Particle
    OBVIOUS
  <2>. QED BY <2>1 DEF Particle
<1>3. V = Escaped(rs, "PERIODIC")
  OBVIOUS
<1>. HIDE DEF V, rs
<1>4. n \in Nat /\ DOMAIN V = 1 .. n /\ \A m \in 1 .. n : V[m] \in VisitsOf(Len(ps))
  BY <1>1
<1>. HIDE DEF n
<1>5. /\ \A k, m \in 1 .. n : V[k] = V[m] => k = m
      /\ Range(V) = {V[k] : k \in 1 .. n}
  BY <1>1, <1>4 DEF IsInjective, Range
<1>6. Seen[0] = {} /\ Seen[n] = Range(V)
  BY <1>4, <1>5
<1>7. ASSUME NEW m \in 1 .. n
      PROVE  /\ Seen[m] = Seen[m - 1] \cup {V[m]} /\ V[m] \notin Seen[m - 1]
             /\ Seen[m] \subseteq Range(V)
  <2>1. /\ m \in 0 .. n /\ m - 1 \in 0 .. n /\ 1 .. m = (1 .. (m - 1)) \cup {m}
        /\ m \notin 1 .. (m - 1) /\ 1 .. m \subseteq 1 .. n /\ 1 .. (m - 1) \subseteq 1 .. n
    BY <1>4
  <2>2. Seen[m] = {V[k] : k \in 1 .. m} /\ Seen[m - 1] = {V[k] : k \in 1 .. (m - 1)}
    BY <2>1
  <2>. HIDE DEF Seen
  <2>. QED BY <1>5, <2>1, <2>2
<1>8. ASSUME NEW i \in 1 .. Len(ps), NEW a \in Axes
      PROVE  /\ ~(/\ [side |-> <<a, "low">>, slot |-> i] \in Range(V)
                  /\ [side |-> <<a, "high">>, slot |-> i] \in Range(V))
             /\ Moved(Range(V), i, a) = Opposite(ps[i])[a] - ps[i].x[a]
             /\ Opposite(ps[i])[a] \in Int /\ ps[i].x[a] \in Int
  <2>. DEFINE low == [side |-> <<a, "low">>, slot |-> i]
              high == [side |-> <<a, "high">>, slot |-> i]
              Crossed(w) == <<a, w>> \in ExitsOf(ps[i]) /\ boundary_types[<<a, w>>] = "PERIODIC"
  <2>1. low \in VisitsOf(Len(ps)) /\ high \in VisitsOf(Len(ps))
    BY DEF VisitsOf, Sides
  <2>2. low \in Range(V) <=> Crossed("low")
    BY <1>1, <2>1
  <2>3. high \in Range(V) <=> Crossed("high")
    BY <1>1, <2>1, SMTT(30)
  <2>4. ~(Crossed("low") /\ Crossed("high"))
    BY <1>2, ExitsExclude
  <2>5. Opposite(ps[i])[a] = CASE Crossed("low") -> ps[i].x[a] + DomainSize[a]
                               [] Crossed("high") -> ps[i].x[a] - DomainSize[a]
                               [] OTHER -> ps[i].x[a]
    BY DEF Opposite
  <2>6. ps[i].x[a] \in Int /\ DomainSize[a] \in Nat
    BY <1>2, DomainSizeNat DEF Positions
  <2>7. Moved(Range(V), i, a) = IF low \in Range(V) THEN DomainSize[a]
                                ELSE IF high \in Range(V) THEN -DomainSize[a] ELSE 0
    BY DEF Moved
  <2>. HIDE DEF low, high, Crossed
  <2>8. CASE Crossed("low")
    BY <2>2, <2>3, <2>4, <2>5, <2>6, <2>7, <2>8 DEF low, high
  <2>9. CASE Crossed("high")
    BY <2>2, <2>3, <2>4, <2>5, <2>6, <2>7, <2>9 DEF low, high
  <2>10. CASE ~Crossed("low") /\ ~Crossed("high")
    BY <2>2, <2>3, <2>4, <2>5, <2>6, <2>7, <2>10 DEF low, high
  <2>. QED BY <2>8, <2>9, <2>10
<1>. HIDE DEF Seen
<1>9. AllMoved(ps, ps, {})
  <2>1. ASSUME NEW i \in 1 .. Len(ps) PROVE ps[i] = MovedTo(ps[i], {}, i)
    <3>. DEFINE y == [a \in Axes |-> ps[i].x[a] + Moved({}, i, a)]
    <3>1. ASSUME NEW a \in Axes PROVE y[a] = ps[i].x[a]
      <4>1. ps[i].x[a] \in Int /\ Moved({}, i, a) = 0
        BY <1>8 DEF Moved
      <4>. QED BY <4>1
    <3>2. ps[i].x = [a \in Axes |-> ps[i].x[a]]
      BY <1>2 DEF Positions
    <3>3. y = ps[i].x
      BY <3>1, <3>2
    <3>. HIDE DEF y
    <3>4. ps[i] = [ps[i] EXCEPT !.x = y]
      BY <1>2, <3>3 DEF Particle
    <3>. QED BY <3>4 DEF MovedTo, y
  <2>. QED BY <2>1 DEF AllMoved
<1>10. ps \in S /\ ps \in Good[0]
  <2>1. 0 \in 0 .. n /\ ps \in S
    BY <1>4
  <2>. HIDE DEF S
  <2>. QED BY <1>6, <1>9, <2>1
<1>11. ASSUME NEW m \in 1 .. n, NEW x \in S
       PROVE  /\ Step(x, m) \in S
              /\ AllMoved(x, ps, Seen[m - 1]) => AllMoved(Step(x, m), ps, Seen[m])
  <2>1. V[m] \in VisitsOf(Len(ps)) /\ V[m].slot \in Nat \ {0} /\ V[m].side \in Sides
    BY <1>4 DEF VisitsOf
  <2>2. Step(x, m) \in S
    <3>1. Teleport(V[m].side) \in Positions
      BY <2>1, TeleportType
    <3>2. x \in Seq(Particle) /\ SameParticles(x, x)
      BY DEF SameParticles
    <3>3. SameParticles(Step(x, m), x)
      BY <2>1, <3>1, <3>2, MoveSame
    <3>. QED BY <3>3 DEF SameParticles
  <2>3. ASSUME AllMoved(x, ps, Seen[m - 1]) PROVE AllMoved(Step(x, m), ps, Seen[m])
    <3>1. /\ V[m] \notin Seen[m - 1] /\ Seen[m] = Seen[m - 1] \cup {V[m]}
          /\ Seen[m] \subseteq Range(V)
      BY <1>7
    <3>2. \A i \in 1 .. Len(ps), a \in Axes :
            ~(/\ [side |-> <<a, "low">>, slot |-> i] \in Seen[m - 1] \cup {V[m]}
              /\ [side |-> <<a, "high">>, slot |-> i] \in Seen[m - 1] \cup {V[m]})
      BY <1>8, <3>1
    <3>3. AllMoved(MoveSlot(x, V[m].slot, Teleport(V[m].side)), ps, Seen[m - 1] \cup {V[m]})
      BY <2>1, <2>3, <3>1, <3>2, MoveOnce
    <3>. QED BY <3>1, <3>3
  <2>. QED BY <2>2, <2>3
<1>12. \A m \in 1 .. n : \A x \in S : Step(x, m) \in S
  BY <1>11
<1>13. \A m \in 1 .. n : \A x \in S : x \in Good[m - 1] => Step(x, m) \in Good[m]
  <2>1. \A m \in 1 .. n : m - 1 \in 0 .. n /\ m \in 0 .. n
    BY <1>4
  <2>. HIDE DEF S, Step
  <2>. QED BY <1>11, <2>1
<1>14. PeriodicPre(ps, rs) \in S /\ PeriodicPre(ps, rs) \in Good[n]
  <2>. HIDE DEF S, Good
  <2>. QED BY <1>3, <1>4, <1>10, <1>12, <1>13, PeriodicPreFold
<1>15. AllMoved(PeriodicPre(ps, rs), ps, Range(V))
  <2>1. n \in 0 .. n
    BY <1>4
  <2>. HIDE DEF S
  <2>. QED BY <1>6, <1>14, <2>1
<1>16. ASSUME NEW i \in 1 .. Len(ps)
       PROVE  MovedTo(ps[i], Range(V), i) = [ps[i] EXCEPT !.x = Opposite(ps[i])]
  <2>. DEFINE y == [a \in Axes |-> ps[i].x[a] + Moved(Range(V), i, a)]
  <2>1. ASSUME NEW a \in Axes PROVE y[a] = Opposite(ps[i])[a]
    <3>1. y[a] = ps[i].x[a] + Moved(Range(V), i, a)
      OBVIOUS
    <3>. HIDE DEF y
    <3>2. /\ Moved(Range(V), i, a) = Opposite(ps[i])[a] - ps[i].x[a]
          /\ Opposite(ps[i])[a] \in Int /\ ps[i].x[a] \in Int
      BY <1>8
    <3>. QED BY <3>1, <3>2
  <2>2. Opposite(ps[i]) = [a \in Axes |-> Opposite(ps[i])[a]]
    BY DEF Opposite
  <2>3. y = Opposite(ps[i])
    BY <2>1, <2>2
  <2>. QED BY <2>3 DEF MovedTo
<1>. QED BY <1>15, <1>16 DEF AllMoved, rs

\* Nobody has left through a side with condition bc: there is no visit.
LEMMA NoVisits ==
    ASSUME NEW ps \in Seq(Particle), Fits(ps), NEW cap, NEW bc,
           \A i \in 1 .. Len(ps) : ~LeftThrough(ps[i], bc)
    PROVE  LET V == Escaped(ReferencesTo(ps, cap), bc) IN DOMAIN V = 1 .. 0 /\ Len(V) = 0
<1>. DEFINE V == Escaped(ReferencesTo(ps, cap), bc)
<1>1. /\ V \in Seq(VisitsOf(Len(ps)))
      /\ \A e : e \in Range(V) <=>
                  /\ e \in VisitsOf(Len(ps)) /\ boundary_types[e.side] = bc
                  /\ e.side \in ExitsOf(ps[e.slot])
  BY EscapedExits
<1>. HIDE DEF V
<1>2. \A e : e \notin Range(V)
  BY <1>1 DEF VisitsOf, LeftThrough
<1>3. DOMAIN V = {}
  <2>1. SUFFICES ASSUME NEW k \in DOMAIN V PROVE FALSE
    OBVIOUS
  <2>2. V[k] \in Range(V)
    BY DEF Range
  <2>. QED BY <1>2, <2>2
<1>4. Len(V) \in Nat /\ DOMAIN V = 1 .. Len(V)
  BY <1>1
<1>5. Len(V) = 0
  BY <1>3, <1>4
<1>. QED BY <1>4, <1>5 DEF V

\* One particle has left, through one side with condition bc: it is visited once.
LEMMA OneVisit ==
    ASSUME NEW ps \in Seq(Particle), Fits(ps), NEW cap, NEW bc,
           NEW i \in 1 .. Len(ps), NEW s \in Sides, OnlyCrossing(ps, bc, i, s)
    PROVE  LET V == Escaped(ReferencesTo(ps, cap), bc) IN
           DOMAIN V = 1 .. 1 /\ Len(V) = 1 /\ V[1].slot = i
<1>. DEFINE V == Escaped(ReferencesTo(ps, cap), bc)
            e == [side |-> s, slot |-> i]
<1>1. /\ V \in Seq(VisitsOf(Len(ps))) /\ IsInjective(V)
      /\ \A v : v \in Range(V) <=>
                  /\ v \in VisitsOf(Len(ps)) /\ boundary_types[v.side] = bc
                  /\ v.side \in ExitsOf(ps[v.slot])
  BY EscapedExits
<1>. HIDE DEF V
<1>2. \A v \in VisitsOf(Len(ps)) :
        boundary_types[v.side] = bc /\ v.side \in ExitsOf(ps[v.slot]) <=> v = e
  BY DEF VisitsOf, OnlyCrossing
<1>3. e \in VisitsOf(Len(ps))
  BY DEF VisitsOf
<1>4. \A v : v \in Range(V) <=> v = e
  BY <1>1, <1>2, <1>3
<1>5. Len(V) \in Nat /\ DOMAIN V = 1 .. Len(V)
  BY <1>1
<1>6. \A k \in DOMAIN V : V[k] = e
  BY <1>4 DEF Range
<1>7. \A k, l \in DOMAIN V : k = l
  BY <1>1, <1>6 DEF IsInjective
<1>8. PICK k \in DOMAIN V : V[k] = e
  BY <1>4 DEF Range
<1>9. Len(V) = 1
  <2>1. Len(V) >= 1
    BY <1>5, <1>8
  <2>2. Len(V) >= 2 => 1 \in DOMAIN V /\ 2 \in DOMAIN V
    BY <1>5
  <2>3. ~(Len(V) >= 2)
    BY <1>7, <2>2
  <2>. QED BY <1>5, <2>1, <2>3
<1>10. V[1] = e
  BY <1>5, <1>6, <1>9
<1>. QED BY <1>5, <1>9, <1>10 DEF V

LEMMA OutflowNone ==
    ASSUME NEW ps \in Seq(Particle), NEW rs, DOMAIN Escaped(rs, "OUTFLOW") = 1 .. 0
    PROVE  OutflowPre(ps, rs) = ps
<1>. DEFINE list == Escaped(rs, "OUTFLOW")
            S == Seq(Particle)
            Good == [m \in 0 .. 0 |-> {ps}]
<1>1. PICK n \in Nat : n = 0
  OBVIOUS
<1>2. DOMAIN list = 1 .. n /\ list = Escaped(rs, "OUTFLOW") /\ ps \in Good[0] /\ \A m \in 1 .. n : FALSE
  BY <1>1
<1>. HIDE DEF list, Good, S
<1>3. \A m \in 1 .. n : \A x \in S : Erase(x, list[m].slot) \in S
  BY <1>2
<1>4. \A m \in 1 .. n : \A x \in S : x \in Good[m - 1] => Erase(x, list[m].slot) \in Good[m]
  BY <1>2
<1>5. ps \in S
  BY DEF S
<1>6. OutflowPre(ps, rs) \in Good[n]
  BY <1>2, <1>3, <1>4, <1>5, OutflowPreFold
<1>. QED BY <1>1, <1>6 DEF Good

LEMMA PeriodicNone ==
    ASSUME NEW ps \in Seq(Particle), NEW rs, DOMAIN Escaped(rs, "PERIODIC") = 1 .. 0
    PROVE  PeriodicPre(ps, rs) = ps
<1>. DEFINE list == Escaped(rs, "PERIODIC")
            S == Seq(Particle)
            Step(x, m) == MoveSlot(x, list[m].slot, Teleport(list[m].side))
            Good == [m \in 0 .. 0 |-> {ps}]
<1>1. PICK n \in Nat : n = 0
  OBVIOUS
<1>2. DOMAIN list = 1 .. n /\ list = Escaped(rs, "PERIODIC") /\ ps \in Good[0] /\ \A m \in 1 .. n : FALSE
  BY <1>1
<1>. HIDE DEF list, Good, S
<1>3. \A m \in 1 .. n : \A x \in S : Step(x, m) \in S
  BY <1>2
<1>4. \A m \in 1 .. n : \A x \in S : x \in Good[m - 1] => Step(x, m) \in Good[m]
  BY <1>2
<1>5. ps \in S
  BY DEF S
<1>6. PeriodicPre(ps, rs) \in Good[n]
  BY <1>2, <1>3, <1>4, <1>5, PeriodicPreFold
<1>. QED BY <1>1, <1>6 DEF Good

LEMMA OutflowOne ==
    ASSUME NEW ps \in Seq(Particle), NEW rs, NEW i \in Nat \ {0},
           DOMAIN Escaped(rs, "OUTFLOW") = 1 .. 1, Escaped(rs, "OUTFLOW")[1].slot = i
    PROVE  OutflowPre(ps, rs) = Erase(ps, i)
<1>. DEFINE list == Escaped(rs, "OUTFLOW")
            S == Seq(Particle)
            Good == [m \in 0 .. 1 |-> IF m = 0 THEN {ps} ELSE {Erase(ps, i)}]
<1>1. PICK n \in Nat : n = 1
  OBVIOUS
<1>2. /\ DOMAIN list = 1 .. n /\ list = Escaped(rs, "OUTFLOW") /\ ps \in Good[0]
      /\ \A m \in 1 .. n : list[m].slot = i /\ Good[m - 1] = {ps} /\ Good[m] = {Erase(ps, i)}
  BY <1>1
<1>. HIDE DEF list, Good
<1>3. \A m \in 1 .. n : \A x \in S : Erase(x, list[m].slot) \in S
  BY <1>2, EraseElements
<1>. HIDE DEF S
<1>4. \A m \in 1 .. n : \A x \in S : x \in Good[m - 1] => Erase(x, list[m].slot) \in Good[m]
  BY <1>2
<1>5. ps \in S
  BY DEF S
<1>6. OutflowPre(ps, rs) \in Good[n]
  BY <1>2, <1>3, <1>4, <1>5, OutflowPreFold
<1>. QED BY <1>1, <1>6 DEF Good

\* Who has left through no PERIODIC side is not moved.
LEMMA OppositeStays ==
    ASSUME NEW p \in Particle, ~LeftThrough(p, "PERIODIC")
    PROVE  [p EXCEPT !.x = Opposite(p)] = p
<1>1. p.x \in Positions
  BY DEF Particle
<1>2. \A a \in Axes : Opposite(p)[a] = p.x[a]
  BY DEF Opposite, LeftThrough
<1>3. Opposite(p) = [a \in Axes |-> Opposite(p)[a]] /\ p.x = [a \in Axes |-> p.x[a]]
  BY <1>1 DEF Opposite, Positions
<1>4. Opposite(p) = p.x
  BY <1>2, <1>3
<1>. QED BY <1>4 DEF Particle

\* The opposite side is inside of the halo.
LEMMA OppositeFits ==
    ASSUME NEW p, p.x \in Positions, NEW a \in Axes,
           N[a] * p.x[a] \in -DomainSize[a] .. (N[a] + 1) * DomainSize[a] - 1
    PROVE  N[a] * Opposite(p)[a] \in -DomainSize[a] .. (N[a] + 1) * DomainSize[a] - 1
<1>. DEFINE D == DomainSize[a]
            M == N[a]
            x == p.x[a]
            y == Opposite(p)[a]
<1>1. x \in Int /\ M \in Nat \ {0} /\ D \in Nat \ {0}
  BY AxesAre, DomainSizeNat DEF Positions
<1>2. \/ y = x
      \/ y = x + D /\ x < 0
      \/ y = x - D /\ x >= D
  BY DEF Opposite, ExitsOf
<1>. HIDE DEF D, M, x, y
<1>3. M * x \in Int /\ M * D \in Int /\ M * D >= D /\ (M + 1) * D = M * D + D
  BY <1>1
<1>4. CASE y = x
  BY <1>4 DEF D, M, x, y
<1>5. CASE y = x + D /\ x < 0
  <2>1. M * y = M * x + M * D
    BY <1>1, <1>5
  <2>2. M * x <= 0
    BY <1>1, <1>5
  <2>3. -D <= M * x
    BY <1>1, <1>3 DEF D, M, x
  <2>4. M * y \in -D .. (M + 1) * D - 1
    BY <1>1, <1>3, <2>1, <2>2, <2>3
  <2>. QED BY <2>4 DEF D, M, y
<1>6. CASE y = x - D /\ x >= D
  <2>1. M * y = M * x - M * D
    BY <1>1, <1>6
  <2>2. M * x >= M * D
    BY <1>1, <1>6
  <2>3. M * x <= (M + 1) * D - 1
    BY <1>1, <1>3 DEF D, M, x
  <2>4. M * y \in -D .. (M + 1) * D - 1
    BY <1>1, <1>3, <2>1, <2>2, <2>3
  <2>. QED BY <2>4 DEF D, M, y
<1>. QED BY <1>2, <1>4, <1>5, <1>6

\* What a list becomes when each particle of it is moved.
MovedList(qs) == [i \in DOMAIN qs |-> [qs[i] EXCEPT !.x = Opposite(qs[i])]]

\* Nobody has left through an OUTFLOW side: the PERIODIC ones move the rest.
LEMMA PreparedClosed ==
    ASSUME NEW ps \in Seq(Particle), Fits(ps), NEW cap,
           \A i \in 1 .. Len(ps) : ~LeftThrough(ps[i], "OUTFLOW")
    PROVE  LET fresh == ReferencesTo(ps, cap)
               prepared == PeriodicPre(OutflowPre(ps, fresh), fresh)
           IN  /\ ~ErasesPastEnd(ps, fresh) /\ ~ErasesEmpty(ps, fresh)
               /\ prepared = Prepared(ps) /\ Fits(prepared)
<1>. DEFINE fresh == ReferencesTo(ps, cap)
            prepared == PeriodicPre(OutflowPre(ps, fresh), fresh)
            qs == PeriodicPre(ps, fresh)
            n == Len(ps)
<1>1. n \in Nat /\ DOMAIN ps = 1 .. n /\ \A i \in 1 .. n : ps[i] \in Particle
  OBVIOUS
<1>2. DOMAIN Escaped(fresh, "OUTFLOW") = 1 .. 0 /\ Len(Escaped(fresh, "OUTFLOW")) = 0
  BY NoVisits
<1>3. prepared = qs
  BY <1>2, OutflowNone
<1>4. /\ qs \in Seq(Particle) /\ Len(qs) = n
      /\ \A i \in 1 .. n : qs[i] = [ps[i] EXCEPT !.x = Opposite(ps[i])]
  BY PeriodicMoves
<1>. HIDE DEF prepared, qs, fresh, n
<1>5. ~ErasesPastEnd(ps, fresh) /\ ~ErasesEmpty(ps, fresh)
  <2>1. 1 .. 0 = {}
    OBVIOUS
  <2>. QED BY <1>1, <1>2, <2>1 DEF ErasesPastEnd, ErasesEmpty, n
<1>6. Staying(ps) = ps
  <2>. DEFINE st == Staying(ps)
  <2>1. n + 1 \in 1 .. n + 1 /\ \A k \in 1 .. n : LeftThrough(ps[k], "OUTFLOW") <=> k = n + 1
    BY <1>1 DEF n
  <2>2. /\ st \in Seq(Particle) /\ Len(st) = (IF n + 1 <= n THEN n - 1 ELSE n)
        /\ \A k \in 1 .. Len(st) : st[k] = ps[IF k < n + 1 THEN k ELSE k + 1]
    BY <2>1, StayingFacts DEF n
  <2>. HIDE DEF st
  <2>3. Len(st) = n /\ \A k \in 1 .. n : st[k] = ps[k]
    BY <1>1, <2>2
  <2>4. st = [k \in 1 .. n |-> st[k]] /\ ps = [k \in 1 .. n |-> ps[k]]
    BY <2>2, <2>3, SeqIsFunction DEF n
  <2>5. st = ps
    BY <2>3, <2>4, SameFunction
  <2>. QED BY <2>5 DEF st
<1>7. qs = MovedList(ps)
  <2>1. qs = [i \in 1 .. n |-> qs[i]]
    BY <1>4, SeqIsFunction
  <2>. QED BY <1>1, <1>4, <2>1 DEF MovedList
<1>8. qs = Prepared(ps)
  BY <1>6, <1>7 DEF Prepared, MovedList
<1>9. Fits(qs)
  <2>1. NoneBehindHalo(ps)
    BY FitsIsNoneBehind
  <2>2. \A i \in 1 .. n : ps[i].x \in Positions /\ qs[i].x = Opposite(ps[i])
    BY <1>1, <1>4 DEF Particle
  <2>3. ASSUME NEW i \in 1 .. n, NEW a \in Axes
        PROVE  N[a] * qs[i].x[a] \in -DomainSize[a] .. (N[a] + 1) * DomainSize[a] - 1
    <3>1. N[a] * ps[i].x[a] \in -DomainSize[a] .. (N[a] + 1) * DomainSize[a] - 1
      BY <1>1, <2>1 DEF NoneBehindHalo
    <3>2. N[a] * Opposite(ps[i])[a] \in -DomainSize[a] .. (N[a] + 1) * DomainSize[a] - 1
      BY <2>2, <3>1, OppositeFits
    <3>. QED BY <2>2, <3>2
  <2>4. DOMAIN qs = 1 .. n
    BY <1>4
  <2>5. NoneBehindHalo(qs)
    BY <2>3, <2>4, Zenon DEF NoneBehindHalo
  <2>. QED BY <1>4, <2>5, FitsIsNoneBehind
<1>. QED BY <1>3, <1>5, <1>8, <1>9 DEF prepared, fresh

\* One particle has left through one OUTFLOW side, and none through a PERIODIC one.
LEMMA PreparedOneGone ==
    ASSUME NEW ps \in Seq(Particle), Fits(ps), NEW cap,
           NEW i \in 1 .. Len(ps), NEW s \in Sides,
           OnlyCrossing(ps, "OUTFLOW", i, s),
           \A j \in 1 .. Len(ps) : ~LeftThrough(ps[j], "PERIODIC")
    PROVE  LET fresh == ReferencesTo(ps, cap)
               prepared == PeriodicPre(OutflowPre(ps, fresh), fresh)
           IN  /\ ~ErasesPastEnd(ps, fresh) /\ ~ErasesEmpty(ps, fresh)
               /\ prepared = Prepared(ps) /\ Fits(prepared)
<1>. DEFINE fresh == ReferencesTo(ps, cap)
            prepared == PeriodicPre(OutflowPre(ps, fresh), fresh)
            V == Escaped(fresh, "OUTFLOW")
            qs == Erase(ps, i)
            n == Len(ps)
            From(k) == IF k < i THEN k ELSE k + 1
<1>1. /\ n \in Nat /\ DOMAIN ps = 1 .. n /\ \A k \in 1 .. n : ps[k] \in Particle
      /\ i \in 1 .. n /\ i \in Nat \ {0} /\ ps # <<>>
  OBVIOUS
<1>2. DOMAIN V = 1 .. 1 /\ Len(V) = 1 /\ V[1].slot = i
  BY OneVisit
<1>3. OutflowPre(ps, fresh) = qs
  BY <1>1, <1>2, OutflowOne
<1>4. /\ qs \in Seq(Particle) /\ Len(qs) = n - 1
      /\ \A k \in DOMAIN qs : k \in DOMAIN ps /\ qs[k] = ps[From(k)]
                              /\ (i <= k => k + 1 \in DOMAIN ps)
  <2>1. /\ qs \in Seq(Particle) /\ Len(qs) = (IF ps = <<>> THEN 0 ELSE n - 1)
        /\ \A k \in DOMAIN qs : k \in DOMAIN ps /\ qs[k] = ps[From(k)]
                                /\ (i <= k => k + 1 \in DOMAIN ps)
    BY <1>1, EraseElements
  <2>. HIDE DEF qs, From, n
  <2>. QED BY <1>1, <2>1
<1>5. DOMAIN Escaped(fresh, "PERIODIC") = 1 .. 0
  BY NoVisits
<1>6. prepared = qs
  BY <1>3, <1>4, <1>5, PeriodicNone
<1>. HIDE DEF prepared, qs, V, fresh
<1>7. ~ErasesPastEnd(ps, fresh) /\ ~ErasesEmpty(ps, fresh)
  <2>1. ErasesEmpty(ps, fresh) <=> Len(V) > n
    BY DEF ErasesEmpty, V
  <2>2. ErasesPastEnd(ps, fresh) <=> \E k \in DOMAIN V : V[k].slot > Len(ps) - (k - 1)
    BY DEF ErasesPastEnd, V
  <2>3. \A k \in DOMAIN V : k = 1
    BY <1>2
  <2>. QED BY <1>1, <1>2, <2>1, <2>2, <2>3
<1>8. \A k \in DOMAIN qs : From(k) \in 1 .. n
  <2>1. \A k \in DOMAIN qs : k \in Nat
    BY <1>4
  <2>. QED BY <1>1, <1>4, <2>1
<1>9. Staying(ps) = qs
  <2>. DEFINE st == Staying(ps)
  <2>1. \A k \in 1 .. n : LeftThrough(ps[k], "OUTFLOW") <=> k = i
    BY DEF LeftThrough, ExitsOf, OnlyCrossing
  <2>2. /\ st \in Seq(Particle) /\ Len(st) = (IF i <= n THEN n - 1 ELSE n)
        /\ \A k \in 1 .. Len(st) : st[k] = ps[From(k)]
    <3>1. i \in 1 .. Len(ps) + 1 /\ \A k \in 1 .. Len(ps) : LeftThrough(ps[k], "OUTFLOW") <=> k = i
      BY <2>1
    <3>. QED BY <3>1, StayingFacts
  <2>. HIDE DEF st, From, n
  <2>3. Len(st) = n - 1 /\ \A k \in 1 .. n - 1 : st[k] = ps[From(k)]
    BY <1>1, <2>2
  <2>4. DOMAIN qs = 1 .. n - 1
    BY <1>1, <1>4
  <2>5. st = [k \in 1 .. n - 1 |-> st[k]] /\ qs = [k \in 1 .. n - 1 |-> qs[k]]
    BY <1>4, <2>2, <2>3, SeqIsFunction
  <2>6. \A k \in 1 .. n - 1 : st[k] = qs[k]
    BY <1>4, <2>3, <2>4
  <2>7. st = qs
    BY <2>5, <2>6, SameFunction
  <2>. QED BY <2>7 DEF st
<1>10. qs = Prepared(ps)
  <2>. HIDE DEF From
  <2>1. \A k \in DOMAIN qs : [qs[k] EXCEPT !.x = Opposite(qs[k])] = qs[k]
    BY <1>1, <1>4, <1>8, OppositeStays
  <2>2. qs = [k \in DOMAIN qs |-> qs[k]]
    BY <1>4, SeqIsFunction
  <2>3. MovedList(qs) = qs
    BY <2>1, <2>2 DEF MovedList
  <2>. QED BY <1>9, <2>3 DEF Prepared, MovedList
<1>11. Fits(qs)
  <2>. HIDE DEF From
  <2>. QED BY <1>1, <1>4, <1>8 DEF Fits
<1>. QED BY <1>6, <1>7, <1>10, <1>11 DEF prepared, fresh

\* prepareForceCalculation throws exactly on particles that have jumped over the
\* halo.  Otherwise, as long as no erase invalidates a reference that is used
\* later, it removes what has left through an OUTFLOW side, moves what has left
\* through PERIODIC sides through the domain, once per axis, and leaves the rest
\* as it is.
THEOREM PreparationIsExact == Spec => PreparesExactly
<1>. DEFINE Exactly ==
              IF ~NoneBehindHalo(particles) THEN pc' = "thrown"
              ELSE NoStaleReferenceUsed => pc' = "prepared" /\ particles' = Prepared(particles)
            fresh == ReferencesTo(particles, capacity)
            prepared == PeriodicPre(OutflowPre(particles, fresh), fresh)
<1>1. ASSUME Inv, PrepareForceCalculation PROVE Exactly
  <2>1. particles \in Seq(Particle)
    BY <1>1 DEF Inv
  <2>2. Fits(particles) <=> NoneBehindHalo(particles)
    BY <2>1, FitsIsNoneBehind
  <2>3. \/ ~Fits(particles) /\ pc' = "thrown"
        \/ Fits(particles) /\ ErasesPastEnd(particles, fresh)
        \/ /\ Fits(particles) /\ particles' = prepared
           /\ pc' = IF Fits(prepared) THEN "prepared" ELSE "thrown"
    BY <1>1, Zenon DEF PrepareForceCalculation
  <2>4. ASSUME Fits(particles), NoStaleReferenceUsed
        PROVE  ~ErasesPastEnd(particles, fresh) /\ prepared = Prepared(particles) /\ Fits(prepared)
    <3>1. CASE Crossings(particles, "OUTFLOW") = 0
      <4>1. \A i \in 1 .. Len(particles) : ~LeftThrough(particles[i], "OUTFLOW")
        BY <2>1, <3>1, CrossingsFacts
      <4>. QED BY <2>1, <2>4, <4>1, PreparedClosed
    <3>2. CASE Crossings(particles, "OUTFLOW") = 1 /\ Crossings(particles, "PERIODIC") = 0
      <4>1. PICK i \in 1 .. Len(particles), s \in Sides :
              OnlyCrossing(particles, "OUTFLOW", i, s)
        BY <2>1, <3>2, CrossingsFacts
      <4>2. \A i_1 \in 1 .. Len(particles) : ~LeftThrough(particles[i_1], "PERIODIC")
        BY <2>1, <3>2, CrossingsFacts
      <4>. QED BY <2>1, <2>4, <4>1, <4>2, PreparedOneGone
    <3>. QED BY <2>4, <3>1, <3>2 DEF NoStaleReferenceUsed
  <2>. HIDE DEF fresh, prepared
  <2>. QED BY <2>2, <2>3, <2>4
<1>2. Inv /\ [Next]_vars => [(pc = "moved" /\ pc' # "moved") => Exactly]_vars
  <2>1. SUFFICES ASSUME Inv, [Next]_vars, pc = "moved", pc' # "moved" PROVE Exactly
    BY Zenon
  <2>2. ~AddParticle /\ ~Reserve /\ ~StartSimulation /\ ~UpdatePositions
        /\ ~ApplyBoundaryConditions /\ ~RemoveGhosts
    BY <2>1 DEF AddParticle, Reserve, StartSimulation, UpdatePositions,
                ApplyBoundaryConditions, RemoveGhosts
  <2>3. ~UNCHANGED vars
    BY <2>1 DEF vars
  <2>. HIDE DEF Exactly
  <2>. QED BY <1>1, <2>1, <2>2, <2>3 DEF Next, Stopped
<1>. QED BY <1>2, InvAlways, PTL DEF Spec, PreparesExactly

-----------------------------------------------------------------------------
(***************************************************************************)
(* Images                                                                  *)
(***************************************************************************)

\* No axis of the domain is shorter than the cutoff radius.
Thick == \A a \in Axes : Cutoff <= DomainSize[a]

LEMMA RootBound ==
    ASSUME NEW t \in Int, NEW c \in Nat, t * t <= c * c
    PROVE  -c <= t /\ t <= c
<1>1. ASSUME NEW u \in Nat, u > c PROVE u * u > c * c
  <2>1. (u - c) * (u + c) > 0
    <3>1. u - c > 0 /\ u + c > 0 /\ u - c \in Int /\ u + c \in Int
      BY <1>1
    <3>. QED BY <3>1
  <2>2. (u - c) * (u + c) = u * u - c * c
    OBVIOUS
  <2>. QED BY <2>1, <2>2
<1>2. CASE t > c
  BY <1>1, <1>2
<1>3. CASE t < -c
  <2>1. (-t) * (-t) = t * t /\ -t \in Nat /\ -t > c
    BY <1>3
  <2>2. (-t) * (-t) > c * c
    BY <1>1, <2>1
  <2>. QED BY <2>1, <2>2
<1>. QED BY <1>2, <1>3

LEMMA SquareNat ==
    ASSUME NEW t \in Int
    PROVE  t * t \in Nat
<1>1. CASE t >= 0
  BY <1>1
<1>2. CASE t < 0
  <2>1. (-t) * (-t) = t * t /\ -t \in Nat
    BY <1>2
  <2>. QED BY <2>1
<1>. QED BY <1>1, <1>2

\* What is within the cutoff radius is so on every axis.
LEMMA WithinCutoff ==
    ASSUME NEW x \in Positions, NEW y \in Positions,
           Distance2(x, y) <= Cutoff * Cutoff, NEW a \in Axes
    PROVE  -Cutoff <= x[a] - y[a] /\ x[a] - y[a] <= Cutoff
<1>. DEFINE u == x[1] - y[1]
            v == x[2] - y[2]
            w == x[3] - y[3]
<1>1. \A b \in Axes : x[b] \in Int /\ y[b] \in Int
  BY DEF Positions
<1>2. u \in Int /\ v \in Int /\ w \in Int
  BY <1>1, AxesAre
<1>3. u * u + v * v + w * w <= Cutoff * Cutoff
  BY Zenon DEF Distance2
<1>4. Cutoff \in Nat /\ Cutoff * Cutoff \in Nat
  BY LinkedCellsAssumption DEF LinkedCellsAssumption
<1>5. a = 1 \/ a = 2 \/ a = 3
  BY AxesAre
<1>. HIDE DEF u, v, w
<1>6. u * u \in Nat /\ v * v \in Nat /\ w * w \in Nat
  BY <1>2, SquareNat
<1>7. u * u <= Cutoff * Cutoff /\ v * v <= Cutoff * Cutoff /\ w * w <= Cutoff * Cutoff
  BY <1>3, <1>4, <1>6
<1>8. /\ -Cutoff <= u /\ u <= Cutoff
      /\ -Cutoff <= v /\ v <= Cutoff
      /\ -Cutoff <= w /\ w <= Cutoff
  BY <1>2, <1>4, <1>7, RootBound
<1>. QED BY <1>5, <1>8 DEF u, v, w

\* On an axis that is as long as the cutoff radius, a cell is as wide.
LEMMA CutoffFits ==
    ASSUME Thick, NEW a \in Axes
    PROVE  N[a] * Cutoff <= DomainSize[a]
<1>1. Cutoff \in Nat /\ Cutoff <= DomainSize[a]
  BY LinkedCellsAssumption DEF LinkedCellsAssumption, Thick
<1>. QED BY <1>1, CellWidth

LEMMA AdjacentOnAxis ==
    ASSUME Thick, NEW x \in Positions, NEW y \in Positions, NEW a \in Axes,
           y[a] - x[a] <= Cutoff
    PROVE  Coordinates(y)[a] <= Coordinates(x)[a] + 1
<1>. DEFINE c == Coordinates(x)[a]
            e == Coordinates(y)[a]
            D == DomainSize[a]
            q == c + 2
<1>1. /\ x[a] \in Int /\ y[a] \in Int /\ N[a] \in Nat \ {0} /\ D \in Nat \ {0}
      /\ Cutoff \in Nat
  BY AxesAre, DomainSizeNat, LinkedCellsAssumption DEF LinkedCellsAssumption, Positions
<1>2. c \in Int /\ \A r \in Int : r <= c <=> r * D <= x[a] * N[a]
  BY CoordinatesFacts
<1>3. e \in Int /\ \A r \in Int : r <= e <=> r * D <= y[a] * N[a]
  BY CoordinatesFacts
<1>4. N[a] * Cutoff <= D
  BY CutoffFits
<1>. HIDE DEF c, e, D
<1>5. y[a] * N[a] <= x[a] * N[a] + N[a] * Cutoff
  <2>1. (Cutoff - (y[a] - x[a])) * N[a] >= 0
    <3>1. Cutoff - (y[a] - x[a]) \in Nat /\ N[a] \in Nat
      BY <1>1
    <3>. QED BY <3>1
  <2>2. (Cutoff - (y[a] - x[a])) * N[a] = N[a] * Cutoff - y[a] * N[a] + x[a] * N[a]
    BY <1>1
  <2>3. N[a] * Cutoff \in Int /\ y[a] * N[a] \in Int /\ x[a] * N[a] \in Int
    BY <1>1
  <2>. QED BY <2>1, <2>2, <2>3
<1>6. x[a] * N[a] < (c + 1) * D
  <2>1. ~(c + 1 <= c) /\ c + 1 \in Int
    BY <1>2
  <2>2. ~((c + 1) * D <= x[a] * N[a])
    BY <1>2, <2>1
  <2>3. (c + 1) * D \in Int /\ x[a] * N[a] \in Int
    BY <1>1, <1>2
  <2>. QED BY <2>2, <2>3
<1>7. q * D = (c + 1) * D + D /\ q \in Int
  BY <1>1, <1>2
<1>8. y[a] * N[a] < q * D
  <2>1. (c + 1) * D \in Int /\ x[a] * N[a] \in Int /\ y[a] * N[a] \in Int /\ N[a] * Cutoff \in Int
    BY <1>1, <1>2
  <2>. HIDE DEF q
  <2>. QED BY <1>1, <1>4, <1>5, <1>6, <1>7, <2>1
<1>9. ~(q <= e)
  <2>1. ~(q * D <= y[a] * N[a])
    <3>1. q * D \in Int /\ y[a] * N[a] \in Int
      BY <1>1, <1>7
    <3>. QED BY <1>8, <3>1
  <2>. HIDE DEF q
  <2>. QED BY <1>3, <1>7, <2>1
<1>10. e <= c + 1
  BY <1>2, <1>3, <1>9
<1>. QED BY <1>10 DEF c, e

\* The place of a particle that has not left the domain, on each axis.
LEMMA InsideFacts ==
    ASSUME NEW p, p.x \in Positions, ExitsOf(p) = {}
    PROVE  /\ particlePosToCell(p.x) = Coordinates(p.x) /\ Coordinates(p.x) \in Cells \ Halo
           /\ \A a \in Axes :
                /\ Coordinates(p.x)[a] \in 0 .. (N[a] - 1)
                /\ p.x[a] \in Int /\ 0 <= p.x[a] /\ p.x[a] < DomainSize[a]
<1>. DEFINE c == Coordinates(p.x)
<1>1. particlePosToCell(p.x) \in Cells \ Halo
  BY InsideCells
<1>2. particlePosToCell(p.x) = c /\ c \in Cells \ Halo
  BY <1>1, CellOfPosition, NoCellIsNone
<1>3. ASSUME NEW a \in Axes
      PROVE  /\ c[a] \in 0 .. (N[a] - 1)
             /\ p.x[a] \in Int /\ 0 <= p.x[a] /\ p.x[a] < DomainSize[a]
  <2>1. /\ c[a] \in Int /\ p.x[a] \in Int /\ DomainSize[a] \in Int /\ N[a] \in Nat
        /\ c[a] >= 0 <=> p.x[a] >= 0
        /\ c[a] >= N[a] <=> p.x[a] >= DomainSize[a]
    BY CoordinatesFacts, InsideOnAxis, DomainSizeNat, AxesAre DEF Positions
  <2>2. ~(c[a] < 0) /\ ~(c[a] >= N[a])
    BY <1>2 DEF Halo
  <2>. QED BY <2>1, <2>2
<1>. QED BY <1>2, <1>3

\* What is within the cutoff radius of a particle in the domain is in its cell or
\* in a neighbour of it.
LEMMA NearIsNeighbour ==
    ASSUME Thick, NEW p, p.x \in Positions, ExitsOf(p) = {}, NEW y \in Positions,
           Distance2(p.x, y) <= Cutoff * Cutoff
    PROVE  \/ particlePosToCell(y) = particlePosToCell(p.x)
           \/ particlePosToCell(y) \in Neighbours(particlePosToCell(p.x))
<1>. DEFINE c == Coordinates(p.x)
            e == Coordinates(y)
<1>1. /\ particlePosToCell(p.x) = c /\ c \in Cells
      /\ \A a \in Axes : c[a] \in 0 .. (N[a] - 1)
  BY InsideFacts
<1>2. ASSUME NEW a \in Axes
      PROVE  e[a] \in -1 .. N[a] /\ e[a] - c[a] \in -1 .. 1
  <2>1. -Cutoff <= p.x[a] - y[a] /\ p.x[a] - y[a] <= Cutoff
    BY WithinCutoff
  <2>2. p.x[a] \in Int /\ y[a] \in Int /\ Cutoff \in Nat
    BY LinkedCellsAssumption DEF LinkedCellsAssumption, Positions
  <2>3. y[a] - p.x[a] <= Cutoff
    BY <2>1, <2>2
  <2>4. e[a] <= c[a] + 1 /\ c[a] <= e[a] + 1
    BY <2>1, <2>3, AdjacentOnAxis
  <2>5. e[a] \in Int /\ c[a] \in 0 .. (N[a] - 1) /\ N[a] \in Nat
    BY <1>1, CoordinatesFacts, AxesAre
  <2>. HIDE DEF e, c
  <2>. QED BY <2>4, <2>5
<1>3. particlePosToCell(y) = e /\ e \in Cells
  BY <1>2, CellOfPosition
<1>. HIDE DEF c, e
<1>. QED BY <1>1, <1>2, <1>3 DEF Neighbours

\* An image within the cutoff radius is that of a particle in a boundary cell
\* that faces it, and next to the domain.
LEMMA NearImage ==
    ASSUME Thick, NEW p, p.x \in Positions, ExitsOf(p) = {},
           NEW q \in Particle, ExitsOf(q) = {},
           NEW d \in (-2 .. 2) \X (-2 .. 2) \X (-2 .. 2),
           Distance2(p.x, Shifted(q.x, Offset(d))) <= Cutoff * Cutoff
    PROVE  /\ d \in (-1 .. 1) \X (-1 .. 1) \X (-1 .. 1)
           /\ d # <<0, 0, 0>> => particlePosToCell(q.x) \in GhostSources[d]
<1>. DEFINE y == Shifted(q.x, Offset(d))
            c == Coordinates(q.x)
<1>1. \A a \in Axes : d[a] \in -2 .. 2
  BY AxesAre
<1>2. q.x \in Positions
  BY DEF Particle
<1>3. ASSUME NEW a \in Axes
      PROVE  y[a] = q.x[a] + d[a] * DomainSize[a] /\ y[a] \in Int
  <2>1. q.x[a] \in Int /\ DomainSize[a] \in Int /\ d[a] \in Int
    BY <1>1, <1>2, DomainSizeNat DEF Positions
  <2>. QED BY <2>1 DEF Shifted, Offset
<1>4. y \in Positions
  <2>1. y = [a \in Axes |-> y[a]]
    BY DEF Shifted
  <2>. HIDE DEF y
  <2>. QED BY <1>3, <2>1 DEF Positions
<1>5. /\ particlePosToCell(q.x) = c /\ c \in Cells \ Halo
      /\ \A a \in Axes : c[a] \in 0 .. (N[a] - 1)
  BY <1>2, InsideFacts
<1>6. ASSUME NEW a \in Axes
      PROVE  /\ d[a] \in -1 .. 1
             /\ d[a] = 1 => c[a] = 0
             /\ d[a] = -1 => c[a] = N[a] - 1
  <2>. DEFINE D == DomainSize[a]
  <2>1. -Cutoff <= p.x[a] - y[a] /\ p.x[a] - y[a] <= Cutoff
    BY <1>4, WithinCutoff
  <2>2. y[a] = q.x[a] + d[a] * D
    BY <1>3
  <2>3. /\ p.x[a] \in Int /\ 0 <= p.x[a] /\ p.x[a] < D
        /\ q.x[a] \in Int /\ 0 <= q.x[a] /\ q.x[a] < D
    BY <1>2, InsideFacts
  <2>4. D \in Nat \ {0} /\ Cutoff \in Nat /\ Cutoff <= D /\ N[a] \in Nat \ {0}
    BY DomainSizeNat, AxesAre, LinkedCellsAssumption DEF LinkedCellsAssumption, Thick
  <2>5. d[a] \in -2 .. 2 /\ c[a] \in 0 .. (N[a] - 1)
    BY <1>1, <1>5
  <2>6. \A r \in Int : r <= c[a] <=> r * D <= q.x[a] * N[a]
    BY <1>2, CoordinatesFacts
  <2>7. N[a] * Cutoff <= D
    BY CutoffFits
  <2>. HIDE DEF y, c, D
  <2>8. d[a] # 2
    BY <2>1, <2>2, <2>3, <2>4
  <2>9. d[a] # -2
    BY <2>1, <2>2, <2>3, <2>4
  <2>10. ASSUME NEW t \in Int, t < Cutoff PROVE t * N[a] < D
    <3>1. (Cutoff - t) * N[a] > 0
      <4>1. Cutoff - t \in Nat \ {0} /\ N[a] \in Nat \ {0}
        BY <2>4, <2>10
      <4>. QED BY <4>1
    <3>2. (Cutoff - t) * N[a] = N[a] * Cutoff - t * N[a]
      BY <2>4
    <3>3. t * N[a] \in Int /\ N[a] * Cutoff \in Int
      BY <2>4
    <3>. QED BY <2>4, <2>7, <3>1, <3>2, <3>3
  <2>11. ASSUME d[a] = 1 PROVE c[a] = 0
    <3>1. q.x[a] < Cutoff
      BY <2>1, <2>2, <2>3, <2>4, <2>11
    <3>2. q.x[a] * N[a] < D
      BY <2>3, <2>10, <3>1
    <3>3. ~(1 * D <= q.x[a] * N[a])
      BY <2>3, <2>4, <3>2
    <3>4. ~(1 <= c[a])
      BY <2>6, <3>3
    <3>. QED BY <2>5, <3>4
  <2>12. ASSUME d[a] = -1 PROVE c[a] = N[a] - 1
    <3>1. D - q.x[a] <= Cutoff
      BY <2>1, <2>2, <2>3, <2>4, <2>12
    <3>2. (D - q.x[a]) * N[a] <= D
      <4>1. (Cutoff - (D - q.x[a])) * N[a] >= 0
        <5>1. Cutoff - (D - q.x[a]) \in Nat /\ N[a] \in Nat
          BY <2>3, <2>4, <3>1
        <5>. QED BY <5>1
      <4>2. (Cutoff - (D - q.x[a])) * N[a] = N[a] * Cutoff - (D - q.x[a]) * N[a]
        BY <2>3, <2>4
      <4>3. (D - q.x[a]) * N[a] \in Int /\ N[a] * Cutoff \in Int
        BY <2>3, <2>4
      <4>. QED BY <2>4, <2>7, <4>1, <4>2, <4>3
    <3>3. (D - q.x[a]) * N[a] = N[a] * D - q.x[a] * N[a] /\ (N[a] - 1) * D = N[a] * D - D
      BY <2>3, <2>4
    <3>4. N[a] * D \in Int /\ q.x[a] * N[a] \in Int
      BY <2>3, <2>4
    <3>5. (N[a] - 1) * D <= q.x[a] * N[a]
      BY <2>4, <3>2, <3>3, <3>4
    <3>6. N[a] - 1 <= c[a]
      BY <2>4, <2>6, <3>5
    <3>. QED BY <2>4, <2>5, <3>6
  <2>. QED BY <2>5, <2>8, <2>9, <2>11, <2>12
<1>7. d \in (-1 .. 1) \X (-1 .. 1) \X (-1 .. 1)
  <2>1. d[1] \in -1 .. 1 /\ d[2] \in -1 .. 1 /\ d[3] \in -1 .. 1
    BY <1>6, AxesAre
  <2>2. d = <<d[1], d[2], d[3]>>
    OBVIOUS
  <2>. QED BY <2>1, <2>2, Zenon
<1>8. ASSUME d # <<0, 0, 0>> PROVE c \in GhostSources[d]
  <2>1. d \in Range(GhostDirections)
    BY <1>7, <1>8, DirectionsAre DEF Directions
  <2>. HIDE DEF c
  <2>. QED BY <1>5, <1>6, <2>1 DEF GhostSources
<1>. QED BY <1>5, <1>7, <1>8

\* The ghosts in the force loop are those of the particles next to PERIODIC sides.
GhostsExact == pc = "forces" => Ghosted(particles, Kept, AllGhosts(Kept))

LEMMA GhostsExactAlways == Spec => []GhostsExact
<1>1. Init => GhostsExact
  BY DEF Init, GhostsExact
<1>2. Inv /\ GhostsExact /\ [Next]_vars => GhostsExact'
  <2>. SUFFICES ASSUME Inv, GhostsExact, [Next]_vars PROVE GhostsExact'
    OBVIOUS
  <2>1. CASE ApplyBoundaryConditions
    <3>1. /\ original' = Len(particles) /\ particles' \in Seq(Particle)
          /\ Real(particles) /\ Extends(particles', particles)
          /\ Ghosted(particles', particles, AllGhosts(particles))
      BY <2>1, ApplyGrows
    <3>2. Kept' = particles
      BY <3>1, FrontOfExtended DEF Kept, Real
    <3>3. boundary_types' = boundary_types
      BY <2>1 DEF ApplyBoundaryConditions
    <3>4. AllGhosts(Kept)' = AllGhosts(particles)
      BY <3>2, <3>3 DEF AllGhosts, Wanted, IsPeriodic
    <3>5. Ghosted(particles, Kept, AllGhosts(Kept))'
      BY <3>1, <3>2, <3>4, SMTT(30) DEF Ghosted
    <3>. QED BY <3>5 DEF GhostsExact
  <2>2. CASE UNCHANGED vars
    <3>1. /\ pc' = pc /\ particles' = particles /\ original' = original
          /\ boundary_types' = boundary_types
      BY <2>2 DEF vars
    <3>2. Kept' = Kept
      BY <3>1 DEF Kept
    <3>3. AllGhosts(Kept)' = AllGhosts(Kept)
      BY <3>1, <3>2 DEF AllGhosts, Wanted, IsPeriodic
    <3>4. Ghosted(particles, Kept, AllGhosts(Kept))' <=> Ghosted(particles, Kept, AllGhosts(Kept))
      BY <3>1, <3>2, <3>3 DEF Ghosted
    <3>. QED BY <3>1, <3>4 DEF GhostsExact
  <2>3. CASE AddParticle \/ Reserve \/ StartSimulation \/ UpdatePositions
             \/ PrepareForceCalculation \/ RemoveGhosts
    <3>1. pc' # "forces"
      <4>1. pc' \in {"setup", "thrown", "moved", "undefined", "prepared", "idle"}
        BY <2>3, Zenon DEF AddParticle, Reserve, StartSimulation, UpdatePositions,
                           PrepareForceCalculation, RemoveGhosts
      <4>. QED BY <4>1
    <3>. QED BY <3>1 DEF GhostsExact
  <2>. QED BY <2>1, <2>2, <2>3 DEF Next, Stopped
<1>. QED BY <1>1, <1>2, InvAlways, PTL DEF Spec

\* An image of a particle that acts on p.
Acts(p, y) == Distance2(p.x, y) <= Cutoff * Cutoff \/ particlePosToCell(p.x) = particlePosToCell(y)

\* The particle from which, and the direction in which, element k of qs comes,
\* if qs is ps followed by ghosts.
ComesFrom(qs, ps, k, j, d) ==
    /\ j \in 1 .. Len(ps) /\ qs[k].id = ps[j].id /\ qs[k].x = Shifted(ps[j].x, Offset(d))
    /\ IF k <= Len(ps) THEN j = k /\ d = <<0, 0, 0>>
       ELSE <<j, d>> \in AllGhosts(ps) /\ qs[k] = Ghost(ps[j], d)

LEMMA NotShifted ==
    ASSUME NEW x \in Positions
    PROVE  Shifted(x, Offset(<<0, 0, 0>>)) = x
<1>1. \A a \in Axes : <<0, 0, 0>>[a] = 0
  BY AxesAre
<1>2. \A a \in Axes : x[a] + 0 * DomainSize[a] = x[a]
  BY DomainSizeNat DEF Positions
<1>3. Shifted(x, Offset(<<0, 0, 0>>)) = [a \in Axes |-> x[a] + 0 * DomainSize[a]]
  BY <1>1 DEF Shifted, Offset
<1>4. x = [a \in Axes |-> x[a]]
  BY DEF Positions
<1>. QED BY <1>2, <1>3, <1>4

LEMMA GhostIs ==
    ASSUME NEW p \in Particle, NEW d
    PROVE  /\ Ghost(p, d).id = p.id /\ Ghost(p, d).locked = TRUE
           /\ Ghost(p, d).x = Shifted(p.x, Offset(d))
  BY DEF Ghost, Particle

LEMMA OriginExists ==
    ASSUME NEW ps, Real(ps), NEW qs \in Seq(Particle), Ghosted(qs, ps, AllGhosts(ps)),
           NEW k \in 1 .. Len(qs)
    PROVE  \E j, d : ComesFrom(qs, ps, k, j, d)
<1>1. ps \in Seq(Particle) /\ Len(ps) \in Nat /\ Len(qs) \in Nat
  BY DEF Real
<1>2. CASE k <= Len(ps)
  <2>1. k \in 1 .. Len(ps) /\ qs[k] = ps[k] /\ ps[k] \in Particle
    BY <1>1, <1>2 DEF Ghosted
  <2>2. Shifted(ps[k].x, Offset(<<0, 0, 0>>)) = ps[k].x
    BY <2>1, NotShifted DEF Particle
  <2>3. ComesFrom(qs, ps, k, k, <<0, 0, 0>>)
    BY <1>2, <2>1, <2>2 DEF ComesFrom
  <2>. QED BY <2>3
<1>3. CASE ~(k <= Len(ps))
  <2>1. PICK e \in AllGhosts(ps) : qs[k] = Ghost(ps[e[1]], e[2])
    BY <1>1, <1>3 DEF Ghosted
  <2>2. e \in Wanted(ps)
    BY DEF AllGhosts
  <2>3. e = <<e[1], e[2]>> /\ e[1] \in 1 .. Len(ps) /\ ps[e[1]] \in Particle
    BY <2>2, WantedFacts
  <2>4. /\ qs[k].id = ps[e[1]].id
        /\ qs[k].x = Shifted(ps[e[1]].x, Offset(e[2]))
    <3>1. /\ Ghost(ps[e[1]], e[2]).id = ps[e[1]].id
          /\ Ghost(ps[e[1]], e[2]).x = Shifted(ps[e[1]].x, Offset(e[2]))
      BY <2>3, GhostIs, Zenon
    <3>. QED BY <2>1, <3>1, Zenon
  <2>5. <<e[1], e[2]>> \in AllGhosts(ps)
    BY <2>3, Zenon
  <2>6. ComesFrom(qs, ps, k, e[1], e[2])
    BY <1>3, <2>1, <2>3, <2>4, <2>5, Zenon DEF ComesFrom
  <2>. QED BY <2>6
<1>. QED BY <1>2, <1>3

\* The other way round.
LEMMA OriginIsCopied ==
    ASSUME NEW ps, Real(ps), NEW qs \in Seq(Particle), Ghosted(qs, ps, AllGhosts(ps)),
           NEW j \in 1 .. Len(ps), NEW d,
           d = <<0, 0, 0>> \/ <<j, d>> \in AllGhosts(ps)
    PROVE  \E k \in 1 .. Len(qs) : ComesFrom(qs, ps, k, j, d)
<1>1. ps \in Seq(Particle) /\ Len(ps) \in Nat /\ Len(qs) \in Nat /\ Len(qs) >= Len(ps)
  BY DEF Real, Ghosted
<1>2. ps[j] \in Particle
  BY <1>1
<1>3. CASE d = <<0, 0, 0>>
  <2>1. j \in 1 .. Len(qs) /\ j <= Len(ps) /\ qs[j] = ps[j]
    BY <1>1 DEF Ghosted
  <2>2. Shifted(ps[j].x, Offset(d)) = ps[j].x
    BY <1>2, <1>3, NotShifted DEF Particle
  <2>3. ComesFrom(qs, ps, j, j, d)
    BY <1>3, <2>1, <2>2 DEF ComesFrom
  <2>. QED BY <2>1, <2>3
<1>4. CASE <<j, d>> \in AllGhosts(ps)
  <2>1. PICK k \in 1 .. Len(qs) : k > Len(ps) /\ qs[k] = Ghost(ps[j], d)
    <3>1. \A e \in AllGhosts(ps) :
            \E k \in 1 .. Len(qs) : k > Len(ps) /\ qs[k] = Ghost(ps[e[1]], e[2])
      BY DEF Ghosted
    <3>. QED BY <1>4, <3>1
  <2>2. ~(k <= Len(ps))
    BY <1>1, <2>1
  <2>3. qs[k].id = ps[j].id /\ qs[k].x = Shifted(ps[j].x, Offset(d))
    <3>1. Ghost(ps[j], d).id = ps[j].id /\ Ghost(ps[j], d).x = Shifted(ps[j].x, Offset(d))
      BY <1>2, GhostIs, Zenon
    <3>. QED BY <2>1, <3>1, Zenon
  <2>4. ComesFrom(qs, ps, k, j, d)
    BY <1>4, <2>1, <2>2, <2>3, Zenon DEF ComesFrom
  <2>. QED BY <2>4
<1>. QED BY <1>3, <1>4

\* No two elements come from the same particle and direction, and none has the
\* id and the position of another, if the particles are in the domain.
LEMMA NoneTwice ==
    ASSUME NEW ps, Real(ps), NEW qs \in Seq(Particle), Ghosted(qs, ps, AllGhosts(ps)),
           \A j \in 1 .. Len(ps) : ExitsOf(ps[j]) = {},
           NEW k \in 1 .. Len(qs), NEW l \in 1 .. Len(qs),
           qs[k].id = qs[l].id, qs[k].x = qs[l].x
    PROVE  k = l
<1>1. ps \in Seq(Particle) /\ DOMAIN ps = 1 .. Len(ps) /\ Len(ps) \in Nat /\ Len(qs) \in Nat
  BY DEF Real
<1>2. ASSUME NEW i \in 1 .. Len(qs), i <= Len(ps)
      PROVE  i \in 1 .. Len(ps) /\ qs[i] = ps[i] /\ particlePosToCell(qs[i].x) \in Cells \ Halo
  <2>1. i \in 1 .. Len(ps) /\ qs[i] = ps[i] /\ ps[i] \in Particle
    BY <1>1, <1>2 DEF Ghosted
  <2>2. ps[i].x \in Positions
    BY <2>1 DEF Particle
  <2>. QED BY <2>1, <2>2, InsideCells
<1>3. ASSUME NEW i \in 1 .. Len(qs), ~(i <= Len(ps))
      PROVE  particlePosToCell(qs[i].x) \notin Cells \ Halo
  <2>1. PICK e \in AllGhosts(ps) : qs[i] = Ghost(ps[e[1]], e[2])
    BY <1>1, <1>3 DEF Ghosted
  <2>2. e \in Wanted(ps)
    BY DEF AllGhosts
  <2>. QED BY <2>1, <2>2, WantedFacts, GhostOutside
<1>4. CASE k <= Len(ps) /\ l <= Len(ps)
  <2>1. ps[k].id = ps[l].id /\ k \in DOMAIN ps /\ l \in DOMAIN ps
    BY <1>1, <1>2, <1>4
  <2>. QED BY <2>1 DEF Real, DistinctIds
<1>5. CASE ~(k <= Len(ps)) /\ ~(l <= Len(ps))
  <2>1. k > Len(ps) /\ l > Len(ps)
    BY <1>1, <1>5
  <2>. QED BY <2>1, Zenon DEF Ghosted
<1>6. CASE (k <= Len(ps)) # (l <= Len(ps))
  BY <1>2, <1>3, <1>6
<1>. QED BY <1>4, <1>5, <1>6

\* Away from its place, the image of a particle is outside of the domain.
LEMMA ImageOutside ==
    ASSUME NEW q \in Particle, ExitsOf(q) = {},
           NEW d \in (-2 .. 2) \X (-2 .. 2) \X (-2 .. 2),
           particlePosToCell(Shifted(q.x, Offset(d))) \in Cells \ Halo
    PROVE  d = <<0, 0, 0>>
<1>. DEFINE y == Shifted(q.x, Offset(d))
            r == [x |-> y]
<1>1. \A a \in Axes : d[a] \in -2 .. 2
  BY AxesAre
<1>2. q.x \in Positions
  BY DEF Particle
<1>3. ASSUME NEW a \in Axes
      PROVE  y[a] = q.x[a] + d[a] * DomainSize[a] /\ y[a] \in Int
  <2>1. q.x[a] \in Int /\ DomainSize[a] \in Int /\ d[a] \in Int
    BY <1>1, <1>2, DomainSizeNat DEF Positions
  <2>. QED BY <2>1 DEF Shifted, Offset
<1>4. y \in Positions
  <2>1. y = [a \in Axes |-> y[a]]
    BY DEF Shifted
  <2>. HIDE DEF y
  <2>. QED BY <1>3, <2>1 DEF Positions
<1>5. r.x = y /\ r.x \in Positions /\ ExitsOf(r) = {}
  <2>1. r.x = y
    OBVIOUS
  <2>. HIDE DEF y, r
  <2>. QED BY <1>4, <2>1, InsideCells DEF y
<1>6. ASSUME NEW a \in Axes PROVE d[a] = 0
  <2>1. 0 <= y[a] /\ y[a] < DomainSize[a]
    <3>. HIDE DEF y, r
    <3>. QED BY <1>5, InsideFacts
  <2>2. q.x[a] \in Int /\ 0 <= q.x[a] /\ q.x[a] < DomainSize[a] /\ DomainSize[a] \in Nat
    BY <1>2, InsideFacts, DomainSizeNat
  <2>3. y[a] = q.x[a] + d[a] * DomainSize[a] /\ d[a] \in -2 .. 2
    BY <1>1, <1>3
  <2>. HIDE DEF y
  <2>. QED BY <2>1, <2>2, <2>3
<1>. QED BY <1>6, AxesAre

\* The images that are there as particles or ghosts.
LEMMA PeriodicImages ==
    /\ <<0, 0, 0>> \in Images
    /\ \A d \in Directions : d \in Images <=> IsPeriodic(d)
<1>1. <<0, 0, 0>> \in Images
  <2>1. \A a \in Axes : <<0, 0, 0>>[a] = 0
    BY AxesAre
  <2>2. <<0, 0, 0>> \in (-2 .. 2) \X (-2 .. 2) \X (-2 .. 2)
    OBVIOUS
  <2>. QED BY <2>1, <2>2 DEF Images
<1>2. ASSUME NEW d \in Directions PROVE d \in Images <=> IsPeriodic(d)
  <2>1. d \in (-2 .. 2) \X (-2 .. 2) \X (-2 .. 2)
    BY DEF Directions
  <2>2. \A a \in Axes : d[a] \in -1 .. 1
    BY DirectionFacts
  <2>3. ASSUME NEW a \in Axes, d[a] # 0
        PROVE  <<a, IF d[a] > 0 THEN "low" ELSE "high">> = SideOf(a, d[a])
    BY <2>2, <2>3 DEF SideOf
  <2>. QED BY <2>1, <2>3 DEF Images, IsPeriodic
<1>. QED BY <1>1, <1>2

\* Another particle than i, or an image of one or of i, acts on particle i.
ActsFrom(ps, i, j, d) ==
    <<j, d>> # <<i, <<0, 0, 0>>>> /\ Acts(ps[i], Shifted(ps[j].x, Offset(d)))

\* q is p, or one of its images.
IsCopy(q, p, d) == q.id = p.id /\ q.x = Shifted(p.x, Offset(d))

\* What happens in the loop, said of a list of particles and ghosts.
LEMMA FeltImages ==
    ASSUME Thick, NEW ps, Real(ps), NEW qs \in Seq(Particle), Ghosted(qs, ps, AllGhosts(ps)),
           \A j \in 1 .. Len(ps) : ExitsOf(ps[j]) = {}, NEW i \in 1 .. Len(ps)
    PROVE  /\ \A k \in 1 .. Len(qs) : k # i /\ Acts(ps[i], qs[k].x) =>
                \E j \in 1 .. Len(ps), d \in Images :
                   ActsFrom(ps, i, j, d) /\ IsCopy(qs[k], ps[j], d)
           /\ \A j \in 1 .. Len(ps), d \in Images :
                ActsFrom(ps, i, j, d) =>
                \E k \in 1 .. Len(qs) :
                   k # i /\ Acts(ps[i], qs[k].x) /\ IsCopy(qs[k], ps[j], d)
<1>1. /\ ps \in Seq(Particle) /\ Len(ps) \in Nat /\ Len(qs) \in Nat
      /\ \A j \in 1 .. Len(ps) : ps[j] \in Particle /\ ps[j].x \in Positions
  <2>1. ps \in Seq(Particle)
    BY DEF Real
  <2>2. \A j \in 1 .. Len(ps) : ps[j] \in Particle
    BY <2>1
  <2>. QED BY <2>1, <2>2 DEF Particle
<1>2. ASSUME NEW j, NEW d, <<j, d>> \in AllGhosts(ps)
      PROVE  d \in Directions /\ d \in Images /\ d # <<0, 0, 0>>
  <2>1. <<j, d>> \in Wanted(ps) /\ IsPeriodic(d)
    BY <1>2 DEF AllGhosts
  <2>2. d \in Directions
    BY <2>1 DEF Wanted
  <2>. QED BY <2>1, <2>2, PeriodicImages DEF Directions
<1>3. ASSUME NEW k \in 1 .. Len(qs), k # i, Acts(ps[i], qs[k].x)
      PROVE  \E j \in 1 .. Len(ps), d \in Images :
                ActsFrom(ps, i, j, d) /\ IsCopy(qs[k], ps[j], d)
  <2>1. PICK j, d : ComesFrom(qs, ps, k, j, d)
    BY OriginExists
  <2>2. /\ j \in 1 .. Len(ps) /\ qs[k].id = ps[j].id
        /\ qs[k].x = Shifted(ps[j].x, Offset(d))
        /\ IF k <= Len(ps) THEN j = k /\ d = <<0, 0, 0>> ELSE <<j, d>> \in AllGhosts(ps)
    BY <2>1, Zenon DEF ComesFrom
  <2>3. d \in Images /\ <<j, d>> # <<i, <<0, 0, 0>>>>
    <3>1. CASE k <= Len(ps)
      <4>1. j # i /\ d = <<0, 0, 0>>
        BY <1>3, <2>2, <3>1, Zenon
      <4>. QED BY <4>1, PeriodicImages
    <3>2. CASE ~(k <= Len(ps))
      <4>1. d \in Images /\ d # <<0, 0, 0>>
        BY <1>2, <2>2, <3>2, Zenon
      <4>. QED BY <4>1
    <3>. QED BY <3>1, <3>2
  <2>4. Acts(ps[i], Shifted(ps[j].x, Offset(d)))
    BY <1>3, <2>2, Zenon
  <2>. QED BY <2>2, <2>3, <2>4, Zenon DEF ActsFrom, IsCopy
<1>4. ASSUME NEW j \in 1 .. Len(ps), NEW d \in Images, ActsFrom(ps, i, j, d)
      PROVE  \E k \in 1 .. Len(qs) :
                k # i /\ Acts(ps[i], qs[k].x) /\ IsCopy(qs[k], ps[j], d)
  <2>. DEFINE p == ps[i]
              q == ps[j]
              y == Shifted(q.x, Offset(d))
  <2>1. /\ p.x \in Positions /\ ExitsOf(p) = {}
        /\ q \in Particle /\ q.x \in Positions /\ ExitsOf(q) = {}
    BY <1>1
  <2>2. d \in (-2 .. 2) \X (-2 .. 2) \X (-2 .. 2)
    BY DEF Images
  <2>3. d = <<0, 0, 0>> \/ <<j, d>> \in AllGhosts(ps)
    <3>1. CASE Distance2(p.x, y) <= Cutoff * Cutoff
      <4>1. /\ d \in (-1 .. 1) \X (-1 .. 1) \X (-1 .. 1)
            /\ d # <<0, 0, 0>> => particlePosToCell(q.x) \in GhostSources[d]
        <5>. HIDE DEF p, q
        <5>. QED BY <2>1, <2>2, <3>1, NearImage
      <4>2. CASE d # <<0, 0, 0>>
        <5>1. d \in Directions
          BY <4>1, <4>2 DEF Directions
        <5>2. <<j, d>> \in Wanted(ps)
          BY <4>1, <4>2, <5>1 DEF Wanted
        <5>3. IsPeriodic(d)
          BY <5>1, PeriodicImages
        <5>. QED BY <5>2, <5>3 DEF AllGhosts
      <4>. QED BY <4>2
    <3>2. CASE particlePosToCell(p.x) = particlePosToCell(y)
      <4>1. particlePosToCell(p.x) \in Cells \ Halo
        BY <2>1, InsideCells
      <4>. HIDE DEF p, q
      <4>. QED BY <2>1, <2>2, <3>2, <4>1, ImageOutside
    <3>. QED BY <1>4, <3>1, <3>2 DEF Acts, ActsFrom
  <2>4. PICK k \in 1 .. Len(qs) : ComesFrom(qs, ps, k, j, d)
    BY <2>3, OriginIsCopied
  <2>5. /\ IsCopy(qs[k], ps[j], d)
        /\ IF k <= Len(ps) THEN j = k /\ d = <<0, 0, 0>> ELSE <<j, d>> \in AllGhosts(ps)
    BY <2>4, Zenon DEF ComesFrom, IsCopy
  <2>6. k # i
    <3>1. CASE k <= Len(ps)
      BY <1>4, <2>5, <3>1, Zenon DEF ActsFrom
    <3>2. CASE ~(k <= Len(ps))
      BY <1>1, <3>2
    <3>. QED BY <3>1, <3>2
  <2>7. Acts(ps[i], qs[k].x)
    BY <1>4, <2>5, Zenon DEF ActsFrom, IsCopy
  <2>. QED BY <2>5, <2>6, <2>7
<1>. QED BY <1>3, <1>4

LEMMA ImagesFelt ==
    ASSUME Thick
    PROVE  Inv /\ GhostsExact => ImagesActOnce
<1>. SUFFICES ASSUME Inv, GhostsExact, pc = "forces", AllInside,
                     NEW i \in 1 .. original, ~particles[i].locked
              PROVE  LET felt == [j \in Partners(i) |-> <<particles[j].id, particles[j].x>>]
                     IN  IsInjective(felt) /\ Range(felt) = ImagesActingOn(i)
  BY DEF ImagesActOnce
<1>1. /\ particles \in Seq(Particle) /\ original \in Nat /\ original <= Len(particles)
      /\ Real(Kept) /\ Ghosted(particles, Kept, AllGhosts(Kept))
      /\ refs = ReferencesTo(particles, capacity)
  BY DEF Inv, GhostsExact, ReferencesExact
<1>2. Len(Kept) = original /\ \A j \in 1 .. original : Kept[j] = particles[j]
  BY <1>1 DEF Kept
<1>3. PICK ps : ps = Kept
  OBVIOUS
<1>4. PICK qs \in Seq(Particle) : qs = particles
  BY <1>1
<1>5. /\ Real(ps) /\ Ghosted(qs, ps, AllGhosts(ps))
      /\ i \in 1 .. Len(ps) /\ ps[i] = qs[i] /\ ~ps[i].locked
      /\ \A j \in 1 .. Len(ps) : qs[j] = ps[j] /\ ExitsOf(ps[j]) = {}
      /\ Len(ps) = original /\ Len(ps) <= Len(qs) /\ Len(ps) \in Nat /\ Len(qs) \in Nat
  <2>1. Len(ps) = original /\ Real(ps) /\ Ghosted(qs, ps, AllGhosts(ps))
    BY <1>1, <1>2, <1>3, <1>4
  <2>2. \A j \in 1 .. original : ps[j] = particles[j] /\ qs[j] = particles[j]
    BY <1>2, <1>3, <1>4
  <2>3. \A j \in 1 .. original : ExitsOf(particles[j]) = {}
    BY DEF AllInside
  <2>4. i \in 1 .. Len(ps) /\ ps[i] = qs[i] /\ ~ps[i].locked
    BY <2>1, <2>2
  <2>5. \A j \in 1 .. Len(ps) : qs[j] = ps[j] /\ ExitsOf(ps[j]) = {}
    BY <2>1, <2>2, <2>3
  <2>6. Len(ps) <= Len(qs) /\ Len(ps) \in Nat /\ Len(qs) \in Nat
    BY <1>1, <1>4, <2>1
  <2>. QED BY <2>1, <2>4, <2>5, <2>6
<1>6. \A k \in 1 .. Len(qs) : qs[k].x \in Positions
  <2>1. \A k \in 1 .. Len(qs) : qs[k] \in Particle
    OBVIOUS
  <2>. QED BY <2>1 DEF Particle
<1>7. \A k : k \in Partners(i) <=>
               k \in 1 .. Len(qs) /\ k # i /\ Acts(ps[i], qs[k].x)
  <2>. DEFINE cell(k) == particlePosToCell(qs[k].x)
  <2>1. DOMAIN particles = 1 .. Len(qs) /\ \A k \in 1 .. Len(qs) : refs[k].cell = cell(k)
    BY <1>1, <1>4, ReferenceFacts
  <2>2. i \in 1 .. Len(qs)
    BY <1>5
  <2>3. ASSUME NEW k
        PROVE  k \in Partners(i) <=>
                 /\ k \in 1 .. Len(qs) /\ k # i
                 /\ \/ cell(k) = cell(i)
                    \/ cell(k) \in Neighbours(cell(i)) /\ Distance2(qs[i].x, qs[k].x) <= Cutoff * Cutoff
    <3>. HIDE DEF cell
    <3>. QED BY <1>4, <1>5, <2>1, <2>2 DEF Partners
  <2>4. ASSUME NEW k \in 1 .. Len(qs), Distance2(qs[i].x, qs[k].x) <= Cutoff * Cutoff
        PROVE  cell(k) = cell(i) \/ cell(k) \in Neighbours(cell(i))
    <3>1. PICK p : p = qs[i]
      OBVIOUS
    <3>2. p.x \in Positions /\ ExitsOf(p) = {} /\ qs[k].x \in Positions
      BY <1>5, <1>6, <2>2, <3>1
    <3>. QED BY <2>4, <3>1, <3>2, NearIsNeighbour
  <2>. HIDE DEF cell
  <2>. QED BY <1>5, <2>3, <2>4 DEF Acts, cell
<1>8. \A v : v \in ImagesActingOn(i) <=>
               \E j \in 1 .. Len(ps), d \in Images :
                  ActsFrom(ps, i, j, d) /\ v = <<ps[j].id, Shifted(ps[j].x, Offset(d))>>
  <2>. SUFFICES ASSUME NEW v PROVE v \in ImagesActingOn(i) <=>
               \E j \in 1 .. Len(ps), d \in Images :
                  ActsFrom(ps, i, j, d) /\ v = <<ps[j].id, Shifted(ps[j].x, Offset(d))>>
    OBVIOUS
  <2>1. ImagesActingOn(i) =
          {<<particles[jd[1]].id, Shifted(particles[jd[1]].x, Offset(jd[2]))>> :
             jd \in {e \in (1 .. original) \X Images :
                       e # <<i, <<0, 0, 0>>>> /\ Acts(particles[i], Shifted(particles[e[1]].x, Offset(e[2])))}}
    BY Zenon DEF ImagesActingOn, Acts
  <2>2. ASSUME NEW j \in 1 .. Len(ps), NEW d \in Images, ActsFrom(ps, i, j, d),
               v = <<ps[j].id, Shifted(ps[j].x, Offset(d))>>
        PROVE  v \in ImagesActingOn(i)
    <3>1. ps[i] = particles[i] /\ ps[j] = particles[j]
      BY <1>4, <1>5
    <3>2. <<j, d>> \in (1 .. original) \X Images
      BY <1>5
    <3>3. <<j, d>>[1] = j /\ <<j, d>>[2] = d
      OBVIOUS
    <3>4. <<j, d>> \in {e \in (1 .. original) \X Images :
                          e # <<i, <<0, 0, 0>>>> /\ Acts(particles[i], Shifted(particles[e[1]].x, Offset(e[2])))}
      BY <2>2, <3>1, <3>2, <3>3, Zenon DEF ActsFrom
    <3>. QED BY <2>1, <2>2, <3>1, <3>3, <3>4, Zenon
  <2>3. ASSUME v \in ImagesActingOn(i)
        PROVE  \E j \in 1 .. Len(ps), d \in Images :
                  ActsFrom(ps, i, j, d) /\ v = <<ps[j].id, Shifted(ps[j].x, Offset(d))>>
    <3>1. PICK e \in (1 .. original) \X Images :
            /\ e # <<i, <<0, 0, 0>>>> /\ Acts(particles[i], Shifted(particles[e[1]].x, Offset(e[2])))
            /\ v = <<particles[e[1]].id, Shifted(particles[e[1]].x, Offset(e[2]))>>
      BY <2>1, <2>3, Zenon
    <3>2. e = <<e[1], e[2]>> /\ e[1] \in 1 .. Len(ps) /\ e[2] \in Images
      BY <1>5
    <3>3. ps[i] = particles[i] /\ ps[e[1]] = particles[e[1]]
      BY <1>4, <1>5, <3>2
    <3>. QED BY <3>1, <3>2, <3>3, Zenon DEF ActsFrom
  <2>. QED BY <2>2, <2>3, Zenon
<1>. DEFINE felt == [j \in Partners(i) |-> <<particles[j].id, particles[j].x>>]
<1>9. /\ DOMAIN felt = Partners(i)
      /\ \A k \in Partners(i) : felt[k] = <<qs[k].id, qs[k].x>>
  BY <1>4
<1>10. IsInjective(felt)
  <2>1. ASSUME NEW k \in Partners(i), NEW l \in Partners(i), felt[k] = felt[l] PROVE k = l
    <3>1. qs[k].id = qs[l].id /\ qs[k].x = qs[l].x
      BY <1>9, <2>1
    <3>2. k \in 1 .. Len(qs) /\ l \in 1 .. Len(qs)
      BY <1>7
    <3>. QED BY <1>5, <3>1, <3>2, NoneTwice
  <2>. HIDE DEF felt
  <2>. QED BY <1>9, <2>1, Zenon DEF IsInjective
<1>11. \A v : v \in Range(felt) <=> \E k \in Partners(i) : v = <<qs[k].id, qs[k].x>>
  <2>. HIDE DEF felt
  <2>. QED BY <1>9 DEF Range
<1>12. ASSUME NEW v, v \in Range(felt) PROVE v \in ImagesActingOn(i)
  <2>1. PICK k \in Partners(i) : v = <<qs[k].id, qs[k].x>>
    BY <1>11, <1>12
  <2>2. k \in 1 .. Len(qs) /\ k # i /\ Acts(ps[i], qs[k].x)
    BY <1>7, Zenon
  <2>. HIDE DEF felt
  <2>3. PICK j \in 1 .. Len(ps), d \in Images :
             ActsFrom(ps, i, j, d) /\ IsCopy(qs[k], ps[j], d)
    <3>1. \A m \in 1 .. Len(qs) : m # i /\ Acts(ps[i], qs[m].x) =>
            \E j \in 1 .. Len(ps), d \in Images :
               ActsFrom(ps, i, j, d) /\ IsCopy(qs[m], ps[j], d)
      BY <1>5, FeltImages
    <3>. QED BY <2>2, <3>1, Zenon
  <2>4. v = <<ps[j].id, Shifted(ps[j].x, Offset(d))>>
    BY <2>1, <2>3, Zenon DEF IsCopy
  <2>. QED BY <1>8, <2>3, <2>4
<1>13. ASSUME NEW v, v \in ImagesActingOn(i) PROVE v \in Range(felt)
  <2>1. PICK j \in 1 .. Len(ps), d \in Images :
             ActsFrom(ps, i, j, d) /\ v = <<ps[j].id, Shifted(ps[j].x, Offset(d))>>
    BY <1>8, <1>13
  <2>2. PICK k \in 1 .. Len(qs) :
             k # i /\ Acts(ps[i], qs[k].x) /\ IsCopy(qs[k], ps[j], d)
    BY <1>5, <2>1, FeltImages
  <2>3. k \in Partners(i) /\ v = <<qs[k].id, qs[k].x>>
    BY <1>7, <2>1, <2>2 DEF IsCopy
  <2>. QED BY <1>11, <2>3
<1>14. Range(felt) = ImagesActingOn(i)
  <2>. HIDE DEF felt
  <2>. QED BY <1>12, <1>13
<1>. QED BY <1>10, <1>14

\* If no axis of the domain is shorter than the cutoff radius, every unlocked
\* particle feels every image within the cutoff radius exactly once, and no other:
\* the copies of the boundary cells and the adjacent cells hold all of them.
THEOREM EveryImageActsOnce ==
    ASSUME \A a \in Axes : Cutoff <= DomainSize[a]
    PROVE  Spec => []ImagesActOnce
<1>1. Thick
  BY DEF Thick
<1>2. Inv /\ GhostsExact => ImagesActOnce
  BY <1>1, ImagesFelt
<1>. QED BY <1>2, InvAlways, GhostsExactAlways, PTL

=============================================================================
