------------------------------ MODULE RankingProofs ------------------------------
(***************************************************************************)
(* What the places in a finite set are worth: in a strict total order they *)
(* are the numbers below the cardinality, each of them is taken once, and  *)
(* by them the set is a sequence in the order.  The order is a set R of    *)
(* pairs.                                                                  *)
(***************************************************************************)
EXTENDS Ranking, FiniteSetTheorems, TLAPS

TotalOn(R, S) ==
  /\ \A x \in S : <<x, x>> \notin R
  /\ \A x, y, z \in S : <<x, y>> \in R /\ <<y, z>> \in R => <<x, z>> \in R
  /\ \A x, y \in S : x # y => <<x, y>> \in R \/ <<y, x>> \in R

Earlier(R, S, x) == { y \in S : <<y, x>> \in R }
Rank(R, S, x) == Cardinality(Earlier(R, S, x))

LEMMA RankBounded ==
  ASSUME NEW S, IsFiniteSet(S), NEW R, TotalOn(R, S), NEW x \in S
  PROVE  /\ IsFiniteSet(Earlier(R, S, x))
         /\ Rank(R, S, x) \in 0..(Cardinality(S) - 1)
  <1>1. Earlier(R, S, x) \in SUBSET S /\ x \notin Earlier(R, S, x)
    BY DEF Earlier, TotalOn
  <1>2. IsFiniteSet(Earlier(R, S, x)) /\ Rank(R, S, x) <= Cardinality(S)
    BY <1>1, FS_Subset DEF Rank
  <1>3. Rank(R, S, x) # Cardinality(S)
    BY <1>1, FS_Subset DEF Rank
  <1>4. Rank(R, S, x) \in Nat /\ Cardinality(S) \in Nat
    BY <1>2, FS_CardinalityType DEF Rank
  <1>5. QED BY <1>2, <1>3, <1>4

LEMMA RankGrows ==
  ASSUME NEW S, IsFiniteSet(S), NEW R, TotalOn(R, S),
         NEW x \in S, NEW y \in S, <<x, y>> \in R
  PROVE  Rank(R, S, x) < Rank(R, S, y)
  <1>1. Earlier(R, S, x) \in SUBSET Earlier(R, S, y)
    BY DEF Earlier, TotalOn
  <1>2. x \in Earlier(R, S, y) /\ x \notin Earlier(R, S, x)
    BY DEF Earlier, TotalOn
  <1>3. IsFiniteSet(Earlier(R, S, y))
    BY RankBounded
  <1>4. Rank(R, S, x) <= Rank(R, S, y) /\ Rank(R, S, x) # Rank(R, S, y)
    BY <1>1, <1>2, <1>3, FS_Subset DEF Rank
  <1>5. Rank(R, S, x) \in Nat /\ Rank(R, S, y) \in Nat
    BY RankBounded
  <1>6. QED BY <1>4, <1>5

\* Every place is taken: the places are as many as the members, and no two members
\* have the same.
LEMMA RankTaken ==
  ASSUME NEW S, IsFiniteSet(S), NEW R, TotalOn(R, S),
         NEW k \in 0..(Cardinality(S) - 1)
  PROVE  \E x \in S : Rank(R, S, x) = k
  <1> DEFINE n == Cardinality(S)
             T == 0..(n - 1)
             f == [x \in S |-> Rank(R, S, x)]
  <1>1. n \in Nat
    BY FS_CardinalityType
  <1>2. f \in [S -> T]
    BY RankBounded
  <1>3. \A x, y \in S : f[x] = f[y] => x = y
    <2> SUFFICES ASSUME NEW x \in S, NEW y \in S, x # y PROVE f[x] # f[y]
      OBVIOUS
    <2>1. <<x, y>> \in R \/ <<y, x>> \in R
      BY DEF TotalOn
    <2>2. Rank(R, S, x) < Rank(R, S, y) \/ Rank(R, S, y) < Rank(R, S, x)
      BY <2>1, RankGrows
    <2>3. Rank(R, S, x) \in Nat /\ Rank(R, S, y) \in Nat
      BY RankBounded
    <2>4. QED BY <2>2, <2>3
  <1>4. IsFiniteSet(T) /\ Cardinality(T) = n
    <2>1. 0 \in Int /\ n - 1 \in Int
      BY <1>1
    <2>2. Cardinality(0..(n - 1)) = IF 0 > n - 1 THEN 0 ELSE (n - 1) - 0 + 1
      BY <2>1, FS_Interval
    <2>3. IsFiniteSet(0..(n - 1))
      BY <2>1, FS_Interval
    <2> HIDE DEF n
    <2>4. QED BY <1>1, <2>2, <2>3
  <1> HIDE DEF n, T
  <1>5. f \in Injection(S, T)
    BY <1>2, <1>3 DEF Injection, IsInjective
  <1>6. f \in Surjection(S, T)
    BY <1>4, <1>5, FS_Injection DEF n
  <1>7. \E x \in S : f[x] = k
    BY <1>6 DEF Surjection, T, n
  <1>8. QED BY <1>7

\* A sequence of members by their places: every member has its index, and the
\* indices are in the order.
LEMMA SortedByRank ==
  ASSUME NEW S, IsFiniteSet(S), NEW R, TotalOn(R, S), NEW s,
         \A i \in 1..Cardinality(S) : s[i] \in S /\ Rank(R, S, s[i]) = i - 1
  PROVE  /\ \A x \in S : \E i \in 1..Cardinality(S) : s[i] = x
         /\ \A i, j \in 1..Cardinality(S) : i < j => <<s[i], s[j]>> \in R
  <1>0. Cardinality(S) \in Nat
    BY FS_CardinalityType
  <1>1. \A i \in 1..Cardinality(S) : s[i] \in S /\ Rank(R, S, s[i]) = i - 1
    OBVIOUS
  <1>2. ASSUME NEW i \in 1..Cardinality(S), NEW j \in 1..Cardinality(S), i < j
        PROVE  <<s[i], s[j]>> \in R
    <2>1. Rank(R, S, s[i]) = i - 1 /\ Rank(R, S, s[j]) = j - 1 /\ s[i] \in S /\ s[j] \in S
      BY <1>1
    <2>2. s[i] # s[j]
      BY <1>0, <1>2, <2>1
    <2>3. ~ (<<s[j], s[i]>> \in R)
      <3> SUFFICES ASSUME <<s[j], s[i]>> \in R PROVE FALSE
        OBVIOUS
      <3>1. Rank(R, S, s[j]) < Rank(R, S, s[i])
        BY <2>1, RankGrows
      <3>2. QED BY <1>0, <1>2, <2>1, <3>1
    <2>4. QED BY <2>1, <2>2, <2>3 DEF TotalOn
  <1>3. ASSUME NEW x \in S PROVE \E i \in 1..Cardinality(S) : s[i] = x
    <2> DEFINE i == Rank(R, S, x) + 1
    <2>1. i \in 1..Cardinality(S) /\ i - 1 = Rank(R, S, x)
      BY <1>0, RankBounded
    <2> HIDE DEF i
    <2>2. s[i] \in S /\ Rank(R, S, s[i]) = Rank(R, S, x)
      BY <1>1, <2>1
    <2>3. s[i] = x
      <3> SUFFICES ASSUME s[i] # x PROVE FALSE
        OBVIOUS
      <3>1. <<s[i], x>> \in R \/ <<x, s[i]>> \in R
        BY <2>2 DEF TotalOn
      <3>2. Rank(R, S, s[i]) < Rank(R, S, x) \/ Rank(R, S, x) < Rank(R, S, s[i])
        BY <2>2, <3>1, RankGrows
      <3>3. Rank(R, S, x) \in Nat
        BY RankBounded
      <3>4. QED BY <2>2, <3>2, <3>3
    <2>4. QED BY <2>1, <2>3
  <1>4. QED BY <1>2, <1>3

================================================================================
