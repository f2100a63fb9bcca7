-------------------------- MODULE SelectionProofs --------------------------
(***************************************************************************)
(* What filtering, joining, appending and cutting keep of a sequence: its  *)
(* elements, and that each is there once.  What the proofs of the tab need *)
(* of the uploader's list and queue, of the history of undo and of the Esc *)
(* ladder.                                                                 *)
(***************************************************************************)
EXTENDS Selections, SequencesExt, FiniteSetTheorems, SequenceTheorems, TLAPS

\* A finite set of numbers in order is all of it, each number once.
LEMMA InOrderIsAll ==
    ASSUME NEW some \in SUBSET Nat, IsFiniteSet(some)
    PROVE  /\ Cardinality(some) \in Nat
           /\ InOrder[some] \in [1..Cardinality(some) -> some]
           /\ \A k, l \in 1..Cardinality(some) : InOrder[some][k] = InOrder[some][l] => k = l
           /\ \A i \in some : \E k \in 1..Cardinality(some) : InOrder[some][k] = i
           /\ \A k, l \in 1..Cardinality(some) : k < l => InOrder[some][k] < InOrder[some][l]
  <1> DEFINE n == Cardinality(some)
             upTo(i) == {j \in some : j <= i}
             rank == [i \in some |-> Cardinality(upTo(i))]
             nth(k) == CHOOSE i \in some : Cardinality({j \in some : j <= i}) = k
  <1>1. n \in Nat
    BY FS_CardinalityType
  <1>2. ASSUME NEW i \in some
        PROVE  IsFiniteSet(upTo(i)) /\ Cardinality(upTo(i)) \in 1..n
    <2>1. upTo(i) \in SUBSET some /\ i \in upTo(i)
      OBVIOUS
    <2>2. IsFiniteSet(upTo(i)) /\ Cardinality(upTo(i)) <= n /\ Cardinality(upTo(i)) \in Nat
      BY <2>1, FS_Subset, FS_CardinalityType
    <2>3. Cardinality(upTo(i)) # 0
      BY <2>1, <2>2, FS_EmptySet
    <2> QED
      BY <2>2, <2>3, <1>1
  <1>3. ASSUME NEW i \in some, NEW j \in some, i < j
        PROVE  Cardinality(upTo(i)) # Cardinality(upTo(j))
    <2>1. i \in Nat /\ j \in Nat
      OBVIOUS
    <2>2. \A k \in some : k \in Nat /\ (k <= i => k <= j)
      BY <1>3, <2>1
    <2>3. upTo(i) \in SUBSET upTo(j)
      BY <2>2
    <2>4. j \in upTo(j) /\ j \notin upTo(i)
      BY <1>3, <2>1
    <2> QED
      BY <2>3, <2>4, <1>2, FS_Subset
  <1>4. rank \in Injection(some, 1..n)
    <2>1. rank \in [some -> 1..n]
      BY <1>2
    <2>2. ASSUME NEW i \in some, NEW j \in some, rank[i] = rank[j]
          PROVE  i = j
      <3>1. i \in Nat /\ j \in Nat
        OBVIOUS
      <3>2. ~(i < j) /\ ~(j < i)
        BY <1>3, <2>2
      <3> QED
        BY <3>1, <3>2
    <2> HIDE DEF rank
    <2> QED
      BY <2>1, <2>2 DEF Injection, IsInjective
  <1>5. IsFiniteSet(1..n) /\ Cardinality(1..n) = n
    BY <1>1, FS_Interval
  <1>6. rank \in Surjection(some, 1..n)
    <2> HIDE DEF rank
    <2> QED
      BY <1>4, <1>5, FS_Injection
  <1>7. ASSUME NEW k \in 1..n
        PROVE  \E i \in some : Cardinality({j \in some : j <= i}) = k
    <2>1. \E i \in some : rank[i] = k
      <3> HIDE DEF rank
      <3> QED
        BY <1>6 DEF Surjection
    <2> QED
      BY <2>1
  <1>8. ASSUME NEW k \in 1..n
        PROVE  nth(k) \in some /\ Cardinality(upTo(nth(k))) = k
    BY <1>7, <1>8
  <1>9. InOrder[some] = [k \in 1..n |-> nth(k)]
    BY DEF InOrder
  <1>10. ASSUME NEW i \in some
         PROVE  nth(Cardinality(upTo(i))) = i
    <2> DEFINE k == Cardinality(upTo(i))
    <2>1. k \in 1..n
      BY <1>2
    <2>2. nth(k) \in some /\ Cardinality(upTo(nth(k))) = k
      BY <1>8, <2>1
    <2>3. nth(k) \in Nat /\ i \in Nat
      BY <2>2
    <2>4. ~(nth(k) < i) /\ ~(i < nth(k))
      BY <1>3, <2>2
    <2> QED
      BY <2>3, <2>4
  <1> HIDE DEF nth
  <1>11. InOrder[some] \in [1..n -> some]
    BY <1>8, <1>9
  <1>12. \A k, l \in 1..n : InOrder[some][k] = InOrder[some][l] => k = l
    BY <1>8, <1>9
  <1>13. \A i \in some : \E k \in 1..n : InOrder[some][k] = i
    BY <1>2, <1>9, <1>10
  <1>14. ASSUME NEW k \in 1..n, NEW l \in 1..n, k < l, ~(nth(k) < nth(l))
         PROVE  FALSE
    <2>1. /\ nth(k) \in some /\ Cardinality(upTo(nth(k))) = k
          /\ nth(l) \in some /\ Cardinality(upTo(nth(l))) = l
      BY <1>8
    <2>2. /\ nth(k) \in Nat /\ nth(l) \in Nat /\ nth(l) <= nth(k)
          /\ \A i \in some : i \in Nat /\ (i <= nth(l) => i <= nth(k))
      <3>1. \A i \in some : i \in Nat
        OBVIOUS
      <3>2. nth(k) \in Nat /\ nth(l) \in Nat
        BY <2>1, <3>1
      <3> QED
        BY <3>1, <3>2, <1>14
    <2>3. upTo(nth(l)) \in SUBSET upTo(nth(k)) /\ IsFiniteSet(upTo(nth(k)))
      BY <2>1, <2>2, <1>2
    <2>4. Cardinality(upTo(nth(l))) <= Cardinality(upTo(nth(k)))
      BY <2>3, FS_Subset
    <2> QED
      BY <2>1, <2>4, <1>14
  <1> QED
    BY <1>1, <1>9, <1>11, <1>12, <1>13, <1>14

\* Numbers have a least one, finitely many a greatest one too.
LEMMA LeastAndGreatest ==
    ASSUME NEW some \in SUBSET Nat, IsFiniteSet(some), some # {}
    PROVE  /\ \E least \in some : \A i \in some : least <= i
           /\ \E greatest \in some : \A i \in some : i <= greatest
  <1> DEFINE n == Cardinality(some)
             nth == InOrder[some]
  <1>1. /\ n \in Nat /\ nth \in [1..n -> some]
        /\ \A i \in some : \E k \in 1..n : nth[k] = i
        /\ \A k, l \in 1..n : k < l => nth[k] < nth[l]
    BY InOrderIsAll
  <1> HIDE DEF n, nth
  <1>2. 1 \in 1..n /\ n \in 1..n
    <2>1. PICK i \in some : TRUE
      OBVIOUS
    <2>2. PICK k \in 1..n : nth[k] = i
      BY <1>1
    <2> QED
      BY <1>1, <2>2
  <1>3. \A k \in 1..n : k \in Nat /\ nth[k] \in Nat
    <2>1. nth \in [1..n -> Nat]
      BY <1>1
    <2> QED
      BY <2>1, <1>1
  <1>4. ASSUME NEW i \in some
        PROVE  nth[1] <= i /\ i <= nth[n]
    <2>1. PICK k \in 1..n : nth[k] = i
      BY <1>1
    <2>2. (k = 1 \/ 1 < k) /\ (k = n \/ k < n)
      BY <1>1, <1>2
    <2> QED
      BY <1>1, <1>2, <1>3, <2>1, <2>2
  <1> QED
    BY <1>1, <1>2, <1>4

\* What holds of 0 and of the next after each, holds up to any number.
LEMMA StepByStep ==
    ASSUME NEW n \in Nat, NEW holds \in SUBSET Nat, 0 \in holds,
           \A i \in 0..n : i \in holds /\ i < n => i + 1 \in holds
    PROVE  n \in holds
  <1> DEFINE open == {i \in 0..n : i \notin holds}
  <1> SUFFICES ASSUME n \notin holds PROVE FALSE
    OBVIOUS
  <1>1. open \in SUBSET Nat /\ IsFiniteSet(open) /\ open # {}
    <2>1. IsFiniteSet(0..n)
      BY FS_Interval
    <2>2. open \in SUBSET (0..n) /\ n \in open
      OBVIOUS
    <2> QED
      BY <2>1, <2>2, FS_Subset
  <1>2. PICK first \in open : \A i \in open : first <= i
    BY <1>1, LeastAndGreatest
  <1>3. first \in 0..n /\ first # 0 /\ first \notin holds
    BY <1>2
  <1>4. first - 1 \in 0..n /\ first - 1 < n /\ first - 1 \notin open
    BY <1>2, <1>3
  <1>5. first - 1 \in holds
    BY <1>4
  <1>6. (first - 1) + 1 \in holds
    BY <1>4, <1>5
  <1> QED
    BY <1>3, <1>6

\* Filtering keeps what is in the set and nothing else, and what was there once is there once.
LEMMA ThoseAreTheOnes ==
    ASSUME NEW S, NEW s \in Seq(S), NEW set
    PROVE  /\ Those(s, set) \in Seq(S \cap set)
           /\ ToSet(Those(s, set)) = ToSet(s) \cap set
           /\ IsInjective(s) => IsInjective(Those(s, set))
  <1> DEFINE kept == {i \in DOMAIN s : s[i] \in set}
             n == Cardinality(kept)
  <1>1. Len(s) \in Nat /\ DOMAIN s = 1..Len(s) /\ \A i \in DOMAIN s : s[i] \in S
    OBVIOUS
  <1>2. kept \in SUBSET (1..Len(s)) /\ kept \in SUBSET Nat
    BY <1>1
  <1>3. IsFiniteSet(kept)
    <2>1. IsFiniteSet(1..Len(s))
      BY <1>1, FS_Interval
    <2> HIDE DEF kept
    <2> QED
      BY <1>2, <2>1, FS_Subset
  <1>4. /\ n \in Nat
        /\ InOrder[kept] \in [1..n -> kept]
        /\ \A k, l \in 1..n : InOrder[kept][k] = InOrder[kept][l] => k = l
        /\ \A i \in kept : \E k \in 1..n : InOrder[kept][k] = i
    <2> HIDE DEF kept
    <2> QED
      BY <1>2, <1>3, InOrderIsAll
  <1>5. Those(s, set) = [k \in 1..n |-> s[InOrder[kept][k]]]
    <2>1. DOMAIN InOrder[kept] = 1..n
      BY <1>4
    <2> QED
      BY <2>1 DEF Those
  <1> DEFINE at == InOrder[kept]
             those == [k \in 1..n |-> s[at[k]]]
  <1>6. \A k \in 1..n : at[k] \in DOMAIN s /\ s[at[k]] \in set
    BY <1>4
  <1>7. those \in Seq(S \cap set)
    <2>1. \A k \in 1..n : s[at[k]] \in S \cap set
      BY <1>1, <1>6
    <2>2. those \in [1..n -> S \cap set]
      <3> HIDE DEF n, at
      <3> QED
        BY <2>1
    <2> HIDE DEF those
    <2> QED
      BY <2>2, <1>4, SeqDef
  <1>8. ToSet(those) = ToSet(s) \cap set
    <2>1. ASSUME NEW x \in ToSet(s) \cap set
          PROVE  x \in ToSet(those)
      <3>1. PICK i \in DOMAIN s : s[i] = x
        BY DEF ToSet
      <3>2. PICK k \in 1..n : at[k] = i
        BY <3>1, <1>4
      <3> QED
        BY <3>1, <3>2 DEF ToSet
    <2>2. ASSUME NEW x \in ToSet(those)
          PROVE  x \in ToSet(s) \cap set
      <3>1. PICK k \in 1..n : x = s[at[k]]
        BY DEF ToSet
      <3> QED
        BY <3>1, <1>6 DEF ToSet
    <2> QED
      BY <2>1, <2>2
  <1>9. IsInjective(s) => IsInjective(those)
    <2>1. ASSUME IsInjective(s), NEW k \in 1..n, NEW l \in 1..n, s[at[k]] = s[at[l]]
          PROVE  k = l
      <3>1. at[k] = at[l]
        BY <1>6, <2>1 DEF IsInjective
      <3> QED
        BY <1>4, <3>1
    <2>2. DOMAIN those = 1..n /\ \A k \in 1..n : those[k] = s[at[k]]
      OBVIOUS
    <2> HIDE DEF those, n, at
    <2> QED
      BY <2>1, <2>2 DEF IsInjective
  <1> QED
    BY <1>5, <1>7, <1>8, <1>9

\* Filtering keeps the order.
LEMMA ThoseKeepOrder ==
    ASSUME NEW S, NEW s \in Seq(S), NEW set
    PROVE  \A k, l \in DOMAIN Those(s, set) : k < l =>
             \E i, j \in DOMAIN s : i < j /\ s[i] = Those(s, set)[k] /\ s[j] = Those(s, set)[l]
  <1> DEFINE kept == {i \in DOMAIN s : s[i] \in set}
             n == Cardinality(kept)
  <1>1. Len(s) \in Nat /\ DOMAIN s = 1..Len(s)
    OBVIOUS
  <1>2. kept \in SUBSET (1..Len(s)) /\ kept \in SUBSET Nat
    BY <1>1
  <1>3. IsFiniteSet(kept)
    <2>1. IsFiniteSet(1..Len(s))
      BY <1>1, FS_Interval
    <2> HIDE DEF kept
    <2> QED
      BY <1>2, <2>1, FS_Subset
  <1>4. /\ InOrder[kept] \in [1..n -> kept]
        /\ \A k, l \in 1..n : k < l => InOrder[kept][k] < InOrder[kept][l]
    <2> HIDE DEF kept
    <2> QED
      BY <1>2, <1>3, InOrderIsAll
  <1>5. Those(s, set) = [k \in 1..n |-> s[InOrder[kept][k]]]
    <2>1. DOMAIN InOrder[kept] = 1..n
      BY <1>4
    <2> QED
      BY <2>1 DEF Those
  <1> DEFINE those == Those(s, set)
  <1>6. DOMAIN those = 1..n /\ \A k \in 1..n : those[k] = s[InOrder[kept][k]] /\ InOrder[kept][k] \in DOMAIN s
    BY <1>4, <1>5
  <1> HIDE DEF those, n, kept
  <1>7. ASSUME NEW k \in DOMAIN those, NEW l \in DOMAIN those, k < l
        PROVE  \E i, j \in DOMAIN s : i < j /\ s[i] = those[k] /\ s[j] = those[l]
    <2>1. InOrder[kept][k] < InOrder[kept][l]
      BY <1>4, <1>6, <1>7
    <2> QED
      BY <2>1, <1>6
  <1> QED
    BY <1>7 DEF those

\* A list that names each of its elements once has as many places as elements.
LEMMA PlacesAreElements ==
    ASSUME NEW S, NEW s \in Seq(S)
    PROVE  /\ ToSet(s) \subseteq S /\ IsFiniteSet(ToSet(s)) /\ Cardinality(ToSet(s)) \in Nat
           /\ IsInjective(s) => Cardinality(ToSet(s)) = Len(s)
  <1>1. Len(s) \in Nat /\ DOMAIN s = 1..Len(s) /\ \A i \in DOMAIN s : s[i] \in S
    OBVIOUS
  <1>2. ToSet(s) \subseteq S
    BY <1>1 DEF ToSet
  <1>3. s \in Surjection(1..Len(s), ToSet(s))
    <2>1. s \in [1..Len(s) -> ToSet(s)]
      <3>1. s \in [1..Len(s) -> S]
        BY LenProperties
      <3>2. \A i \in 1..Len(s) : s[i] \in ToSet(s)
        BY <1>1 DEF ToSet
      <3> QED
        BY <3>1, <3>2
    <2> QED
      BY <2>1, <1>1 DEF Surjection, ToSet
  <1>4. IsFiniteSet(1..Len(s)) /\ Cardinality(1..Len(s)) = Len(s)
    BY <1>1, FS_Interval
  <1>5. IsFiniteSet(ToSet(s)) /\ (Cardinality(ToSet(s)) = Len(s) <=> s \in Injection(1..Len(s), ToSet(s)))
    BY <1>3, <1>4, FS_Surjection
  <1>6. IsInjective(s) => s \in Injection(1..Len(s), ToSet(s))
    BY <1>3 DEF Injection, Surjection
  <1> QED
    BY <1>2, <1>5, <1>6, FS_CardinalityType

\* One after the other, two sequences have the elements of both.
LEMMA ElementsOfJoined ==
    ASSUME NEW S, NEW s \in Seq(S), NEW t \in Seq(S)
    PROVE  s \o t \in Seq(S) /\ ToSet(s \o t) = ToSet(s) \cup ToSet(t)
  <1>1. /\ Len(s) \in Nat /\ DOMAIN s = 1..Len(s) /\ Len(t) \in Nat /\ DOMAIN t = 1..Len(t)
        /\ s \o t \in Seq(S) /\ DOMAIN (s \o t) = 1..(Len(s) + Len(t))
    OBVIOUS
  <1>2. \A i \in 1..Len(s) : (s \o t)[i] = s[i]
    OBVIOUS
  <1>3. \A i \in 1..Len(t) : (s \o t)[Len(s) + i] = t[i] /\ Len(s) + i \in 1..(Len(s) + Len(t))
    OBVIOUS
  <1>4. \A i \in 1..(Len(s) + Len(t)) :
           i \in 1..Len(s) \/ (i - Len(s) \in 1..Len(t) /\ (s \o t)[i] = t[i - Len(s)])
    OBVIOUS
  <1>5. ToSet(s \o t) \subseteq ToSet(s) \cup ToSet(t)
    BY <1>1, <1>2, <1>4 DEF ToSet
  <1>6. ToSet(s) \cup ToSet(t) \subseteq ToSet(s \o t)
    <2>1. 1..Len(s) \subseteq 1..(Len(s) + Len(t))
      BY <1>1
    <2> QED
      BY <2>1, <1>1, <1>2, <1>3 DEF ToSet
  <1> QED
    BY <1>1, <1>5, <1>6

\* Appended, an element is one more, and there once if it was not there before.
LEMMA ElementsOfAppended ==
    ASSUME NEW S, NEW s \in Seq(S), NEW x \in S
    PROVE  /\ Append(s, x) \in Seq(S) /\ ToSet(Append(s, x)) = ToSet(s) \cup {x}
           /\ IsInjective(s) /\ x \notin ToSet(s) => IsInjective(Append(s, x))
  <1>1. /\ Len(s) \in Nat /\ DOMAIN s = 1..Len(s) /\ DOMAIN Append(s, x) = 1..(Len(s) + 1)
        /\ Append(s, x) \in Seq(S)
        /\ \A i \in 1..Len(s) : Append(s, x)[i] = s[i]
        /\ Append(s, x)[Len(s) + 1] = x
    OBVIOUS
  <1>2. 1..(Len(s) + 1) = 1..Len(s) \cup {Len(s) + 1}
    BY <1>1
  <1>3. ToSet(Append(s, x)) = ToSet(s) \cup {x}
    BY <1>1, <1>2 DEF ToSet
  <1>4. IsInjective(s) /\ x \notin ToSet(s) => IsInjective(Append(s, x))
    BY <1>1, <1>2 DEF ToSet, IsInjective
  <1> QED
    BY <1>1, <1>3, <1>4

\* The rest of a sequence is the same one place on.
LEMMA ElementsOfTail ==
    ASSUME NEW S, NEW s \in Seq(S), s # <<>>
    PROVE  /\ Head(s) \in S /\ Tail(s) \in Seq(S) /\ 1 \in DOMAIN s /\ Head(s) = s[1]
           /\ \A i \in DOMAIN Tail(s) : i + 1 \in DOMAIN s /\ Tail(s)[i] = s[i + 1]
           /\ \A i \in DOMAIN s : i # 1 => i - 1 \in DOMAIN Tail(s) /\ Tail(s)[i - 1] = s[i]
           /\ \A i \in DOMAIN s : i \in Nat
  OBVIOUS
=============================================================================
