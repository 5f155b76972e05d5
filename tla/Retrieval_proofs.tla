-------------------------- MODULE Retrieval_proofs --------------------------
(***************************************************************************)
(* What a retrieval cites, for any points, requests and limits: the order   *)
(* of what it found, what the fusion of the two lists keeps, and that the   *)
(* answer rests on what the filters let through and nothing is cited twice; *)
(* and what a question about tables is answered from, for any tables.       *)
(***************************************************************************)
EXTENDS Retrieval, TableAnswers, FiniteSetTheorems, WellFoundedInduction, TLAPS

(***************************************************************************)
(* Orders and sequences                                                    *)
(***************************************************************************)

\* A strict order of a set in which any two are comparable.
StrictOrder(S, R) ==
    /\ \A x \in S : <<x, x>> \notin R
    /\ \A x, y, z \in S : <<x, y>> \in R /\ <<y, z>> \in R => <<x, z>> \in R
    /\ \A x, y \in S : x # y => <<x, y>> \in R \/ <<y, x>> \in R

Below(S, R, x) == {y \in S : <<y, x>> \in R}

\* In a finite set, the number of those below tells one from the other, and
\* takes every value.
LEMMA Ranked ==
    ASSUME NEW S, IsFiniteSet(S), NEW R, StrictOrder(S, R)
    PROVE  /\ Cardinality(S) \in Nat
           /\ \A x \in S : Cardinality(Below(S, R, x)) \in 0 .. Cardinality(S) - 1
           /\ \A x, y \in S :
                 <<x, y>> \in R => Cardinality(Below(S, R, x)) < Cardinality(Below(S, R, y))
           /\ \A k \in 0 .. Cardinality(S) - 1 : \E x \in S : Cardinality(Below(S, R, x)) = k
<1> DEFINE B(x) == Below(S, R, x)
           n == Cardinality(S)
<1>1. n \in Nat  BY FS_CardinalityType
<1>2. ASSUME NEW x \in S
      PROVE  IsFiniteSet(B(x)) /\ Cardinality(B(x)) \in 0 .. n - 1
  <2>1. B(x) \subseteq S /\ x \notin B(x)  BY DEF Below, StrictOrder
  <2>2. IsFiniteSet(B(x)) /\ Cardinality(B(x)) <= n /\ (n = Cardinality(B(x)) => S = B(x))
    BY <2>1, FS_Subset
  <2>3. Cardinality(B(x)) \in Nat  BY <2>2, FS_CardinalityType
  <2>4. Cardinality(B(x)) # n  BY <2>1, <2>2
  <2> QED  BY <1>1, <2>2, <2>3, <2>4
<1>3. ASSUME NEW x \in S, NEW y \in S, <<x, y>> \in R
      PROVE  Cardinality(B(x)) < Cardinality(B(y))
  <2>1. B(x) \subseteq B(y) /\ x \in B(y) /\ x \notin B(x)  BY <1>3 DEF Below, StrictOrder
  <2>2. Cardinality(B(x)) <= Cardinality(B(y))
        /\ (Cardinality(B(y)) = Cardinality(B(x)) => B(y) = B(x))
    BY <1>2, <2>1, FS_Subset
  <2> QED  BY <1>1, <1>2, <2>1, <2>2
<1> DEFINE f == [x \in S |-> Cardinality(B(x))]
<1>4. f \in [S -> 0 .. n - 1]  BY <1>2
<1>5. ASSUME NEW x \in S, NEW y \in S, x # y PROVE f[x] # f[y]
  <2>1. <<x, y>> \in R \/ <<y, x>> \in R  BY <1>5 DEF StrictOrder
  <2>2. Cardinality(B(x)) \in Int /\ Cardinality(B(y)) \in Int  BY <1>1, <1>2
  <2>3. Cardinality(B(x)) # Cardinality(B(y))  BY <1>3, <2>1, <2>2
  <2> QED  BY <2>3
<1>6. f \in Injection(S, 0 .. n - 1)  BY <1>4, <1>5 DEF Injection, IsInjective
<1>7. IsFiniteSet(0 .. n - 1) /\ Cardinality(0 .. n - 1) = n
  <2>1. 0 \in Int /\ n - 1 \in Int  BY <1>1
  <2>2. IsFiniteSet(0 .. n - 1) /\ Cardinality(0 .. n - 1) = IF 0 > n - 1 THEN 0 ELSE n - 1 - 0 + 1
    BY <2>1, FS_Interval
  <2> QED  BY <1>1, <2>2
<1>8. f \in Surjection(S, 0 .. n - 1)  BY <1>6, <1>7, FS_Injection
<1>9. \A k \in 0 .. n - 1 : \E x \in S : Cardinality(B(x)) = k  BY <1>8 DEF Surjection
<1> QED  BY <1>1, <1>2, <1>3, <1>9

\* The members of a finite set in an order of it.
LEMMA OrderedIs ==
    ASSUME NEW S, IsFiniteSet(S), NEW R, StrictOrder(S, R)
    PROVE  /\ Cardinality(S) \in Nat
           /\ OrderedBy(S, R) \in [1 .. Cardinality(S) -> S]
           /\ \A i, j \in 1 .. Cardinality(S) : i < j => <<OrderedBy(S, R)[i], OrderedBy(S, R)[j]>> \in R
           /\ \A x \in S : \E i \in 1 .. Cardinality(S) : OrderedBy(S, R)[i] = x
<1> DEFINE n == Cardinality(S)
           c(x) == Cardinality(Below(S, R, x))
           order == OrderedBy(S, R)
<1>1. /\ n \in Nat
      /\ \A x \in S : c(x) \in 0 .. n - 1
      /\ \A x, y \in S : <<x, y>> \in R => c(x) < c(y)
      /\ \A k \in 0 .. n - 1 : \E x \in S : c(x) = k
  BY Ranked
<1>2. order = [k \in 1 .. n |-> CHOOSE x \in S : c(x) = k - 1]  BY DEF OrderedBy, Below
<1> HIDE DEF order, c
<1>3. \A k \in 1 .. n : order[k] \in S /\ c(order[k]) = k - 1
  <2> TAKE k \in 1 .. n
  <2>1. \E x \in S : c(x) = k - 1  BY <1>1
  <2>2. order[k] = CHOOSE x \in S : c(x) = k - 1  BY <1>2
  <2> QED  BY <2>1, <2>2
<1>4. order \in [1 .. n -> S]  BY <1>2, <1>3
<1>5. ASSUME NEW i \in 1 .. n, NEW j \in 1 .. n, i < j PROVE <<order[i], order[j]>> \in R
  <2>1. order[i] \in S /\ order[j] \in S /\ c(order[i]) < c(order[j])  BY <1>1, <1>3, <1>5
  <2>2. c(order[i]) \in Int /\ c(order[j]) \in Int  BY <1>1, <2>1
  <2>3. ~(c(order[j]) < c(order[i])) /\ c(order[i]) # c(order[j])  BY <2>1, <2>2
  <2>4. order[i] # order[j]  BY <2>3
  <2>5. <<order[j], order[i]>> \notin R  BY <1>1, <2>1, <2>3
  <2> QED  BY <2>1, <2>4, <2>5 DEF StrictOrder
<1>6. ASSUME NEW x \in S PROVE \E i \in 1 .. n : order[i] = x
  <2>1. c(x) + 1 \in 1 .. n /\ c(x) \in Int  BY <1>1
  <2>2. PICK k \in 1 .. n : k = c(x) + 1  BY <2>1
  <2>3. order[k] \in S /\ c(order[k]) = c(x)  BY <1>3, <2>1, <2>2
  <2>4. ~(c(x) < c(order[k])) /\ ~(c(order[k]) < c(x))  BY <2>1, <2>3
  <2>5. <<x, order[k]>> \notin R /\ <<order[k], x>> \notin R  BY <1>1, <2>3, <2>4
  <2>6. order[k] = x  BY <2>3, <2>5 DEF StrictOrder
  <2> QED  BY <2>6
<1> QED  BY <1>1, <1>4, <1>5, <1>6 DEF order

\* The numbers of a set in their order.
LEMMA InOrderIs ==
    ASSUME NEW S \in SUBSET Int, IsFiniteSet(S)
    PROVE  /\ Cardinality(S) \in Nat
           /\ InOrder(S) \in [1 .. Cardinality(S) -> S]
           /\ \A i, j \in 1 .. Cardinality(S) : i < j => InOrder(S)[i] < InOrder(S)[j]
           /\ \A p \in S : \E i \in 1 .. Cardinality(S) : InOrder(S)[i] = p
<1> DEFINE R == {pair \in S \X S : pair[1] < pair[2]}
<1>1. StrictOrder(S, R) /\ \A p, q \in S : <<p, q>> \in R <=> p < q  BY DEF StrictOrder
<1>2. InOrder(S) = OrderedBy(S, R)  BY DEF InOrder
<1> HIDE DEF R
<1>3. /\ Cardinality(S) \in Nat
      /\ InOrder(S) \in [1 .. Cardinality(S) -> S]
      /\ \A i, j \in 1 .. Cardinality(S) : i < j => <<InOrder(S)[i], InOrder(S)[j]>> \in R
      /\ \A p \in S : \E i \in 1 .. Cardinality(S) : InOrder(S)[i] = p
  BY <1>1, <1>2, OrderedIs
<1> QED  BY <1>1, <1>3

\* What is above is so irreflexively, and nothing stands between two that are not.
Weak(n, above) ==
    /\ \A i \in 1 .. n : <<i, i>> \notin above
    /\ \A i, j \in 1 .. n : <<i, j>> \in above => <<j, i>> \notin above
    /\ \A i, j, k \in 1 .. n : <<i, k>> \in above => <<i, j>> \in above \/ <<j, k>> \in above

Onto(f, n) == f \in [1 .. n -> 1 .. n]
              /\ (\A i, j \in 1 .. n : f[i] = f[j] => i = j)
              /\ \A k \in 1 .. n : \E i \in 1 .. n : f[i] = k

\* A sort puts every member somewhere, none before one that is above it.
LEMMA SortedIs ==
    ASSUME NEW n \in Nat, NEW s, DOMAIN s = 1 .. n, NEW above, Weak(n, above)
    PROVE  \E f : /\ Onto(f, n)
                  /\ Sorted(s, above) = [k \in 1 .. n |-> s[f[k]]]
                  /\ \A i, j \in 1 .. n : <<f[i], f[j]>> \in above => i < j
<1> DEFINE R == {pair \in (1 .. n) \X (1 .. n) :
                    <<pair[1], pair[2]>> \in above \/ (pair[1] < pair[2] /\ <<pair[2], pair[1]>> \notin above)}
           c(i) == Cardinality({j \in DOMAIN s : <<j, i>> \in above \/ (j < i /\ <<i, j>> \notin above)})
           f == [k \in 1 .. n |-> CHOOSE i \in DOMAIN s : 1 + c(i) = k]
<1>1. \A i, j \in 1 .. n : <<i, j>> \in R <=> <<i, j>> \in above \/ (i < j /\ <<j, i>> \notin above)
  OBVIOUS
<1>2. ASSUME NEW i \in 1 .. n PROVE Cardinality(Below(1 .. n, R, i)) = c(i)
  <2>1. Below(1 .. n, R, i) = {j \in DOMAIN s : <<j, i>> \in above \/ (j < i /\ <<i, j>> \notin above)}
    BY <1>1 DEF Below
  <2> QED  BY <2>1
<1>3. Sorted(s, above) = [k \in 1 .. n |-> s[f[k]]]  BY DEF Sorted
<1> HIDE DEF R, c
<1>4. StrictOrder(1 .. n, R)
  <2>1. ASSUME NEW i \in 1 .. n PROVE <<i, i>> \notin R
    <3>1. ~(i < i)  OBVIOUS
    <3> QED  BY <1>1, <3>1 DEF Weak
  <2>2. ASSUME NEW i \in 1 .. n, NEW j \in 1 .. n, i # j PROVE <<i, j>> \in R \/ <<j, i>> \in R
    <3>1. i < j \/ j < i  BY <2>2
    <3> QED  BY <1>1, <3>1 DEF Weak
  <2>3. ASSUME NEW i \in 1 .. n, NEW j \in 1 .. n, NEW k \in 1 .. n, <<i, j>> \in R, <<j, k>> \in R
        PROVE  <<i, k>> \in R
    <3>1. <<j, i>> \notin above /\ <<k, j>> \notin above  BY <1>1, <2>3 DEF Weak
    <3>2. <<k, i>> \notin above  BY <3>1 DEF Weak
    <3>3. CASE <<i, j>> \in above \/ <<j, k>> \in above
      <4>1. <<i, k>> \in above  BY <3>1, <3>3 DEF Weak
      <4> QED  BY <1>1, <4>1
    <3>4. CASE ~(<<i, j>> \in above \/ <<j, k>> \in above)
      <4>1. i < j /\ j < k  BY <1>1, <2>3, <3>4
      <4>2. i < k  BY <4>1
      <4> QED  BY <1>1, <3>2, <4>2
    <3> QED  BY <3>3, <3>4
  <2> QED  BY <2>1, <2>2, <2>3 DEF StrictOrder
<1>5. IsFiniteSet(1 .. n) /\ Cardinality(1 .. n) = n  BY FS_Interval
<1>6. /\ \A i \in 1 .. n : c(i) \in 0 .. n - 1
      /\ \A i, j \in 1 .. n : <<i, j>> \in R => c(i) < c(j)
      /\ \A k \in 0 .. n - 1 : \E i \in 1 .. n : c(i) = k
  <2>1. /\ \A x \in 1 .. n : Cardinality(Below(1 .. n, R, x)) \in 0 .. Cardinality(1 .. n) - 1
        /\ \A x, y \in 1 .. n :
              <<x, y>> \in R => Cardinality(Below(1 .. n, R, x)) < Cardinality(Below(1 .. n, R, y))
        /\ \A k \in 0 .. Cardinality(1 .. n) - 1 : \E x \in 1 .. n : Cardinality(Below(1 .. n, R, x)) = k
    BY <1>4, <1>5, Ranked
  <2> QED  BY <1>2, <1>5, <2>1
<1>7. ASSUME NEW k \in 1 .. n PROVE f[k] \in 1 .. n /\ c(f[k]) = k - 1
  <2>1. \E i \in 1 .. n : c(i) = k - 1  BY <1>6
  <2>2. \E i \in DOMAIN s : 1 + c(i) = k
    <3>1. PICK i \in 1 .. n : c(i) = k - 1  BY <2>1
    <3>2. 1 + c(i) = k  BY <3>1
    <3> QED  BY <3>2
  <2>3. f[k] \in 1 .. n /\ 1 + c(f[k]) = k  BY <2>2
  <2> HIDE DEF f
  <2>4. c(f[k]) \in Int  BY <1>6, <2>3
  <2> QED  BY <2>3, <2>4
<1>8. f \in [1 .. n -> 1 .. n]  BY <1>7
<1> HIDE DEF f
<1>9. \A i, j \in 1 .. n : f[i] = f[j] => i = j
  <2> TAKE i, j \in 1 .. n
  <2>1. c(f[i]) = i - 1 /\ c(f[j]) = j - 1  BY <1>7
  <2> QED  BY <2>1
<1>10. \A i, j \in 1 .. n : i # j => c(i) # c(j)
  <2> TAKE i, j \in 1 .. n
  <2> HAVE i # j
  <2>1. <<i, j>> \in R \/ <<j, i>> \in R  BY <1>4 DEF StrictOrder
  <2>2. c(i) \in Int /\ c(j) \in Int  BY <1>6
  <2> QED  BY <1>6, <2>1, <2>2
<1>11. ASSUME NEW k \in 1 .. n PROVE \E i \in 1 .. n : f[i] = k
  <2>1. c(k) + 1 \in 1 .. n /\ c(k) \in Int  BY <1>6
  <2>2. PICK i \in 1 .. n : i = c(k) + 1  BY <2>1
  <2>3. c(f[i]) = c(k) /\ f[i] \in 1 .. n  BY <1>7, <2>1, <2>2
  <2> QED  BY <1>10, <2>3
<1>12. ASSUME NEW i \in 1 .. n, NEW j \in 1 .. n, <<f[i], f[j]>> \in above PROVE i < j
  <2>1. f[i] \in 1 .. n /\ f[j] \in 1 .. n  BY <1>7
  <2>2. c(f[i]) < c(f[j])  BY <1>1, <1>6, <1>12, <2>1
  <2> QED  BY <1>7, <2>2
<1> QED  BY <1>3, <1>8, <1>9, <1>11, <1>12 DEF Onto

\* The greater key is above.
LEMMA HigherIsWeak ==
    ASSUME NEW n \in Nat, NEW key \in [1 .. n -> Int]
    PROVE  Weak(n, Higher(key)) /\ \A i, j \in 1 .. n : <<i, j>> \in Higher(key) <=> key[i] > key[j]
<1>1. \A i, j \in 1 .. n : <<i, j>> \in Higher(key) <=> key[i] > key[j]  BY DEF Higher
<1>2. \A i \in 1 .. n : key[i] \in Int  OBVIOUS
<1> QED  BY <1>1, <1>2 DEF Weak

\* The members of a sequence at some places, in their order.
LEMMA PickedIs ==
    ASSUME NEW n \in Nat, NEW s, DOMAIN s = 1 .. n, NEW places \in SUBSET (1 .. n)
    PROVE  /\ Cardinality(places) \in 0 .. n
           /\ InOrder(places) \in [1 .. Cardinality(places) -> places]
           /\ Picked(s, places) = [k \in 1 .. Cardinality(places) |-> s[InOrder(places)[k]]]
           /\ \A i, j \in 1 .. Cardinality(places) : i < j => InOrder(places)[i] < InOrder(places)[j]
           /\ \A p \in places : \E k \in 1 .. Cardinality(places) : InOrder(places)[k] = p
<1>1. IsFiniteSet(1 .. n) /\ Cardinality(1 .. n) = n
  <2>1. 1 \in Int /\ n \in Int  OBVIOUS
  <2>2. IsFiniteSet(1 .. n) /\ Cardinality(1 .. n) = IF 1 > n THEN 0 ELSE n - 1 + 1  BY <2>1, FS_Interval
  <2> QED  BY <2>2
<1>2. IsFiniteSet(places) /\ Cardinality(places) <= n
  <2>1. IsFiniteSet(places) /\ Cardinality(places) <= Cardinality(1 .. n)  BY <1>1, FS_Subset
  <2> QED  BY <1>1, <2>1
<1>3. places \in SUBSET Int  OBVIOUS
<1> DEFINE m == Cardinality(places)
           f == InOrder(places)
<1>4. /\ m \in Nat /\ f \in [1 .. m -> places]
      /\ \A i, j \in 1 .. m : i < j => f[i] < f[j]
      /\ \A p \in places : \E k \in 1 .. m : f[k] = p
  BY <1>2, <1>3, InOrderIs
<1>5. Picked(s, places) = [k \in 1 .. m |-> s[f[k]]]  BY DEF Picked
<1>6. m \in 0 .. n  BY <1>2, <1>4
<1> QED  BY <1>4, <1>5, <1>6

\* One sequence has members of another, each of its places at most once.
Part(t, s) ==
    \E f \in [1 .. Len(t) -> 1 .. Len(s)] :
        /\ \A i, j \in 1 .. Len(t) : f[i] = f[j] => i = j
        /\ \A k \in 1 .. Len(t) : t[k] = s[f[k]]

Distinct(s) == \A i, j \in 1 .. Len(s) : s[i] = s[j] => i = j
NoRepeats(hits) == \A i, j \in 1 .. Len(hits) : hits[i].id = hits[j].id => i = j

LEMMA PartOfDistinct ==
    ASSUME NEW T, NEW s \in Seq(T), NEW t \in Seq(T), Part(t, s), Distinct(s)
    PROVE  Distinct(t)
<1>1. PICK f \in [1 .. Len(t) -> 1 .. Len(s)] :
          /\ \A i, j \in 1 .. Len(t) : f[i] = f[j] => i = j
          /\ \A k \in 1 .. Len(t) : t[k] = s[f[k]]
  BY DEF Part
<1>2. \A k \in 1 .. Len(t) : f[k] \in 1 .. Len(s)  BY <1>1
<1> QED  BY <1>1, <1>2 DEF Distinct

LEMMA PartOfHits ==
    ASSUME NEW s \in Seq(Hit), NEW t \in Seq(Hit), Part(t, s)
    PROVE  /\ IdsOf(t) \subseteq IdsOf(s)
           /\ NoRepeats(s) => NoRepeats(t)
<1>1. PICK f \in [1 .. Len(t) -> 1 .. Len(s)] :
          /\ \A i, j \in 1 .. Len(t) : f[i] = f[j] => i = j
          /\ \A k \in 1 .. Len(t) : t[k] = s[f[k]]
  BY DEF Part
<1>2. \A k \in 1 .. Len(t) : f[k] \in 1 .. Len(s)  BY <1>1
<1>3. DOMAIN s = 1 .. Len(s) /\ DOMAIN t = 1 .. Len(t)  OBVIOUS
<1>4. IdsOf(t) \subseteq IdsOf(s)  BY <1>1, <1>2, <1>3 DEF IdsOf
<1> QED  BY <1>1, <1>2, <1>4 DEF NoRepeats

\* What is sorted has every member again.
LEMMA SortedOf ==
    ASSUME NEW T, NEW s \in Seq(T), NEW above, Weak(Len(s), above)
    PROVE  /\ Sorted(s, above) \in Seq(T)
           /\ Len(Sorted(s, above)) = Len(s)
           /\ Part(Sorted(s, above), s)
           /\ \A i \in 1 .. Len(s) : \E k \in 1 .. Len(s) : Sorted(s, above)[k] = s[i]
<1> DEFINE t == Sorted(s, above)
           n == Len(s)
<1>1. n \in Nat /\ DOMAIN s = 1 .. n  OBVIOUS
<1>2. PICK f : Onto(f, n) /\ t = [k \in 1 .. n |-> s[f[k]]]  BY <1>1, SortedIs
<1>3. /\ f \in [1 .. n -> 1 .. n]
      /\ \A i, j \in 1 .. n : f[i] = f[j] => i = j
      /\ \A k \in 1 .. n : \E i \in 1 .. n : f[i] = k
  BY <1>2 DEF Onto
<1>4. \A k \in 1 .. n : s[f[k]] \in T  BY <1>3
<1> HIDE DEF t
<1>5. t \in [1 .. n -> T] /\ \A k \in 1 .. n : t[k] = s[f[k]]  BY <1>2, <1>4
<1>6. t \in Seq(T) /\ Len(t) = n  BY <1>1, <1>5
<1>7. Part(t, s)
  <2>1. f \in [1 .. Len(t) -> 1 .. Len(s)]  BY <1>3, <1>6
  <2>2. \A i, j \in 1 .. Len(t) : f[i] = f[j] => i = j  BY <1>3, <1>6
  <2>3. \A k \in 1 .. Len(t) : t[k] = s[f[k]]  BY <1>5, <1>6
  <2> QED  BY <2>1, <2>2, <2>3 DEF Part
<1>8. ASSUME NEW i \in 1 .. n PROVE \E k \in 1 .. n : t[k] = s[i]
  <2>1. PICK k \in 1 .. n : f[k] = i  BY <1>3
  <2>2. t[k] = s[i]  BY <1>5, <2>1
  <2> QED  BY <2>2
<1> QED  BY <1>6, <1>7, <1>8 DEF t

LEMMA PickedOf ==
    ASSUME NEW T, NEW s \in Seq(T), NEW places \in SUBSET (1 .. Len(s))
    PROVE  /\ Picked(s, places) \in Seq(T)
           /\ Len(Picked(s, places)) <= Len(s)
           /\ Part(Picked(s, places), s)
           /\ \A k \in 1 .. Len(Picked(s, places)) : \E p \in places : Picked(s, places)[k] = s[p]
           /\ \A p \in places : \E k \in 1 .. Len(Picked(s, places)) : Picked(s, places)[k] = s[p]
<1> DEFINE t == Picked(s, places)
           n == Len(s)
<1>1. n \in Nat /\ DOMAIN s = 1 .. n  OBVIOUS
<1> DEFINE m == Cardinality(places)
           f == InOrder(places)
<1>2. m \in Nat /\ m <= n /\ t = [k \in 1 .. m |-> s[f[k]]]  BY <1>1, PickedIs
<1>3. /\ f \in [1 .. m -> places]
      /\ \A i, j \in 1 .. m : i < j => f[i] < f[j]
      /\ \A p \in places : \E k \in 1 .. m : f[k] = p
  BY <1>1, PickedIs
<1> HIDE DEF m, f
<1>4. ASSUME NEW k \in 1 .. m PROVE f[k] \in places /\ f[k] \in 1 .. n /\ s[f[k]] \in T
  <2>1. f[k] \in places  BY <1>3
  <2>2. f[k] \in 1 .. Len(s)  BY <2>1
  <2> QED  BY <2>1, <2>2
<1> HIDE DEF t
<1>5. t \in [1 .. m -> T] /\ \A k \in 1 .. m : t[k] = s[f[k]]  BY <1>2, <1>4
<1>6. t \in Seq(T) /\ Len(t) = m  BY <1>2, <1>5
<1>7. \A i, j \in 1 .. m : f[i] = f[j] => i = j
  <2> TAKE i, j \in 1 .. m
  <2>1. i < j => f[i] < f[j]  BY <1>3
  <2>2. j < i => f[j] < f[i]  BY <1>3
  <2>3. f[i] \in Int /\ f[j] \in Int  BY <1>4
  <2> QED  BY <2>1, <2>2, <2>3
<1>8. f \in [1 .. m -> 1 .. n]  BY <1>3, <1>4
<1>9. Part(t, s)  BY <1>5, <1>6, <1>7, <1>8 DEF Part
<1>10. \A k \in 1 .. m : \E p \in places : t[k] = s[p]  BY <1>4, <1>5
<1>11. ASSUME NEW p \in places PROVE \E k \in 1 .. m : t[k] = s[p]
  <2>1. PICK k \in 1 .. m : f[k] = p  BY <1>3
  <2> QED  BY <1>5, <2>1
<1> QED  BY <1>2, <1>6, <1>9, <1>10, <1>11 DEF t

LEMMA PrefixOf ==
    ASSUME NEW T, NEW s \in Seq(T), NEW n \in Nat
    PROVE  /\ Prefix(s, n) \in Seq(T)
           /\ Len(Prefix(s, n)) = IF n < Len(s) THEN n ELSE Len(s)
           /\ \A k \in 1 .. Len(Prefix(s, n)) : Prefix(s, n)[k] = s[k]
           /\ Part(Prefix(s, n), s)
<1> DEFINE m == IF n < Len(s) THEN n ELSE Len(s)
           t == Prefix(s, n)
           f == [k \in 1 .. m |-> k]
<1>1. m \in Nat /\ m <= Len(s) /\ Len(s) \in Nat  OBVIOUS
<1>2. t = SubSeq(s, 1, m)  BY DEF Prefix
<1>3. t \in Seq(T) /\ Len(t) = m /\ \A k \in 1 .. m : t[k] = s[k]  BY <1>1, <1>2
<1> HIDE DEF t, m
<1>4. f \in [1 .. m -> 1 .. Len(s)] /\ \A k \in 1 .. m : f[k] = k  BY <1>1
<1> HIDE DEF f
<1>5. Part(t, s)
  <2>1. /\ \A i, j \in 1 .. m : f[i] = f[j] => i = j
        /\ \A k \in 1 .. m : t[k] = s[f[k]]
    BY <1>3, <1>4
  <2> QED  BY <1>3, <1>4, <2>1 DEF Part
<1> QED  BY <1>3, <1>5 DEF t, m

LEMMA NatMin ==
    ASSUME NEW T \in SUBSET Nat, T # {}
    PROVE  \E m \in T : \A k \in T : m <= k
<1>1. IsWellFoundedOn({pair \in Nat \X Nat : pair[1] < pair[2]}, Nat)
  BY NatLessThanWellFounded DEF OpToRel
<1>2. PICK m \in T : \A k \in T : <<k, m>> \notin {pair \in Nat \X Nat : pair[1] < pair[2]}
  BY <1>1, WFMin
<1>3. \A k \in T : ~(k < m)  BY <1>2
<1> QED  BY <1>3

(***************************************************************************)
(* What is cited                                                           *)
(***************************************************************************)

\* What the hits looked at so far have become.
KeptOf(hits, n, kept) ==
    /\ kept \in Seq(Hit) /\ NoRepeats(kept)
    /\ \A i \in 1 .. Len(kept) : \E j \in 1 .. n : kept[i] = hits[j]
    /\ \A j \in 1 .. n :
          \/ \E i \in 1 .. Len(kept) : kept[i].id = hits[j].id
          \/ \E m \in 1 .. n : m # j /\ Overlapping(hits[j].id, hits[m].id)
    /\ n > 0 => /\ Len(kept) > 0
                /\ \/ kept[1].id = hits[1].id
                   \/ /\ payload[kept[1].id].doc = payload[hits[1].id].doc
                      /\ MoreSpecific(kept[1].id, hits[1].id)

LEMMA OverlapsBothWays ==
    ASSUME NEW p, NEW q, Overlapping(p, q)
    PROVE  Overlapping(q, p) /\ payload[p].doc = payload[q].doc
BY DEF Overlapping

LEMMA MoreSpecificStill ==
    ASSUME NEW p, NEW q, NEW r, MoreSpecific(p, q), MoreSpecific(q, r)
    PROVE  MoreSpecific(p, r)
<1>1. \A k : RecordSpecificity(k) \in Int  BY DEF RecordSpecificity
<1> QED  BY <1>1 DEF MoreSpecific

\* One more hit is added, takes another's place, or is left out.
LEMMA KeepKeeps ==
    ASSUME NEW hits \in Seq(Hit), NoRepeats(hits), NEW n \in Nat, n < Len(hits),
           NEW kept, KeptOf(hits, n, kept)
    PROVE  KeptOf(hits, n + 1, Keep(kept, hits[n + 1]))
<1> DEFINE h == hits[n + 1]
           Twins == {i \in DOMAIN kept : Overlapping(kept[i].id, h.id)}
           first == CHOOSE i \in Twins : \A j \in Twins : i <= j
           new == Keep(kept, h)
<1>1. /\ n + 1 \in 1 .. Len(hits) /\ h \in Hit /\ kept \in Seq(Hit) /\ DOMAIN kept = 1 .. Len(kept)
      /\ Len(kept) \in Nat
  BY DEF KeptOf
<1>2. \A i \in 1 .. Len(kept) : kept[i].id # h.id
  <2> TAKE i \in 1 .. Len(kept)
  <2>1. PICK j \in 1 .. n : kept[i] = hits[j]  BY DEF KeptOf
  <2>2. j \in 1 .. Len(hits) /\ j # n + 1  BY <1>1
  <2> QED  BY <1>1, <2>1, <2>2 DEF NoRepeats
<1> HIDE DEF h, new
<1>3. CASE Twins = {}
  <2>1. new = Append(kept, h)  BY <1>3 DEF Keep, new
  <2>2. /\ new \in Seq(Hit) /\ Len(new) = Len(kept) + 1 /\ new[Len(kept) + 1] = h
        /\ \A i \in 1 .. Len(kept) : new[i] = kept[i]
    BY <1>1, <2>1
  <2>3. NoRepeats(new)
    <3> SUFFICES ASSUME NEW i \in 1 .. Len(new), NEW j \in 1 .. Len(new), new[i].id = new[j].id, i < j
                 PROVE  FALSE
      BY <2>2 DEF NoRepeats
    <3>1. i \in 1 .. Len(kept) /\ new[i] = kept[i]  BY <1>1, <2>2
    <3>2. CASE j = Len(kept) + 1  BY <1>2, <2>2, <3>1, <3>2
    <3>3. CASE j \in 1 .. Len(kept)  BY <1>1, <2>2, <3>1, <3>3 DEF NoRepeats, KeptOf
    <3> QED  BY <1>1, <2>2, <3>2, <3>3
  <2>4. \A i \in 1 .. Len(new) : \E j \in 1 .. n + 1 : new[i] = hits[j]
    <3> TAKE i \in 1 .. Len(new)
    <3>1. CASE i = Len(kept) + 1  BY <2>2, <3>1 DEF h
    <3>2. CASE i \in 1 .. Len(kept)
      <4>1. PICK j \in 1 .. n : kept[i] = hits[j]  BY <3>2 DEF KeptOf
      <4> QED  BY <2>2, <3>2, <4>1
    <3> QED  BY <1>1, <2>2, <3>1, <3>2
  <2>5. ASSUME NEW j \in 1 .. n + 1
        PROVE  \/ \E i \in 1 .. Len(new) : new[i].id = hits[j].id
               \/ \E m \in 1 .. n + 1 : m # j /\ Overlapping(hits[j].id, hits[m].id)
    <3>1. CASE j = n + 1
      <4>1. Len(kept) + 1 \in 1 .. Len(new)  BY <1>1, <2>2
      <4> QED  BY <2>2, <3>1, <4>1 DEF h
    <3>2. CASE j \in 1 .. n
      <4>1. CASE \E i \in 1 .. Len(kept) : kept[i].id = hits[j].id
        <5>1. PICK i \in 1 .. Len(kept) : kept[i].id = hits[j].id  BY <4>1
        <5>2. i \in 1 .. Len(new) /\ new[i].id = hits[j].id  BY <1>1, <2>2, <5>1
        <5> QED  BY <5>2
      <4>2. CASE \E m \in 1 .. n : m # j /\ Overlapping(hits[j].id, hits[m].id)  BY <4>2
      <4> QED  BY <3>2, <4>1, <4>2 DEF KeptOf
    <3> QED  BY <3>1, <3>2
  <2>6. /\ Len(new) > 0
        /\ \/ new[1].id = hits[1].id
           \/ payload[new[1].id].doc = payload[hits[1].id].doc /\ MoreSpecific(new[1].id, hits[1].id)
    <3>1. CASE n = 0
      <4>1. Len(kept) = 0
        <5> SUFFICES ASSUME Len(kept) # 0 PROVE FALSE  OBVIOUS
        <5>1. 1 \in 1 .. Len(kept)  BY <1>1
        <5> QED  BY <3>1, <5>1 DEF KeptOf
      <4> QED  BY <2>2, <3>1, <4>1 DEF h
    <3>2. CASE n > 0
      <4>1. Len(kept) > 0  BY <3>2 DEF KeptOf
      <4>2. new[1] = kept[1]  BY <1>1, <2>2, <4>1
      <4> QED  BY <1>1, <2>2, <3>2, <4>2 DEF KeptOf
    <3> QED  BY <3>1, <3>2
  <2> QED  BY <2>2, <2>3, <2>4, <2>5, <2>6 DEF KeptOf, new, h
<1>4. CASE Twins # {}
  <2>1. first \in Twins
    <3>1. Twins \in SUBSET Nat  BY <1>1
    <3>2. \E i \in Twins : \A j \in Twins : i <= j  BY <1>4, <3>1, NatMin
    <3> QED  BY <3>2
  <2>2. first \in 1 .. Len(kept) /\ Overlapping(kept[first].id, h.id)  BY <1>1, <2>1
  <2>3. PICK t \in 1 .. n : kept[first] = hits[t]  BY <2>2 DEF KeptOf
  <2> HIDE DEF first, Twins
  <2>4. /\ t \in 1 .. n + 1 /\ t # n + 1 /\ n + 1 \in 1 .. n + 1
        /\ Overlapping(hits[t].id, hits[n + 1].id) /\ Overlapping(hits[n + 1].id, hits[t].id)
    BY <2>2, <2>3, OverlapsBothWays DEF h
  <2>5. n > 0  BY <2>3
  <2>6. CASE ~MoreSpecific(h.id, kept[first].id)
    <3>1. new = kept  BY <1>4, <2>6 DEF Keep, new, first, Twins
    <3>2. ASSUME NEW j \in 1 .. n + 1
          PROVE  \/ \E i \in 1 .. Len(kept) : kept[i].id = hits[j].id
                 \/ \E m \in 1 .. n + 1 : m # j /\ Overlapping(hits[j].id, hits[m].id)
      <4>1. CASE j = n + 1  BY <2>4, <4>1
      <4>2. CASE j \in 1 .. n
        <5>1. \/ \E i \in 1 .. Len(kept) : kept[i].id = hits[j].id
              \/ \E m \in 1 .. n : m # j /\ Overlapping(hits[j].id, hits[m].id)
          BY <4>2 DEF KeptOf
        <5>2. \A m \in 1 .. n : m \in 1 .. n + 1  OBVIOUS
        <5> QED  BY <5>1, <5>2
      <4> QED  BY <4>1, <4>2
    <3>3. \A i \in 1 .. Len(kept) : \E j \in 1 .. n + 1 : kept[i] = hits[j]  BY DEF KeptOf
    <3> QED  BY <2>5, <3>1, <3>2, <3>3 DEF KeptOf, new, h
  <2>7. CASE MoreSpecific(h.id, kept[first].id)
    <3>1. new = [kept EXCEPT ![first] = h]  BY <1>4, <2>7 DEF Keep, new, first, Twins
    <3>2. /\ new \in Seq(Hit) /\ Len(new) = Len(kept) /\ new[first] = h
          /\ \A i \in 1 .. Len(kept) : i # first => new[i] = kept[i]
      BY <1>1, <2>2, <3>1
    <3>3. NoRepeats(new)
      <4> SUFFICES ASSUME NEW i \in 1 .. Len(kept), NEW j \in 1 .. Len(kept), new[i].id = new[j].id
                   PROVE  i = j
        BY <3>2 DEF NoRepeats
      <4>1. CASE i = first /\ j # first  BY <1>2, <3>2, <4>1
      <4>2. CASE i # first /\ j = first  BY <1>2, <3>2, <4>2
      <4>3. CASE i # first /\ j # first  BY <3>2, <4>3 DEF NoRepeats, KeptOf
      <4> QED  BY <4>1, <4>2, <4>3
    <3>4. \A i \in 1 .. Len(kept) : \E j \in 1 .. n + 1 : new[i] = hits[j]
      <4> TAKE i \in 1 .. Len(kept)
      <4>1. CASE i = first  BY <2>4, <3>2, <4>1 DEF h
      <4>2. CASE i # first
        <5>1. PICK j \in 1 .. n : kept[i] = hits[j]  BY DEF KeptOf
        <5> QED  BY <3>2, <4>2, <5>1
      <4> QED  BY <4>1, <4>2
    <3>5. ASSUME NEW j \in 1 .. n + 1
          PROVE  \/ \E i \in 1 .. Len(kept) : new[i].id = hits[j].id
                 \/ \E m \in 1 .. n + 1 : m # j /\ Overlapping(hits[j].id, hits[m].id)
      <4>1. CASE j = n + 1  BY <2>4, <4>1
      <4>2. CASE j = t  BY <2>4, <4>2
      <4>3. CASE j \in 1 .. n /\ j # t
        <5>1. CASE \E i \in 1 .. Len(kept) : kept[i].id = hits[j].id
          <6>1. PICK i \in 1 .. Len(kept) : kept[i].id = hits[j].id  BY <5>1
          <6>2. j \in 1 .. Len(hits) /\ t \in 1 .. Len(hits)  BY <1>1, <4>3
          <6>3. i # first  BY <2>3, <4>3, <6>1, <6>2 DEF NoRepeats
          <6> QED  BY <3>2, <6>1, <6>3
        <5>2. CASE \E m \in 1 .. n : m # j /\ Overlapping(hits[j].id, hits[m].id)  BY <5>2
        <5> QED  BY <4>3, <5>1, <5>2 DEF KeptOf
      <4> QED  BY <4>1, <4>2, <4>3
    <3>6. \/ new[1].id = hits[1].id
          \/ payload[new[1].id].doc = payload[hits[1].id].doc /\ MoreSpecific(new[1].id, hits[1].id)
      <4>1. \/ kept[1].id = hits[1].id
            \/ payload[kept[1].id].doc = payload[hits[1].id].doc /\ MoreSpecific(kept[1].id, hits[1].id)
        BY <2>5 DEF KeptOf
      <4>2. CASE first # 1
        <5>1. 1 \in 1 .. Len(kept)  BY <1>1, <2>2
        <5>2. \A i \in 1 .. Len(kept) : i # first => new[i] = kept[i]  BY <3>2
        <5>3. new[1] = kept[1]  BY <4>2, <5>1, <5>2
        <5> QED  BY <4>1, <5>3
      <4>3. CASE first = 1
        <5>1. new[1] = h /\ payload[h.id].doc = payload[kept[1].id].doc /\ MoreSpecific(h.id, kept[1].id)
          BY <2>2, <2>7, <3>2, <4>3, OverlapsBothWays
        <5> QED  BY <4>1, <5>1, MoreSpecificStill
      <4> QED  BY <4>2, <4>3
    <3> QED  BY <2>2, <2>5, <3>2, <3>3, <3>4, <3>5, <3>6 DEF KeptOf, new, h
  <2> QED  BY <2>6, <2>7
<1> QED  BY <1>3, <1>4

\* The hits are looked at one after the other.
KeptFrom(hits, g) ==
    g = [n \in 0 .. Len(hits) |-> IF n = 0 THEN <<>> ELSE Keep(g[n - 1], hits[n])]

LEMMA KeptExists ==
    ASSUME NEW hits \in Seq(Hit)
    PROVE  \E g : KeptFrom(hits, g)
<1> DEFINE Upto(m, g) == g = [n \in 0 .. m |-> IF n = 0 THEN <<>> ELSE Keep(g[n - 1], hits[n])]
           None == {m \in Nat : ~\E g : Upto(m, g)}
<1>1. None = {}
  <2> SUFFICES ASSUME None # {} PROVE FALSE  OBVIOUS
  <2>1. PICK m \in None : \A k \in None : m <= k  BY NatMin
  <2>2. m \in Nat /\ ~\E g : Upto(m, g)  OBVIOUS
  <2>3. CASE m = 0
    <3> DEFINE g == [n \in 0 .. 0 |-> <<>>]
    <3>1. g = [n \in 0 .. 0 |-> IF n = 0 THEN <<>> ELSE Keep(g[n - 1], hits[n])]  OBVIOUS
    <3> QED  BY <2>2, <2>3, <3>1
  <2>4. CASE m # 0
    <3>1. m - 1 \in Nat /\ m - 1 \notin None
      <4>1. m - 1 \in Nat /\ ~(m <= m - 1)  BY <2>2, <2>4
      <4> QED  BY <2>1, <4>1
    <3>2. PICK g : Upto(m - 1, g)  BY <3>1
    <3> DEFINE e == [n \in 0 .. m |-> IF n = m THEN Keep(g[m - 1], hits[m]) ELSE g[n]]
    <3>3. ASSUME NEW n \in 0 .. m PROVE e[n] = IF n = 0 THEN <<>> ELSE Keep(e[n - 1], hits[n])
      <4>1. CASE n = m
        <5>1. m - 1 \in 0 .. m /\ m - 1 # m /\ m # 0  BY <2>2, <2>4
        <5>2. e[m] = Keep(g[m - 1], hits[m]) /\ e[m - 1] = g[m - 1]  BY <2>2, <5>1
        <5> QED  BY <4>1, <5>1, <5>2
      <4>2. CASE n # m
        <5>1. n \in 0 .. m - 1 /\ (n # 0 => n - 1 \in 0 .. m - 1)  BY <2>2, <4>2
        <5>2. g[n] = IF n = 0 THEN <<>> ELSE Keep(g[n - 1], hits[n])  BY <3>2, <5>1
        <5>3. e[n] = g[n]  BY <4>2
        <5>4. n # 0 => e[n - 1] = g[n - 1]
          <6> HAVE n # 0
          <6>1. n - 1 \in 0 .. m /\ n - 1 # m  BY <2>2, <5>1
          <6> QED  BY <6>1
        <5> QED  BY <5>2, <5>3, <5>4
      <4> QED  BY <4>1, <4>2
    <3>4. Upto(m, e)  BY <3>3
    <3> QED  BY <2>2, <3>4
  <2> QED  BY <2>3, <2>4
<1>2. Len(hits) \in Nat  OBVIOUS
<1>3. PICK g : Upto(Len(hits), g)  BY <1>1, <1>2
<1> QED  BY <1>3 DEF KeptFrom

\* What the hits have become when all are looked at.
LEMMA DeduplicatedIs ==
    ASSUME NEW hits \in Seq(Hit), NoRepeats(hits)
    PROVE  KeptOf(hits, Len(hits), Deduplicated(hits))
<1> DEFINE g == CHOOSE f : KeptFrom(hits, f)
           Wrong == {n \in Nat : n <= Len(hits) /\ ~KeptOf(hits, n, g[n])}
<1>1. Deduplicated(hits) = g[Len(hits)]  BY DEF Deduplicated, KeptFrom
<1>2. KeptFrom(hits, g)  BY KeptExists
<1> HIDE DEF g
<1>3. \A n \in 0 .. Len(hits) : g[n] = IF n = 0 THEN <<>> ELSE Keep(g[n - 1], hits[n])
  BY <1>2 DEF KeptFrom
<1>4. Len(hits) \in Nat  OBVIOUS
<1>5. KeptOf(hits, 0, <<>>)  BY DEF KeptOf, NoRepeats
<1>6. Wrong = {}
  <2> SUFFICES ASSUME Wrong # {} PROVE FALSE  OBVIOUS
  <2>1. PICK n \in Wrong : \A k \in Wrong : n <= k  BY NatMin
  <2>2. n \in Nat /\ n <= Len(hits) /\ ~KeptOf(hits, n, g[n])  OBVIOUS
  <2>3. n # 0  BY <1>3, <1>4, <1>5, <2>2
  <2>4. n - 1 \in Nat /\ n - 1 < Len(hits) /\ n - 1 <= Len(hits) /\ ~(n <= n - 1) /\ n - 1 + 1 = n
        /\ n \in 0 .. Len(hits)
    BY <1>4, <2>2, <2>3
  <2>5. KeptOf(hits, n - 1, g[n - 1])  BY <2>1, <2>4
  <2>6. g[n] = Keep(g[n - 1], hits[n])  BY <1>3, <2>3, <2>4
  <2>7. KeptOf(hits, n - 1 + 1, Keep(g[n - 1], hits[n - 1 + 1]))  BY <2>4, <2>5, KeepKeeps
  <2> QED  BY <2>2, <2>4, <2>6, <2>7
<1> QED  BY <1>1, <1>4, <1>6

\* One stretch after another, and three.
Appended(s, t) == s \o t

LEMMA AppendedIs ==
    ASSUME NEW T, NEW s \in Seq(T), NEW t \in Seq(T)
    PROVE  /\ Appended(s, t) \in Seq(T) /\ Len(Appended(s, t)) = Len(s) + Len(t)
           /\ \A k \in 1 .. Len(s) : Appended(s, t)[k] = s[k]
           /\ \A k \in Len(s) + 1 .. Len(s) + Len(t) : Appended(s, t)[k] = t[k - Len(s)]
<1>1. Appended(s, t) \in Seq(T) /\ Len(Appended(s, t)) = Len(s) + Len(t)  BY DEF Appended
<1>2. ASSUME NEW k \in 1 .. Len(s) PROVE Appended(s, t)[k] = s[k]  BY DEF Appended
<1>3. ASSUME NEW k \in Len(s) + 1 .. Len(s) + Len(t) PROVE Appended(s, t)[k] = t[k - Len(s)]
  BY DEF Appended
<1> QED  BY <1>1, <1>2, <1>3

LEMMA InsertedIs ==
    ASSUME NEW T, NEW head \in Seq(T), NEW mid \in Seq(T), NEW tail \in Seq(T)
    PROVE  /\ Appended(Appended(head, mid), tail) \in Seq(T)
           /\ Len(Appended(Appended(head, mid), tail)) = Len(head) + Len(mid) + Len(tail)
           /\ \A k \in 1 .. Len(head) : Appended(Appended(head, mid), tail)[k] = head[k]
           /\ \A k \in Len(head) + 1 .. Len(head) + Len(mid) :
                 Appended(Appended(head, mid), tail)[k] = mid[k - Len(head)]
           /\ \A k \in Len(head) + Len(mid) + 1 .. Len(head) + Len(mid) + Len(tail) :
                 Appended(Appended(head, mid), tail)[k] = tail[k - (Len(head) + Len(mid))]
<1> DEFINE front == Appended(head, mid)
           whole == Appended(front, tail)
<1>1. Len(head) \in Nat /\ Len(mid) \in Nat /\ Len(tail) \in Nat  OBVIOUS
<1>2. front \in Seq(T)  BY AppendedIs
<1>3. Len(front) = Len(head) + Len(mid)  BY AppendedIs
<1>4. \A k \in 1 .. Len(head) : front[k] = head[k]  BY AppendedIs
<1>5. \A k \in Len(head) + 1 .. Len(head) + Len(mid) : front[k] = mid[k - Len(head)]  BY AppendedIs
<1> HIDE DEF front
<1>6. whole \in Seq(T) /\ Len(whole) = Len(front) + Len(tail)  BY <1>2, AppendedIs
<1>7. \A k \in 1 .. Len(front) : whole[k] = front[k]  BY <1>2, AppendedIs
<1>8. \A k \in Len(front) + 1 .. Len(front) + Len(tail) : whole[k] = tail[k - Len(front)]  BY <1>2, AppendedIs
<1> HIDE DEF whole
<1>9. \A k \in 1 .. Len(head) : whole[k] = head[k]  BY <1>1, <1>3, <1>4, <1>7
<1>10. \A k \in Len(head) + 1 .. Len(head) + Len(mid) : whole[k] = mid[k - Len(head)]
  BY <1>1, <1>3, <1>5, <1>7
<1>11. \A k \in Len(head) + Len(mid) + 1 .. Len(head) + Len(mid) + Len(tail) :
          whole[k] = tail[k - (Len(head) + Len(mid))]
  BY <1>3, <1>8
<1> QED  BY <1>3, <1>6, <1>9, <1>10, <1>11 DEF whole, front

\* A companion takes a place of the cap, never one that another left free.
LEMMA RetainedIs ==
    ASSUME NEW pool \in Seq(Hit), NoRepeats(pool)
    PROVE  /\ RetainCompanion(pool) \in Seq(Hit) /\ Len(RetainCompanion(pool)) <= TopK
           /\ NoRepeats(RetainCompanion(pool)) /\ IdsOf(RetainCompanion(pool)) \subseteq IdsOf(pool)
           /\ IdsOf(pool) \subseteq IdsOf(RetainCompanion(pool)) \/ Len(RetainCompanion(pool)) = TopK
           /\ Len(pool) > 0 =>
                 Len(RetainCompanion(pool)) > 0 /\ RetainCompanion(pool)[1] = pool[1]
<1> DEFINE selected == Prefix(pool, TopK)
           Eligible(a) == {i \in DOMAIN pool :
               /\ pool[i].id \notin IdsOf(selected)
               /\ IsCompanion(selected[a].id, pool[i].id)
               /\ EvidenceScore(pool[i]) >= Threshold}
           Preferred(a) == {i \in Eligible(a) : DirectFigure(selected[a].id, pool[i].id)}
           Companions(a) == IF Preferred(a) = {} THEN Eligible(a) ELSE Preferred(a)
           Anchors == {a \in DOMAIN selected :
               /\ a < TopK
               /\ payload[selected[a].id].kind = "chunk"
               /\ EvidenceScore(selected[a]) >= Threshold
               /\ ~\E p \in IdsOf(selected) : IsCompanion(selected[a].id, p)
               /\ Eligible(a) # {}}
           a == CHOOSE x \in Anchors : \A y \in Anchors : x <= y
           c == CHOOSE x \in Companions(a) : \A y \in Companions(a) : x <= y
           long == SubSeq(selected, 1, a) \o <<pool[c]>> \o SubSeq(selected, a + 1, Len(selected))
           kept == RetainCompanion(pool)
<1>1. TopK \in Nat /\ TopK > 0 /\ DOMAIN pool = 1 .. Len(pool) /\ Len(pool) \in Nat
  BY RetrievalAssumption
<1>2. /\ selected \in Seq(Hit) /\ DOMAIN selected = 1 .. Len(selected) /\ Len(selected) \in Nat
      /\ Len(selected) = IF TopK < Len(pool) THEN TopK ELSE Len(pool)
      /\ \A k \in 1 .. Len(selected) : selected[k] = pool[k]
      /\ Part(selected, pool)
  BY <1>1, PrefixOf
<1>3. IdsOf(selected) \subseteq IdsOf(pool) /\ NoRepeats(selected)  BY <1>2, PartOfHits
<1>4. CASE ~wanted.lineage \/ TopK < 2 \/ Anchors = {}
  <2>1. kept = selected  BY <1>4 DEF RetainCompanion
  <2>2. IdsOf(pool) \subseteq IdsOf(selected) \/ Len(selected) = TopK  BY <1>1, <1>2 DEF IdsOf
  <2>3. Len(pool) > 0 => Len(selected) > 0 /\ selected[1] = pool[1]  BY <1>1, <1>2
  <2> HIDE DEF kept, selected
  <2>4. Len(selected) <= TopK  BY <1>1, <1>2
  <2> QED  BY <1>2, <1>3, <2>1, <2>2, <2>3, <2>4 DEF kept
<1>5. CASE ~(~wanted.lineage \/ TopK < 2 \/ Anchors = {})
  <2>1. kept = Prefix(long, TopK)  BY <1>5 DEF RetainCompanion
  <2>2. a \in Anchors
    <3>1. Anchors \in SUBSET Nat  BY <1>2
    <3>2. \E x \in Anchors : \A y \in Anchors : x <= y  BY <1>5, <3>1, NatMin
    <3> QED  BY <3>2
  <2>3. a \in 1 .. Len(selected) /\ Eligible(a) # {}  BY <1>2, <2>2
  <2>4. c \in Eligible(a)
    <3> HIDE DEF a
    <3>1. Companions(a) # {} /\ Companions(a) \subseteq Eligible(a)  BY <2>3
    <3>2. Companions(a) \in SUBSET Nat  BY <1>1, <3>1
    <3> HIDE DEF Companions
    <3>3. \E x \in Companions(a) : \A y \in Companions(a) : x <= y  BY <3>1, <3>2, NatMin
    <3> QED  BY <3>1, <3>3
  <2>5. c \in 1 .. Len(pool) /\ pool[c].id \notin IdsOf(selected)  BY <1>1, <2>4
  <2> HIDE DEF a, c, selected, kept
  <2>6. pool[c] \in Hit  BY <2>5
  <2>7. Len(selected) = TopK
    <3> SUFFICES ASSUME Len(selected) # TopK PROVE FALSE  OBVIOUS
    <3>1. c \in 1 .. Len(selected) /\ selected[c] = pool[c]  BY <1>1, <1>2, <2>5
    <3> QED  BY <1>2, <2>5, <3>1 DEF IdsOf
  <2>8. /\ long \in Seq(Hit) /\ Len(long) = Len(selected) + 1
        /\ \A k \in 1 .. Len(selected) + 1 :
              long[k] = IF k <= a THEN selected[k] ELSE IF k = a + 1 THEN pool[c] ELSE selected[k - 1]
    <3>1. /\ SubSeq(selected, 1, a) \in Seq(Hit) /\ Len(SubSeq(selected, 1, a)) = a
          /\ \A k \in 1 .. a : SubSeq(selected, 1, a)[k] = selected[k]
      BY <1>2, <2>3
    <3>2. /\ SubSeq(selected, a + 1, Len(selected)) \in Seq(Hit)
          /\ Len(SubSeq(selected, a + 1, Len(selected))) = Len(selected) - a
          /\ \A k \in 1 .. Len(selected) - a :
                SubSeq(selected, a + 1, Len(selected))[k] = selected[a + k]
      BY <1>2, <2>3
    <3> DEFINE head == SubSeq(selected, 1, a)
               tail == SubSeq(selected, a + 1, Len(selected))
    <3>3. long = head \o <<pool[c]>> \o tail  OBVIOUS
    <3> HIDE DEF head, tail, long
    <3>4. head \in Seq(Hit) /\ Len(head) = a /\ \A k \in 1 .. a : head[k] = selected[k]
      BY <3>1 DEF head
    <3>5. /\ tail \in Seq(Hit) /\ Len(tail) = Len(selected) - a
          /\ \A k \in 1 .. Len(selected) - a : tail[k] = selected[a + k]
      BY <3>2 DEF tail
    <3>6. /\ long \in Seq(Hit) /\ Len(long) = a + 1 + (Len(selected) - a)
          /\ \A k \in 1 .. a : long[k] = head[k]
          /\ long[a + 1] = pool[c]
          /\ \A k \in a + 2 .. a + 1 + (Len(selected) - a) : long[k] = tail[k - (a + 1)]
      <4> DEFINE one == <<pool[c]>>
                 whole == Appended(Appended(head, one), tail)
      <4>1. one \in Seq(Hit) /\ Len(one) = 1 /\ one[1] = pool[c]  BY <2>6
      <4>2. long = whole  BY <3>3 DEF Appended
      <4> HIDE DEF one
      <4>3. head \in Seq(Hit) /\ one \in Seq(Hit) /\ tail \in Seq(Hit)  BY <3>4, <3>5, <4>1
      <4>4. whole \in Seq(Hit)  BY <4>3, InsertedIs
      <4>5. Len(whole) = Len(head) + Len(one) + Len(tail)  BY <4>3, InsertedIs
      <4>6. \A k \in 1 .. Len(head) : whole[k] = head[k]  BY <4>3, InsertedIs
      <4>7. \A k \in Len(head) + 1 .. Len(head) + Len(one) : whole[k] = one[k - Len(head)]
        BY <4>3, InsertedIs
      <4>8. \A k \in Len(head) + Len(one) + 1 .. Len(head) + Len(one) + Len(tail) :
               whole[k] = tail[k - (Len(head) + Len(one))]
        BY <4>3, InsertedIs
      <4> HIDE DEF whole
      <4>9. a + 1 \in a + 1 .. a + 1 /\ a + 1 - a = 1 /\ a + 1 + 1 = a + 2  BY <2>3
      <4>10. long[a + 1] = pool[c]  BY <3>4, <4>1, <4>2, <4>7, <4>9
      <4>11. \A k \in a + 2 .. a + 1 + (Len(selected) - a) : long[k] = tail[k - (a + 1)]
        BY <3>4, <3>5, <4>1, <4>2, <4>8, <4>9
      <4> QED  BY <3>4, <3>5, <4>1, <4>2, <4>4, <4>5, <4>6, <4>10, <4>11
    <3>7. Len(long) = Len(selected) + 1
      <4> DEFINE n == Len(selected)
                 l == Len(long)
      <4>1. n \in Nat /\ a \in 1 .. n /\ l = a + 1 + (n - a)  BY <1>2, <2>3, <3>6
      <4> HIDE DEF n, l
      <4>2. l = n + 1  BY <4>1
      <4> QED  BY <4>2 DEF n, l
    <3>8. ASSUME NEW k \in 1 .. Len(selected) + 1
          PROVE  long[k] = IF k <= a THEN selected[k] ELSE IF k = a + 1 THEN pool[c] ELSE selected[k - 1]
      <4>1. CASE k <= a  BY <3>4, <3>6, <4>1
      <4>2. CASE k = a + 1
        <5>1. ~(k <= a)  BY <1>2, <2>3, <4>2
        <5> QED  BY <3>6, <4>2, <5>1
      <4>3. CASE k > a + 1
        <5>1. /\ k - (a + 1) \in 1 .. Len(selected) - a /\ a + (k - (a + 1)) = k - 1
              /\ k \in a + 2 .. a + 1 + (Len(selected) - a) /\ ~(k <= a) /\ k # a + 1
          BY <1>2, <2>3, <4>3
        <5>2. long[k] = tail[k - (a + 1)] /\ tail[k - (a + 1)] = selected[k - 1]  BY <3>5, <3>6, <5>1
        <5> QED  BY <5>1, <5>2
      <4> QED  BY <1>2, <2>3, <4>1, <4>2, <4>3
    <3> QED  BY <3>6, <3>7, <3>8
  <2> HIDE DEF long
  <2>9. NoRepeats(long)
    <3> DEFINE src(k) == IF k <= a THEN k ELSE k - 1
    <3>1. \A k \in 1 .. Len(selected) + 1 :
             k # a + 1 => src(k) \in 1 .. Len(selected) /\ long[k] = selected[src(k)]
      BY <1>2, <2>3, <2>8
    <3>2. \A i, j \in 1 .. Len(selected) + 1 :
             i # a + 1 /\ j # a + 1 /\ src(i) = src(j) => i = j
      BY <1>2, <2>3
    <3>3. a + 1 \in 1 .. Len(selected) + 1 /\ long[a + 1] = pool[c]  BY <1>2, <2>3, <2>8
    <3>4. \A k \in 1 .. Len(selected) : selected[k].id # pool[c].id  BY <1>2, <2>5 DEF IdsOf
    <3> HIDE DEF src
    <3> SUFFICES ASSUME NEW i \in 1 .. Len(selected) + 1, NEW j \in 1 .. Len(selected) + 1,
                        long[i].id = long[j].id
                 PROVE  i = j
      BY <2>8 DEF NoRepeats
    <3>5. CASE i # a + 1 /\ j # a + 1
      <4>1. src(i) = src(j)  BY <1>3, <3>1, <3>5 DEF NoRepeats
      <4> QED  BY <3>2, <3>5, <4>1
    <3>6. CASE i = a + 1 /\ j # a + 1  BY <3>1, <3>3, <3>4, <3>6
    <3>7. CASE i # a + 1 /\ j = a + 1  BY <3>1, <3>3, <3>4, <3>7
    <3> QED  BY <3>5, <3>6, <3>7
  <2>10. IdsOf(long) \subseteq IdsOf(pool)
    <3> SUFFICES ASSUME NEW k \in 1 .. Len(selected) + 1 PROVE long[k].id \in IdsOf(pool)
      BY <2>8 DEF IdsOf
    <3>1. CASE k = a + 1
      <4>1. a + 1 \in 1 .. Len(selected) + 1 /\ ~(a + 1 <= a)  BY <1>2, <2>3
      <4>2. long[k] = pool[c]  BY <2>8, <3>1, <4>1
      <4>3. pool[c].id \in IdsOf(pool)  BY <1>1, <2>5 DEF IdsOf
      <4> QED  BY <4>2, <4>3
    <3>2. CASE k # a + 1
      <4>1. PICK i \in 1 .. Len(selected) : long[k] = selected[i]
        <5>1. k <= a => k \in 1 .. Len(selected)  BY <1>2, <2>3
        <5>2. ~(k <= a) => k - 1 \in 1 .. Len(selected)  BY <1>2, <2>3, <3>2
        <5> QED  BY <2>8, <3>2, <5>1, <5>2
      <4>2. selected[i].id \in IdsOf(selected)  BY <1>2 DEF IdsOf
      <4> QED  BY <1>3, <4>1, <4>2
    <3> QED  BY <3>1, <3>2
  <2>11. /\ kept \in Seq(Hit) /\ Len(kept) = IF TopK < Len(long) THEN TopK ELSE Len(long)
         /\ \A k \in 1 .. Len(kept) : kept[k] = long[k]
         /\ Part(kept, long)
    BY <1>1, <2>1, <2>8, PrefixOf
  <2>12. Len(kept) = TopK  BY <1>1, <2>7, <2>8, <2>11
  <2>13. kept[1] = pool[1]
    <3>1. 1 \in 1 .. Len(kept) /\ 1 \in 1 .. Len(selected) + 1 /\ 1 <= a /\ 1 \in 1 .. Len(selected)
      BY <1>1, <1>2, <2>3, <2>12
    <3> QED  BY <1>2, <2>8, <2>11, <3>1
  <2>14. IdsOf(kept) \subseteq IdsOf(long) /\ NoRepeats(kept)  BY <2>8, <2>9, <2>11, PartOfHits
  <2> QED  BY <1>1, <2>10, <2>11, <2>12, <2>13, <2>14 DEF kept
<1> QED  BY <1>4, <1>5

(***************************************************************************)
(* The fusion of the two lists                                             *)
(***************************************************************************)

LEMMA MostIs == DenseK \in Nat /\ DenseK > 0
<1> DEFINE S == {TopK, RerankTopK, Bm25TopK}
<1>1. TopK \in Nat \ {0} /\ RerankTopK \in Nat \ {0} /\ Bm25TopK \in Nat \ {0}  BY RetrievalAssumption
<1>2. \E k \in S : \A j \in S : j <= k
  <2>1. CASE RerankTopK <= TopK /\ Bm25TopK <= TopK  BY <1>1, <2>1
  <2>2. CASE TopK <= RerankTopK /\ Bm25TopK <= RerankTopK  BY <1>1, <2>2
  <2>3. CASE TopK <= Bm25TopK /\ RerankTopK <= Bm25TopK  BY <1>1, <2>3
  <2> QED  BY <1>1, <2>1, <2>2, <2>3
<1>3. DenseK \in S  BY <1>2 DEF DenseK
<1> QED  BY <1>1, <1>3

LEMMA PlaceIs ==
    ASSUME NEW hits \in Seq(Hit), NEW p \in IdsOf(hits)
    PROVE  /\ Place(hits, p) \in 1 .. Len(hits) /\ hits[Place(hits, p)].id = p
           /\ \A i \in 1 .. Len(hits) : NoRepeats(hits) /\ hits[i].id = p => Place(hits, p) = i
<1>1. DOMAIN hits = 1 .. Len(hits)  OBVIOUS
<1>2. \E i \in DOMAIN hits : hits[i].id = p  BY DEF IdsOf
<1>3. Place(hits, p) \in DOMAIN hits /\ hits[Place(hits, p)].id = p  BY <1>2 DEF Place
<1> QED  BY <1>1, <1>3 DEF NoRepeats

\* Products grow with their factors.
LEMMA Products ==
    ASSUME NEW x \in Int, NEW y \in Int, NEW z \in Int, z > 0, x < y
    PROVE  x * z < y * z /\ z * x < z * y
<1>1. (y - x) * z > 0
  <2>1. y - x > 0 /\ y - x \in Int  OBVIOUS
  <2> QED  BY <2>1
<1> QED  BY <1>1

\* Fractions with positive denominators are ordered by cross-multiplication.
LEMMA FractionsAreOrdered ==
    ASSUME NEW a \in Int, NEW b \in Int, NEW c \in Int, NEW d \in Int, NEW e \in Int, NEW f \in Int,
           b > 0, d > 0, f > 0, ~(a * d > c * b), ~(c * f > e * d)
    PROVE  ~(a * f > e * b)
<1>1. ~((c * b) * f < (a * d) * f)
  <2>1. CASE a * d = c * b  BY <2>1
  <2>2. CASE a * d < c * b
    <3>1. (a * d) * f < (c * b) * f
      <4>1. a * d \in Int /\ c * b \in Int  OBVIOUS
      <4> QED  BY <2>2, <4>1, Products
    <3> QED  BY <3>1
  <2> QED  BY <2>1, <2>2
<1>2. ~((e * d) * b < (c * f) * b)
  <2>1. CASE c * f = e * d  BY <2>1
  <2>2. CASE c * f < e * d
    <3>1. (c * f) * b < (e * d) * b
      <4>1. c * f \in Int /\ e * d \in Int  OBVIOUS
      <4> QED  BY <2>2, <4>1, Products
    <3> QED  BY <3>1
  <2> QED  BY <2>1, <2>2
<1> SUFFICES ASSUME a * f > e * b PROVE FALSE  OBVIOUS
<1>3. (e * b) * d < (a * f) * d
  <2>1. a * f \in Int /\ e * b \in Int /\ e * b < a * f  OBVIOUS
  <2> QED  BY <2>1, Products
<1>4. (c * b) * f = (c * f) * b /\ (a * d) * f = (a * f) * d /\ (e * d) * b = (e * b) * d  OBVIOUS
<1> QED  BY <1>1, <1>2, <1>3, <1>4

\* The greater fraction is above.
Above(n, num, den) ==
    {pair \in (1 .. n) \X (1 .. n) : num[pair[1]] * den[pair[2]] > num[pair[2]] * den[pair[1]]}

LEMMA AboveIsWeak ==
    ASSUME NEW n \in Nat, NEW num \in [1 .. n -> Int], NEW den \in [1 .. n -> Nat \ {0}]
    PROVE  /\ Weak(n, Above(n, num, den))
           /\ \A i, j \in 1 .. n : <<i, j>> \in Above(n, num, den) <=> num[i] * den[j] > num[j] * den[i]
<1>1. \A i, j \in 1 .. n : <<i, j>> \in Above(n, num, den) <=> num[i] * den[j] > num[j] * den[i]
  BY DEF Above
<1>2. \A i \in 1 .. n : num[i] \in Int /\ den[i] \in Int /\ den[i] > 0  OBVIOUS
<1>3. ASSUME NEW i \in 1 .. n PROVE <<i, i>> \notin Above(n, num, den)
  <2>1. ~(num[i] * den[i] > num[i] * den[i])  BY <1>2
  <2> QED  BY <1>1, <2>1
<1>4. ASSUME NEW i \in 1 .. n, NEW j \in 1 .. n, <<i, j>> \in Above(n, num, den)
      PROVE  <<j, i>> \notin Above(n, num, den)
  <2>1. num[i] * den[j] \in Int /\ num[j] * den[i] \in Int  BY <1>2
  <2>2. num[i] * den[j] > num[j] * den[i]  BY <1>1, <1>4
  <2>3. ~(num[j] * den[i] > num[i] * den[j])  BY <2>1, <2>2
  <2> QED  BY <1>1, <2>3
<1>5. ASSUME NEW i \in 1 .. n, NEW j \in 1 .. n, NEW k \in 1 .. n, <<i, k>> \in Above(n, num, den)
      PROVE  <<i, j>> \in Above(n, num, den) \/ <<j, k>> \in Above(n, num, den)
  <2> SUFFICES ASSUME ~(num[i] * den[j] > num[j] * den[i]), ~(num[j] * den[k] > num[k] * den[j])
               PROVE  FALSE
    BY <1>1
  <2>1. ~(num[i] * den[k] > num[k] * den[i])  BY <1>2, FractionsAreOrdered
  <2> QED  BY <1>1, <1>5, <2>1
<1> QED  BY <1>1, <1>3, <1>4, <1>5 DEF Weak

\* Every place of two lists is a place of the one or of the other.
LEMMA AppendedCases ==
    ASSUME NEW T, NEW d \in Seq(T), NEW rest \in Seq(T)
    PROVE  \A k \in 1 .. Len(d) + Len(rest) :
              \/ k \in 1 .. Len(d) /\ Appended(d, rest)[k] = d[k]
              \/ k > Len(d) /\ k - Len(d) \in 1 .. Len(rest) /\ Appended(d, rest)[k] = rest[k - Len(d)]
<1> DEFINE all == Appended(d, rest)
           n == Len(d)
           m == Len(rest)
<1>1. n \in Nat /\ m \in Nat  OBVIOUS
<1>2. \A k \in 1 .. Len(d) : all[k] = d[k]  BY AppendedIs
<1>3. \A k \in Len(d) + 1 .. Len(d) + Len(rest) : all[k] = rest[k - Len(d)]  BY AppendedIs
<1> SUFFICES ASSUME NEW k \in 1 .. n + m
             PROVE  \/ k \in 1 .. n /\ all[k] = d[k]
                    \/ k > n /\ k - n \in 1 .. m /\ all[k] = rest[k - n]
  OBVIOUS
<1> HIDE DEF all
<1>4. CASE k <= n
  <2>1. k \in 1 .. n  BY <1>1, <1>4
  <2>2. all[k] = d[k]  BY <1>2, <2>1
  <2> QED  BY <2>1, <2>2
<1>5. CASE k > n
  <2>1. k \in n + 1 .. n + m /\ k - n \in 1 .. m  BY <1>1, <1>5
  <2> QED  BY <1>3, <1>5, <2>1
<1> QED  BY <1>1, <1>4, <1>5

\* Two lists with nothing in common.
LEMMA AppendedHits ==
    ASSUME NEW d \in Seq(Hit), NEW rest \in Seq(Hit), NoRepeats(d), NoRepeats(rest),
           IdsOf(d) \cap IdsOf(rest) = {}
    PROVE  /\ Appended(d, rest) \in Seq(Hit) /\ NoRepeats(Appended(d, rest))
           /\ Len(Appended(d, rest)) = Len(d) + Len(rest)
           /\ IdsOf(Appended(d, rest)) = IdsOf(d) \cup IdsOf(rest)
<1> DEFINE all == Appended(d, rest)
           n == Len(d)
           m == Len(rest)
<1>1. all \in Seq(Hit)  BY AppendedIs
<1>2. Len(all) = Len(d) + Len(rest)  BY AppendedIs
<1>3. \A k \in 1 .. Len(d) : all[k] = d[k]  BY AppendedIs
<1>4. \A k \in Len(d) + 1 .. Len(d) + Len(rest) : all[k] = rest[k - Len(d)]  BY AppendedIs
<1>6. \A k \in 1 .. n + m :
          \/ k \in 1 .. n /\ all[k] = d[k]
          \/ k > n /\ k - n \in 1 .. m /\ all[k] = rest[k - n]
  BY AppendedCases
<1> HIDE DEF all
<1>5. n \in Nat /\ m \in Nat /\ DOMAIN all = 1 .. n + m /\ DOMAIN d = 1 .. n /\ DOMAIN rest = 1 .. m
  BY <1>1, <1>2
<1>7. IdsOf(all) \subseteq IdsOf(d) \cup IdsOf(rest)  BY <1>5, <1>6 DEF IdsOf
<1>8. IdsOf(d) \subseteq IdsOf(all)
  <2>1. \A k \in 1 .. n : k \in 1 .. n + m  BY <1>5
  <2> QED  BY <1>3, <1>5, <2>1 DEF IdsOf
<1>9. IdsOf(rest) \subseteq IdsOf(all)
  <2>1. \A k \in 1 .. m : n + k \in n + 1 .. n + m /\ n + k \in 1 .. n + m /\ (n + k) - n = k  BY <1>5
  <2>2. \A k \in 1 .. m : all[n + k] = rest[k]  BY <1>4, <2>1
  <2> QED  BY <1>5, <2>1, <2>2 DEF IdsOf
<1>10. NoRepeats(all)
  <2> SUFFICES ASSUME NEW i \in 1 .. n + m, NEW j \in 1 .. n + m, all[i].id = all[j].id
               PROVE  i = j
    BY <1>2, <1>5 DEF NoRepeats
  <2>1. \A x \in 1 .. n, y \in 1 .. m : d[x].id # rest[y].id  BY <1>5 DEF IdsOf
  <2>2. CASE i \in 1 .. n /\ all[i] = d[i] /\ j \in 1 .. n /\ all[j] = d[j]  BY <2>2 DEF NoRepeats
  <2>3. CASE i > n /\ i - n \in 1 .. m /\ all[i] = rest[i - n] /\ j > n /\ j - n \in 1 .. m /\ all[j] = rest[j - n]
    <3>1. i - n = j - n  BY <2>3 DEF NoRepeats
    <3> QED  BY <1>5, <3>1
  <2>4. CASE i \in 1 .. n /\ all[i] = d[i] /\ j > n /\ j - n \in 1 .. m /\ all[j] = rest[j - n]
    BY <2>1, <2>4
  <2>5. CASE j \in 1 .. n /\ all[j] = d[j] /\ i > n /\ i - n \in 1 .. m /\ all[i] = rest[i - n]
    BY <2>1, <2>5
  <2> QED  BY <1>6, <2>2, <2>3, <2>4, <2>5
<1> QED  BY <1>1, <1>2, <1>7, <1>8, <1>9, <1>10 DEF all

\* The list that is fused: the dense hits, and the lexical ones that are not among them.
Both(d, l) == d \o Picked(l, {i \in DOMAIN l : l[i].id \notin IdsOf(d)})

LEMMA BothIs ==
    ASSUME NEW d \in Seq(Hit), NEW l \in Seq(Hit), NoRepeats(d), NoRepeats(l)
    PROVE  /\ Both(d, l) \in Seq(Hit) /\ NoRepeats(Both(d, l))
           /\ IdsOf(Both(d, l)) = IdsOf(d) \cup IdsOf(l)
           /\ l = <<>> => Len(Both(d, l)) = Len(d)
<1> DEFINE places == {i \in DOMAIN l : l[i].id \notin IdsOf(d)}
           rest == Picked(l, places)
           all == Appended(d, rest)
<1>1. Both(d, l) = all  BY DEF Both, Appended
<1>2. places \in SUBSET (1 .. Len(l)) /\ DOMAIN d = 1 .. Len(d) /\ DOMAIN l = 1 .. Len(l)  OBVIOUS
<1>3. rest \in Seq(Hit) /\ Len(rest) <= Len(l) /\ Part(rest, l)  BY <1>2, PickedOf
<1>4. \A k \in 1 .. Len(rest) : \E p \in places : rest[k] = l[p]  BY <1>2, PickedOf
<1>5. \A p \in places : \E k \in 1 .. Len(rest) : rest[k] = l[p]  BY <1>2, PickedOf
<1>6. \A k \in 1 .. Len(rest) : rest[k].id \notin IdsOf(d)
  <2> TAKE k \in 1 .. Len(rest)
  <2>1. PICK p \in places : rest[k] = l[p]  BY <1>4
  <2> QED  BY <2>1
<1>7. IdsOf(rest) \subseteq IdsOf(l) /\ NoRepeats(rest)  BY <1>3, PartOfHits
<1>8. DOMAIN rest = 1 .. Len(rest)  BY <1>3
<1>9. IdsOf(l) \subseteq IdsOf(d) \cup IdsOf(rest)
  <2> SUFFICES ASSUME NEW p \in IdsOf(l), p \notin IdsOf(d) PROVE p \in IdsOf(rest)  OBVIOUS
  <2>1. PICK i \in DOMAIN l : l[i].id = p  BY DEF IdsOf
  <2>2. i \in places  BY <2>1
  <2>3. PICK k \in 1 .. Len(rest) : rest[k] = l[i]  BY <1>5, <2>2
  <2> QED  BY <1>8, <2>1, <2>3 DEF IdsOf
<1>10. l = <<>> => Len(rest) = 0  BY <1>3
<1> HIDE DEF rest, places
<1>11. IdsOf(d) \cap IdsOf(rest) = {}  BY <1>6, <1>8 DEF IdsOf
<1>12. /\ all \in Seq(Hit) /\ NoRepeats(all) /\ Len(all) = Len(d) + Len(rest)
       /\ IdsOf(all) = IdsOf(d) \cup IdsOf(rest)
  BY <1>3, <1>7, <1>11, AppendedHits
<1> HIDE DEF all
<1>13. IdsOf(all) = IdsOf(d) \cup IdsOf(l)  BY <1>7, <1>9, <1>12
<1>14. l = <<>> => Len(all) = Len(d)
  <2>1. Len(d) \in Nat  OBVIOUS
  <2> QED  BY <1>10, <1>12, <2>1
<1> QED  BY <1>1, <1>12, <1>13, <1>14

\* The better of two hits in each list contributes more.
LEMMA ContributionIs ==
    ASSUME NEW d \in Seq(Hit), NEW l \in Seq(Hit), NEW p \in IdsOf(d) \cup IdsOf(l)
    PROVE  Contribution(d, l, p)[1] \in Int /\ Contribution(d, l, p)[2] \in Nat \ {0}
<1> DEFINE a == RrfK + Place(d, p)
           b == RrfK + Place(l, p)
           c == Contribution(d, l, p)
<1>1. RrfK \in Nat  BY RetrievalAssumption
<1>2. p \in IdsOf(d) => a \in Nat /\ a > 0
  <2> HAVE p \in IdsOf(d)
  <2>1. Place(d, p) \in Nat /\ Place(d, p) > 0  BY PlaceIs
  <2> QED  BY <1>1, <2>1
<1>3. p \in IdsOf(l) => b \in Nat /\ b > 0
  <2> HAVE p \in IdsOf(l)
  <2>1. Place(l, p) \in Nat /\ Place(l, p) > 0  BY PlaceIs
  <2> QED  BY <1>1, <2>1
<1> HIDE DEF a, b
<1>4. CASE p \in IdsOf(d) /\ p \in IdsOf(l)
  <2>1. c = <<a + b, a * b>>  BY <1>4 DEF Contribution, a, b
  <2>2. a * b > 0 /\ a * b \in Nat
    <3>1. a \in Int /\ b \in Int /\ a > 0 /\ 0 < b  BY <1>2, <1>3, <1>4
    <3>2. 0 * a < b * a  BY <3>1, Products
    <3>3. a * b \in Int /\ a * b > 0  BY <3>1, <3>2
    <3> QED  BY <3>3
  <2>3. c[1] = a + b /\ c[2] = a * b  BY <2>1
  <2> QED  BY <1>2, <1>3, <1>4, <2>2, <2>3
<1>5. CASE p \in IdsOf(d) /\ p \notin IdsOf(l)
  <2>1. c = <<1, a>>  BY <1>5 DEF Contribution, a, b
  <2> QED  BY <1>2, <1>5, <2>1
<1>6. CASE p \notin IdsOf(d)
  <2>1. c = <<1, b>>  BY <1>6 DEF Contribution, a, b
  <2> QED  BY <1>3, <1>6, <2>1
<1> QED  BY <1>4, <1>5, <1>6

Before(hits, p, q) == q \in IdsOf(hits) => p \in IdsOf(hits) /\ Place(hits, p) < Place(hits, q)

LEMMA BetterContributesMore ==
    ASSUME NEW d \in Seq(Hit), NEW l \in Seq(Hit),
           NEW p \in IdsOf(d) \cup IdsOf(l), NEW q \in IdsOf(d) \cup IdsOf(l),
           Before(d, p, q), Before(l, p, q)
    PROVE  Contribution(d, l, p)[1] * Contribution(d, l, q)[2] > Contribution(d, l, q)[1] * Contribution(d, l, p)[2]
<1> DEFINE a == RrfK + Place(d, p)
           b == RrfK + Place(l, p)
           e == RrfK + Place(d, q)
           f == RrfK + Place(l, q)
           c == Contribution(d, l, p)
           g == Contribution(d, l, q)
<1>1. RrfK \in Nat  BY RetrievalAssumption
<1>2. q \in IdsOf(d) => p \in IdsOf(d) /\ e \in Int /\ a < e
  <2> HAVE q \in IdsOf(d)
  <2>1. p \in IdsOf(d) /\ Place(d, p) < Place(d, q)  BY DEF Before
  <2>2. Place(d, p) \in Nat /\ Place(d, q) \in Nat  BY <2>1, PlaceIs
  <2> QED  BY <1>1, <2>1, <2>2
<1>3. q \in IdsOf(l) => p \in IdsOf(l) /\ f \in Int /\ b < f
  <2> HAVE q \in IdsOf(l)
  <2>1. p \in IdsOf(l) /\ Place(l, p) < Place(l, q)  BY DEF Before
  <2>2. Place(l, p) \in Nat /\ Place(l, q) \in Nat  BY <2>1, PlaceIs
  <2> QED  BY <1>1, <2>1, <2>2
<1>4. p \in IdsOf(d) => a \in Int /\ a > 0
  <2> HAVE p \in IdsOf(d)
  <2>1. Place(d, p) \in Nat /\ Place(d, p) > 0  BY PlaceIs
  <2> QED  BY <1>1, <2>1
<1>5. p \in IdsOf(l) => b \in Int /\ b > 0
  <2> HAVE p \in IdsOf(l)
  <2>1. Place(l, p) \in Nat /\ Place(l, p) > 0  BY PlaceIs
  <2> QED  BY <1>1, <2>1
<1>6. /\ p \in IdsOf(d) /\ p \in IdsOf(l) => c = <<a + b, a * b>>
      /\ p \in IdsOf(d) /\ p \notin IdsOf(l) => c = <<1, a>>
      /\ p \notin IdsOf(d) => c = <<1, b>>
  BY DEF Contribution
<1>7. /\ q \in IdsOf(d) /\ q \in IdsOf(l) => g = <<e + f, e * f>>
      /\ q \in IdsOf(d) /\ q \notin IdsOf(l) => g = <<1, e>>
      /\ q \notin IdsOf(d) => g = <<1, f>>
  BY DEF Contribution
<1> HIDE DEF a, b, c, e, f, g
<1>8. CASE q \in IdsOf(d) /\ q \in IdsOf(l)
  <2>1. c[1] = a + b /\ c[2] = a * b /\ g[1] = e + f /\ g[2] = e * f  BY <1>2, <1>3, <1>6, <1>7, <1>8
  <2>2. /\ a \in Int /\ b \in Int /\ e \in Int /\ f \in Int /\ a > 0 /\ b > 0 /\ e > 0 /\ f > 0
        /\ a < e /\ b < f
    BY <1>2, <1>3, <1>4, <1>5, <1>8
  <2>3. (a * e) * b < (a * e) * f
    <3>1. 0 * e < a * e  BY <2>2, Products
    <3>2. a * e \in Int /\ a * e > 0  BY <2>2, <3>1
    <3> QED  BY <2>2, <3>2, Products
  <2>4. (b * f) * a < (b * f) * e
    <3>1. 0 * f < b * f  BY <2>2, Products
    <3>2. b * f \in Int /\ b * f > 0  BY <2>2, <3>1
    <3> QED  BY <2>2, <3>2, Products
  <2>5. /\ (a + b) * (e * f) = (a * e) * f + (b * f) * e
        /\ (e + f) * (a * b) = (a * e) * b + (b * f) * a
    BY <2>2
  <2>6. /\ (a * e) * f \in Int /\ (b * f) * e \in Int /\ (a * e) * b \in Int /\ (b * f) * a \in Int
    BY <2>2
  <2>7. (a + b) * (e * f) > (e + f) * (a * b)  BY <2>3, <2>4, <2>5, <2>6
  <2> QED  BY <2>1, <2>7 DEF c, g
<1>9. CASE q \in IdsOf(d) /\ q \notin IdsOf(l)
  <2>1. g[1] = 1 /\ g[2] = e /\ a \in Int /\ e \in Int /\ a > 0 /\ a < e  BY <1>2, <1>4, <1>7, <1>9
  <2>2. CASE p \in IdsOf(l)
    <3>1. c[1] = a + b /\ c[2] = a * b /\ b \in Int /\ b > 0  BY <1>2, <1>5, <1>6, <1>9, <2>2
    <3>2. b * a < b * e /\ 0 * e < a * e  BY <2>1, <3>1, Products
    <3>3. (a + b) * e = a * e + b * e /\ a * b = b * a /\ a * e \in Int /\ b * e \in Int /\ b * a \in Int
      BY <2>1, <3>1
    <3>4. 0 * e = 0 /\ 1 * (a * b) = b * a  BY <2>1, <3>1
    <3>5. (a + b) * e > 1 * (a * b)  BY <3>2, <3>3, <3>4
    <3> QED  BY <2>1, <3>1, <3>5 DEF c, g
  <2>3. CASE p \notin IdsOf(l)
    <3>1. c[1] = 1 /\ c[2] = a  BY <1>2, <1>6, <1>9, <2>3
    <3>2. 1 * e > 1 * a  BY <2>1
    <3> QED  BY <2>1, <3>1, <3>2 DEF c, g
  <2> QED  BY <2>2, <2>3
<1>10. CASE q \notin IdsOf(d)
  <2>1. g[1] = 1 /\ g[2] = f /\ b \in Int /\ f \in Int /\ b > 0 /\ b < f /\ p \in IdsOf(l)
    BY <1>3, <1>5, <1>7, <1>10
  <2>2. CASE p \in IdsOf(d)
    <3>1. c[1] = a + b /\ c[2] = a * b /\ a \in Int /\ a > 0  BY <1>4, <1>6, <2>1, <2>2
    <3>2. a * b < a * f /\ 0 * f < b * f  BY <2>1, <3>1, Products
    <3>3. (a + b) * f = a * f + b * f /\ a * b \in Int /\ a * f \in Int /\ b * f \in Int  BY <2>1, <3>1
    <3>4. 0 * f = 0 /\ 1 * (a * b) = a * b  BY <2>1, <3>1
    <3>5. (a + b) * f > 1 * (a * b)  BY <3>2, <3>3, <3>4
    <3> QED  BY <2>1, <3>1, <3>5 DEF c, g
  <2>3. CASE p \notin IdsOf(d)
    <3>1. c[1] = 1 /\ c[2] = b  BY <1>6, <2>3
    <3>2. 1 * f > 1 * b  BY <2>1
    <3> QED  BY <2>1, <3>1, <3>2 DEF c, g
  <2> QED  BY <2>2, <2>3
<1> QED  BY <1>8, <1>9, <1>10

\* What the fusion makes of the two lists.
LEMMA FusedIs ==
    ASSUME NEW d \in Seq(Hit), NEW l \in Seq(Hit), NoRepeats(d), NoRepeats(l)
    PROVE  /\ Fused(d, l) \in Seq(Hit) /\ NoRepeats(Fused(d, l))
           /\ IdsOf(Fused(d, l)) \subseteq IdsOf(d) \cup IdsOf(l)
           /\ l = <<>> /\ Len(d) <= DenseK => IdsOf(Fused(d, l)) = IdsOf(d)
           /\ \A p, q \in IdsOf(Fused(d, l)) :
                 Before(d, p, q) /\ Before(l, p, q) => Place(Fused(d, l), p) < Place(Fused(d, l), q)
<1> DEFINE all == Both(d, l)
           n == Len(all)
           num == [i \in 1 .. n |-> Contribution(d, l, all[i].id)[1]]
           den == [i \in 1 .. n |-> Contribution(d, l, all[i].id)[2]]
           above == Above(n, num, den)
           order == Sorted(all, above)
           fused == Fused(d, l)
<1>1. /\ all \in Seq(Hit) /\ NoRepeats(all) /\ IdsOf(all) = IdsOf(d) \cup IdsOf(l)
      /\ l = <<>> => n = Len(d)
  BY BothIs
<1>2. n \in Nat /\ DOMAIN all = 1 .. n  BY <1>1
<1>3. \A i \in 1 .. n : all[i].id \in IdsOf(d) \cup IdsOf(l)  BY <1>1, <1>2 DEF IdsOf
<1>4. fused = Prefix(order, DenseK)
  <2> DEFINE Sum(i) == Contribution(d, l, all[i].id)
             pairs == {pair \in (DOMAIN all) \X (DOMAIN all) :
                          Sum(pair[1])[1] * Sum(pair[2])[2] > Sum(pair[2])[1] * Sum(pair[1])[2]}
  <2>1. fused = Prefix(Sorted(all, pairs), DenseK)  BY DEF Fused, Both
  <2> HIDE DEF all
  <2>2. pairs = above  BY <1>2 DEF Above
  <2> QED  BY <2>1, <2>2
<1> HIDE DEF all, fused
<1>5. num \in [1 .. n -> Int] /\ den \in [1 .. n -> Nat \ {0}]
  <2>1. \A i \in 1 .. n : Contribution(d, l, all[i].id)[1] \in Int
                         /\ Contribution(d, l, all[i].id)[2] \in Nat \ {0}
    BY <1>3, ContributionIs
  <2> QED  BY <2>1
<1>6. /\ \A i \in 1 .. n : num[i] = Contribution(d, l, all[i].id)[1]
      /\ \A i \in 1 .. n : den[i] = Contribution(d, l, all[i].id)[2]
  OBVIOUS
<1> HIDE DEF num, den, n
<1>7. Weak(n, above) /\ \A i, j \in 1 .. n : <<i, j>> \in above <=> num[i] * den[j] > num[j] * den[i]
  BY <1>2, <1>5, AboveIsWeak
<1> HIDE DEF above
<1>8. PICK f : /\ Onto(f, n)
               /\ order = [k \in 1 .. n |-> all[f[k]]]
               /\ \A i, j \in 1 .. n : <<f[i], f[j]>> \in above => i < j
  BY <1>2, <1>7, SortedIs
<1>9. /\ order \in Seq(Hit) /\ Len(order) = n /\ Part(order, all)
      /\ \A i \in 1 .. n : \E k \in 1 .. n : order[k] = all[i]
  BY <1>1, <1>7, SortedOf DEF n
<1>10. \A k \in 1 .. n : f[k] \in 1 .. n /\ order[k] = all[f[k]]  BY <1>8 DEF Onto
<1> HIDE DEF order
<1>11. /\ fused \in Seq(Hit) /\ Len(fused) = IF DenseK < n THEN DenseK ELSE n
       /\ \A k \in 1 .. Len(fused) : fused[k] = order[k]
       /\ Part(fused, order)
  BY <1>4, <1>9, MostIs, PrefixOf
<1>12. IdsOf(order) \subseteq IdsOf(all) /\ NoRepeats(order)  BY <1>1, <1>9, PartOfHits
<1>13. IdsOf(fused) \subseteq IdsOf(order) /\ NoRepeats(fused)  BY <1>9, <1>11, <1>12, PartOfHits
<1>14. IdsOf(fused) \subseteq IdsOf(d) \cup IdsOf(l)  BY <1>1, <1>12, <1>13
<1>15. ASSUME l = <<>>, Len(d) <= DenseK PROVE IdsOf(fused) = IdsOf(d)
  <2>1. n = Len(d) /\ Len(fused) = n
    <3>1. n = Len(d)  BY <1>1, <1>15
    <3>2. n <= DenseK  BY <1>15, <3>1
    <3>3. n \in Nat /\ Len(fused) = IF DenseK < n THEN DenseK ELSE n  BY <1>2, <1>11
    <3>4. ~(DenseK < n)  BY <3>2, <3>3, MostIs
    <3> QED  BY <3>1, <3>3, <3>4
  <2>2. IdsOf(l) = {}  BY <1>15 DEF IdsOf
  <2>3. IdsOf(all) \subseteq IdsOf(fused)
    <3> SUFFICES ASSUME NEW p \in IdsOf(all) PROVE p \in IdsOf(fused)  OBVIOUS
    <3>1. PICK i \in 1 .. n : all[i].id = p  BY <1>2 DEF IdsOf
    <3>2. PICK k \in 1 .. n : order[k] = all[i]  BY <1>9
    <3>3. k \in DOMAIN fused /\ fused[k].id = p  BY <1>11, <2>1, <3>1, <3>2
    <3> QED  BY <3>3 DEF IdsOf
  <2> QED  BY <1>1, <1>14, <2>2, <2>3
<1>16. ASSUME NEW p \in IdsOf(fused), NEW q \in IdsOf(fused), Before(d, p, q), Before(l, p, q)
       PROVE  Place(fused, p) < Place(fused, q)
  <2> DEFINE u == Place(fused, p)
             v == Place(fused, q)
  <2>1. u \in 1 .. Len(fused) /\ fused[u].id = p /\ v \in 1 .. Len(fused) /\ fused[v].id = q
    BY <1>11, PlaceIs
  <2> HIDE DEF u, v
  <2>2. u \in 1 .. n /\ v \in 1 .. n  BY <1>2, <1>11, <2>1, MostIs DEF n
  <2>3. /\ f[u] \in 1 .. n /\ all[f[u]].id = p
        /\ f[v] \in 1 .. n /\ all[f[v]].id = q
    BY <1>10, <1>11, <2>1, <2>2
  <2>4. p \in IdsOf(d) \cup IdsOf(l) /\ q \in IdsOf(d) \cup IdsOf(l)  BY <1>14
  <2>5. Contribution(d, l, p)[1] * Contribution(d, l, q)[2] > Contribution(d, l, q)[1] * Contribution(d, l, p)[2]
    BY <1>16, <2>4, BetterContributesMore
  <2>6. num[f[u]] * den[f[v]] > num[f[v]] * den[f[u]]  BY <1>6, <2>3, <2>5
  <2>7. <<f[u], f[v]>> \in above  BY <1>7, <2>3, <2>6
  <2>8. u < v  BY <1>8, <2>2, <2>7
  <2> QED  BY <2>8 DEF u, v
<1> QED  BY <1>11, <1>13, <1>14, <1>15, <1>16 DEF fused

(***************************************************************************)
(* What the searches find, and the ranking                                 *)
(***************************************************************************)

Listed(s, S) == \A i \in 1 .. Len(s) : s[i] \in S

LEMMA PartOfListed ==
    ASSUME NEW T, NEW s \in Seq(T), NEW t \in Seq(T), Part(t, s), NEW S, Listed(s, S)
    PROVE  Listed(t, S)
<1>1. PICK f \in [1 .. Len(t) -> 1 .. Len(s)] :
          /\ \A i, j \in 1 .. Len(t) : f[i] = f[j] => i = j
          /\ \A k \in 1 .. Len(t) : t[k] = s[f[k]]
  BY DEF Part
<1>2. \A k \in 1 .. Len(t) : f[k] \in 1 .. Len(s)  BY <1>1
<1> QED  BY <1>1, <1>2 DEF Listed

LEMMA ListedIs ==
    ASSUME NEW S \in SUBSET Points
    PROVE  /\ InOrder(S) \in Seq(Points) /\ Distinct(InOrder(S)) /\ Listed(InOrder(S), S)
           /\ \A i, j \in 1 .. Len(InOrder(S)) : i < j => InOrder(S)[i] < InOrder(S)[j]
<1> DEFINE t == InOrder(S)
           n == Cardinality(S)
<1>1. S \in SUBSET Int /\ S \in SUBSET Nat /\ IsFiniteSet(S)
  <2>1. S \subseteq Points /\ Points \subseteq Nat /\ IsFiniteSet(Points)  BY RetrievalAssumption
  <2>2. IsFiniteSet(S)  BY <2>1, FS_Subset
  <2> QED  BY <2>1, <2>2
<1>2. /\ n \in Nat /\ t \in [1 .. n -> S]
      /\ \A i, j \in 1 .. n : i < j => t[i] < t[j]
  BY <1>1, InOrderIs
<1> HIDE DEF t, n
<1>3. \A i \in 1 .. n : t[i] \in S /\ t[i] \in Points /\ t[i] \in Int  BY <1>1, <1>2
<1>4. t \in Seq(Points) /\ Len(t) = n
  <2>1. t \in [1 .. n -> Points]  BY <1>2, <1>3
  <2> QED  BY <1>2, <2>1
<1>5. Distinct(t)
  <2> SUFFICES ASSUME NEW i \in 1 .. n, NEW j \in 1 .. n, t[i] = t[j] PROVE i = j
    BY <1>4 DEF Distinct
  <2>1. ~(t[i] < t[j]) /\ ~(t[j] < t[i])  BY <1>3
  <2> QED  BY <1>2, <2>1
<1> QED  BY <1>2, <1>3, <1>4, <1>5 DEF t, Listed

LEMMA RestOf ==
    ASSUME NEW s \in Seq(Points), NEW t \in Seq(Points), Part(t, s), Distinct(s), NEW S, Listed(s, S)
    PROVE  Distinct(t) /\ Listed(t, S)
BY PartOfDistinct, PartOfListed

\* The dense search: the best of the matching points, those that cannot be parsed left out.
Found(S) ==
    LET matching == InOrder(S)
        found == Prefix(Sorted(matching, Higher([i \in DOMAIN matching |-> payload[matching[i]].near])), DenseK)
    IN  Picked(found, {i \in DOMAIN found : payload[found[i]].well})

LEMMA FoundIs ==
    ASSUME payload \in [Points -> Payload], NEW S \in SUBSET Points
    PROVE  /\ Found(S) \in Seq(Points) /\ Len(Found(S)) <= DenseK
           /\ Distinct(Found(S)) /\ Listed(Found(S), S)
<1> DEFINE matching == InOrder(S)
           key == [i \in DOMAIN matching |-> payload[matching[i]].near]
           sorted == Sorted(matching, Higher(key))
           found == Prefix(sorted, DenseK)
           places == {i \in DOMAIN found : payload[found[i]].well}
<1>1. matching \in Seq(Points) /\ Distinct(matching) /\ Listed(matching, S)  BY ListedIs
<1>2. Found(S) = Picked(found, places)  BY DEF Found
<1> HIDE DEF matching
<1>3. Len(matching) \in Nat /\ DOMAIN matching = 1 .. Len(matching)  BY <1>1
<1>4. key \in [1 .. Len(matching) -> Int]
  <2>1. \A i \in 1 .. Len(matching) : matching[i] \in Points  BY <1>1
  <2>2. \A p \in Points : payload[p].near \in Int  BY DEF Payload
  <2> QED  BY <1>3, <2>1, <2>2
<1> HIDE DEF key
<1>5. sorted \in Seq(Points) /\ Part(sorted, matching)  BY <1>1, <1>3, <1>4, HigherIsWeak, SortedOf
<1> HIDE DEF sorted
<1>6. Distinct(sorted) /\ Listed(sorted, S)  BY <1>1, <1>5, RestOf
<1>7. /\ found \in Seq(Points) /\ Part(found, sorted)
      /\ Len(found) = IF DenseK < Len(sorted) THEN DenseK ELSE Len(sorted)
  BY <1>5, MostIs, PrefixOf
<1>8. Len(found) <= DenseK /\ Len(found) \in Nat /\ DOMAIN found = 1 .. Len(found)
  <2>1. Len(sorted) \in Nat  BY <1>5
  <2> QED  BY <1>7, <2>1, MostIs
<1> HIDE DEF found
<1>9. Distinct(found) /\ Listed(found, S)  BY <1>5, <1>6, <1>7, RestOf
<1>10. places \in SUBSET (1 .. Len(found))  BY <1>8
<1> HIDE DEF places
<1>11. Picked(found, places) \in Seq(Points) /\ Len(Picked(found, places)) <= Len(found) /\ Part(Picked(found, places), found)
  BY <1>7, <1>10, PickedOf
<1> DEFINE hits == Picked(found, places)
<1> HIDE DEF hits
<1>12. hits \in Seq(Points) /\ Len(hits) <= Len(found) /\ Part(hits, found)  BY <1>11 DEF hits
<1>13. Distinct(hits) /\ Listed(hits, S)  BY <1>7, <1>9, <1>12, RestOf
<1>14. Len(hits) <= DenseK
  <2>1. Len(hits) \in Nat  BY <1>12
  <2> QED  BY <1>8, <1>12, <2>1, MostIs
<1> QED  BY <1>2, <1>12, <1>13, <1>14 DEF hits

\* Points without repeats become hits without repeats.
LEMMA HitsOf ==
    ASSUME NEW s \in Seq(Points), Distinct(s), NEW hit \in [1 .. Len(s) -> Hit],
           \A i \in 1 .. Len(s) : hit[i].id = s[i]
    PROVE  /\ hit \in Seq(Hit) /\ Len(hit) = Len(s) /\ NoRepeats(hit)
           /\ \A S : Listed(s, S) => IdsOf(hit) \subseteq S
<1>1. Len(s) \in Nat  OBVIOUS
<1>2. hit \in Seq(Hit) /\ Len(hit) = Len(s) /\ DOMAIN hit = 1 .. Len(s)  BY <1>1
<1>3. NoRepeats(hit)  BY <1>2 DEF NoRepeats, Distinct
<1>4. \A S : Listed(s, S) => IdsOf(hit) \subseteq S  BY <1>2 DEF Listed, IdsOf
<1> QED  BY <1>2, <1>3, <1>4

\* The lexical search: the best of the listed points with a word of the query.
LEMMA LexicalIs ==
    ASSUME payload \in [Points -> Payload], NEW listed \in Seq(Points), Distinct(listed)
    PROVE  /\ LexicalHits(listed) \in Seq(Hit) /\ NoRepeats(LexicalHits(listed))
           /\ \A S : Listed(listed, S) => IdsOf(LexicalHits(listed)) \subseteq S
<1> DEFINE places == {i \in DOMAIN listed : payload[listed[i]].words > 0}
           worded == Picked(listed, places)
           key == [i \in DOMAIN worded |-> payload[worded[i]].words]
           sorted == Sorted(worded, Higher(key))
           best == Prefix(sorted, Bm25TopK)
           hits == [i \in DOMAIN best |-> LexicalHit(best[i])]
<1>1. places \in SUBSET (1 .. Len(listed))  OBVIOUS
<1>2. LexicalHits(listed) = hits  BY DEF LexicalHits
<1> HIDE DEF places
<1>3. worded \in Seq(Points) /\ Part(worded, listed)  BY <1>1, PickedOf
<1> HIDE DEF worded
<1>4. Len(worded) \in Nat /\ DOMAIN worded = 1 .. Len(worded)  BY <1>3
<1>5. key \in [1 .. Len(worded) -> Int]
  <2>1. \A i \in 1 .. Len(worded) : worded[i] \in Points  BY <1>3
  <2>2. \A p \in Points : payload[p].words \in Int  BY DEF Payload
  <2> QED  BY <1>4, <2>1, <2>2
<1> HIDE DEF key
<1>6. sorted \in Seq(Points) /\ Part(sorted, worded)  BY <1>3, <1>4, <1>5, HigherIsWeak, SortedOf
<1> HIDE DEF sorted
<1>7. Bm25TopK \in Nat  BY RetrievalAssumption
<1>8. best \in Seq(Points) /\ Part(best, sorted)  BY <1>6, <1>7, PrefixOf
<1> HIDE DEF best
<1>9. Distinct(worded) /\ Distinct(sorted) /\ Distinct(best)  BY <1>3, <1>6, <1>8, PartOfDistinct
<1>10. \A S : Listed(listed, S) => Listed(best, S)
  <2> SUFFICES ASSUME NEW S, Listed(listed, S) PROVE Listed(best, S)  OBVIOUS
  <2>1. Listed(worded, S)  BY <1>3, PartOfListed
  <2>2. Listed(sorted, S)  BY <1>3, <1>6, <2>1, PartOfListed
  <2> QED  BY <1>6, <1>8, <2>2, PartOfListed
<1>11. hits \in [1 .. Len(best) -> Hit] /\ \A i \in 1 .. Len(best) : hits[i].id = best[i]
  <2>1. DOMAIN best = 1 .. Len(best) /\ \A i \in 1 .. Len(best) : best[i] \in Points  BY <1>8
  <2>2. \A p \in Points : LexicalHit(p) \in Hit /\ LexicalHit(p).id = p  BY DEF LexicalHit, Hit
  <2> QED  BY <2>1, <2>2
<1> HIDE DEF hits
<1>12. hits \in Seq(Hit) /\ NoRepeats(hits)  BY <1>8, <1>9, <1>11, HitsOf
<1>13. \A S : Listed(best, S) => IdsOf(hits) \subseteq S  BY <1>8, <1>9, <1>11, HitsOf
<1> QED  BY <1>2, <1>10, <1>12, <1>13

\* The ranking has every hit again.
LEMMA RerankedIs ==
    ASSUME NEW hits \in Seq(Hit), NoRepeats(hits), NEW rank \in [DOMAIN hits -> {-1, 0, 2}]
    PROVE  /\ Reranked(hits, rank) \in Seq(Hit) /\ NoRepeats(Reranked(hits, rank))
           /\ IdsOf(Reranked(hits, rank)) = IdsOf(hits)
<1> DEFINE n == Len(hits)
           given == [i \in DOMAIN hits |-> [hits[i] EXCEPT !.rank = rank[i]]]
           some == {i \in DOMAIN given : rank[i] >= 0}
           others == {i \in DOMAIN given : rank[i] < 0}
           named == Picked(given, some)
           rest == Picked(given, others)
           key == [i \in DOMAIN named |-> named[i].rank]
           best == Sorted(named, Higher(key))
<1>1. n \in Nat /\ DOMAIN hits = 1 .. n  OBVIOUS
<1>2. Reranked(hits, rank) = Appended(best, rest)  BY DEF Reranked, Appended
<1>3. \A i \in 1 .. n : rank[i] \in Int /\ given[i] \in Hit /\ given[i].id = hits[i].id
  <2> TAKE i \in 1 .. n
  <2>1. hits[i] \in Hit /\ rank[i] \in {-1, 0, 2}  BY <1>1
  <2>2. given[i] = [hits[i] EXCEPT !.rank = rank[i]]  BY <1>1
  <2>3. \A r \in {-1, 0, 2} : r \in -1 .. 2 /\ r \in Int  OBVIOUS
  <2>4. \A h \in Hit, r \in -1 .. 2 : [h EXCEPT !.rank = r] \in Hit /\ [h EXCEPT !.rank = r].id = h.id
    BY DEF Hit
  <2> QED  BY <2>1, <2>2, <2>3, <2>4
<1>4. given \in Seq(Hit) /\ Len(given) = n /\ DOMAIN given = 1 .. n
  <2>1. given \in [1 .. n -> Hit]  BY <1>1, <1>3
  <2> QED  BY <1>1, <2>1
<1> HIDE DEF given
<1>5. NoRepeats(given) /\ IdsOf(given) = IdsOf(hits)
  <2>1. NoRepeats(given)
    <3> SUFFICES ASSUME NEW i \in 1 .. n, NEW j \in 1 .. n, given[i].id = given[j].id PROVE i = j
      BY <1>4 DEF NoRepeats
    <3>1. hits[i].id = hits[j].id  BY <1>3
    <3> QED  BY <1>1, <3>1 DEF NoRepeats
  <2>2. \A i \in 1 .. n : given[i].id = hits[i].id  BY <1>3
  <2> QED  BY <1>1, <1>4, <2>1, <2>2 DEF IdsOf
<1>6. /\ some \in SUBSET (1 .. Len(given)) /\ others \in SUBSET (1 .. Len(given))
      /\ \A i \in 1 .. n : i \in some \/ i \in others
      /\ \A i \in some, j \in others : i # j
  BY <1>3, <1>4
<1> HIDE DEF some, others
<1>7. named \in Seq(Hit) /\ Part(named, given)  BY <1>4, <1>6, PickedOf
<1>8. \A k \in 1 .. Len(named) : \E p \in some : named[k] = given[p]  BY <1>4, <1>6, PickedOf
<1>9. \A p \in some : \E k \in 1 .. Len(named) : named[k] = given[p]  BY <1>4, <1>6, PickedOf
<1>10. rest \in Seq(Hit) /\ Part(rest, given)  BY <1>4, <1>6, PickedOf
<1>11. \A k \in 1 .. Len(rest) : \E p \in others : rest[k] = given[p]  BY <1>4, <1>6, PickedOf
<1>12. \A p \in others : \E k \in 1 .. Len(rest) : rest[k] = given[p]  BY <1>4, <1>6, PickedOf
<1> HIDE DEF named, rest
<1>13. DOMAIN named = 1 .. Len(named) /\ DOMAIN rest = 1 .. Len(rest) /\ Len(named) \in Nat  BY <1>7, <1>10
<1>14. IdsOf(named) = {given[p].id : p \in some} /\ IdsOf(rest) = {given[p].id : p \in others}
  <2>1. IdsOf(named) \subseteq {given[p].id : p \in some}  BY <1>8, <1>13 DEF IdsOf
  <2>2. {given[p].id : p \in some} \subseteq IdsOf(named)  BY <1>9, <1>13 DEF IdsOf
  <2>3. IdsOf(rest) \subseteq {given[p].id : p \in others}  BY <1>11, <1>13 DEF IdsOf
  <2>4. {given[p].id : p \in others} \subseteq IdsOf(rest)  BY <1>12, <1>13 DEF IdsOf
  <2> QED  BY <2>1, <2>2, <2>3, <2>4
<1>15. NoRepeats(named) /\ NoRepeats(rest)  BY <1>4, <1>5, <1>7, <1>10, PartOfHits
<1>16. key \in [1 .. Len(named) -> Int]
  <2>1. \A i \in 1 .. Len(named) : named[i] \in Hit  BY <1>7
  <2>2. \A h \in Hit : h.rank \in Int  BY DEF Hit
  <2> QED  BY <1>13, <2>1, <2>2
<1> HIDE DEF key
<1>17. Weak(Len(named), Higher(key))  BY <1>13, <1>16, HigherIsWeak
<1>18. best \in Seq(Hit) /\ Len(best) = Len(named) /\ Part(best, named)  BY <1>7, <1>17, SortedOf
<1>19. \A i \in 1 .. Len(named) : \E k \in 1 .. Len(named) : best[k] = named[i]  BY <1>7, <1>17, SortedOf
<1> HIDE DEF best
<1>20. IdsOf(best) \subseteq IdsOf(named) /\ NoRepeats(best)  BY <1>7, <1>15, <1>18, PartOfHits
<1>21. IdsOf(named) \subseteq IdsOf(best)
  <2>1. DOMAIN best = 1 .. Len(named)  BY <1>18
  <2> QED  BY <1>13, <1>19, <2>1 DEF IdsOf
<1>22. IdsOf(best) \cap IdsOf(rest) = {}
  <2>1. \A i \in some, j \in others : given[i].id # given[j].id
    <3> SUFFICES ASSUME NEW i \in some, NEW j \in others PROVE given[i].id # given[j].id  OBVIOUS
    <3>1. i \in 1 .. n /\ j \in 1 .. n /\ i # j  BY <1>4, <1>6
    <3> QED  BY <1>4, <1>5, <3>1 DEF NoRepeats
  <2> QED  BY <1>14, <1>20, <2>1
<1>23. IdsOf(best) \cup IdsOf(rest) = IdsOf(given)
  <2>1. IdsOf(given) = {given[p].id : p \in 1 .. n}  BY <1>4 DEF IdsOf
  <2>2. IdsOf(best) \cup IdsOf(rest) = {given[p].id : p \in some} \cup {given[p].id : p \in others}
    BY <1>14, <1>20, <1>21
  <2> QED  BY <1>4, <1>6, <2>1, <2>2
<1>24. /\ Appended(best, rest) \in Seq(Hit) /\ NoRepeats(Appended(best, rest))
       /\ IdsOf(Appended(best, rest)) = IdsOf(best) \cup IdsOf(rest)
  BY <1>10, <1>15, <1>18, <1>20, <1>22, AppendedHits
<1> QED  BY <1>2, <1>5, <1>23, <1>24

(***************************************************************************)
(* The invariant of a retrieval                                            *)
(***************************************************************************)

\* What the filter of every call lets through, and what may be cited.
Within(p) == p \in witnessed /\ payload[p].gen \in scope /\ payload[p].kind \in wanted.kinds
Citable(p) == Within(p) /\ payload[p].acl \in {"workspace", "mine"}

RequestInv ==
    /\ payload \in [Points -> Payload] /\ visible \subseteq witnessed /\ witnessed \subseteq Points
    /\ wanted \in [hybrid : BOOLEAN, rerank : BOOLEAN, lineage : BOOLEAN, kinds : SUBSET Kinds]
    /\ scope \subseteq Generations

ListsInv ==
    /\ dense \in Seq(Hit) /\ NoRepeats(dense) /\ Len(dense) <= DenseK
    /\ \A p \in IdsOf(dense) : Citable(p)
    /\ corpus \in Seq(Points) /\ Distinct(corpus) /\ offset \in Nat
    /\ candidates \in Seq(Hit) /\ NoRepeats(candidates)
    /\ \A p \in IdsOf(candidates) : Citable(p)

\* Before the search there is nothing.
EarlyInv ==
    phase \in {"resolving", "embedding", "searching"} =>
        dense = <<>> /\ corpus = <<>> /\ offset = 0 /\ candidates = <<>> /\ degraded = {}

\* The listing has what is before the offset, and has not reached its limit.
ListingInv ==
    phase = "listing" =>
        /\ wanted.hybrid /\ candidates = <<>> /\ degraded = {} /\ Len(corpus) < CorpusLimit
        /\ \A i \in 1 .. Len(corpus) : corpus[i] < offset /\ Within(corpus[i])

CandidatesInv ==
    phase \in {"reranking", "answered"} =>
        IdsOf(candidates) = IF wanted.hybrid /\ "hybrid" \notin degraded
                            THEN IdsOf(Fused(dense, LexicalHits(corpus))) ELSE IdsOf(dense)

AnswerInv ==
    answer = IF phase = "answered" THEN RetainCompanion(Deduplicated(candidates)) ELSE <<>>

RetrievalInv == RequestInv /\ ListsInv /\ EarlyInv /\ ListingInv /\ CandidatesInv /\ AnswerInv

LEMMA DefinedOverRequest ==
    ASSUME payload' = payload, wanted' = wanted
    PROVE  /\ LexicalHits(corpus)' = LexicalHits(corpus')
           /\ RetainCompanion(Deduplicated(candidates))' = RetainCompanion(Deduplicated(candidates'))
<1>1. LexicalHits(corpus)' = LexicalHits(corpus')  BY DEF LexicalHits, LexicalHit
<1>2. Deduplicated(candidates)' = Deduplicated(candidates')
  BY DEF Deduplicated, Keep, Overlapping, Length, Covers, MoreSpecific
<1>3. RetainCompanion(Deduplicated(candidates))' = RetainCompanion(Deduplicated(candidates)')
  BY DEF RetainCompanion, IsCompanion, DirectFigure
<1> QED  BY <1>1, <1>2, <1>3

LEMMA StartsRight == AnyRequest /\ RetrievalInit => RetrievalInv
<1> SUFFICES ASSUME AnyRequest, RetrievalInit PROVE RetrievalInv  OBVIOUS
<1>1. RequestInv  BY DEF AnyRequest, RetrievalInit, RequestInv
<1>2. ListsInv
  <2>1. <<>> \in Seq(Hit) /\ <<>> \in Seq(Points) /\ Len(<<>>) = 0 /\ IdsOf(<<>>) = {}  BY DEF IdsOf
  <2>2. NoRepeats(<<>>) /\ Distinct(<<>>)  BY DEF NoRepeats, Distinct
  <2> QED  BY <2>1, <2>2, MostIs DEF RetrievalInit, ListsInv
<1>3. EarlyInv /\ ListingInv /\ CandidatesInv /\ AnswerInv
  BY DEF RetrievalInit, EarlyInv, ListingInv, CandidatesInv, AnswerInv
<1> QED  BY <1>1, <1>2, <1>3 DEF RetrievalInv

\* Where the request, what has been visible and the lists stay, what may be cited does.
LEMMA StaysCitable ==
    ASSUME payload' = payload, wanted' = wanted, scope' = scope, witnessed \subseteq witnessed'
    PROVE  /\ \A p : Within(p) => Within(p)'
           /\ \A p : Citable(p) => Citable(p)'
BY DEF Within, Citable

\* The hits are ranked, or the retrieval ends with them.
LEMMA RanksKeep ==
    ASSUME RetrievalInv, phase \in {"searching", "listing"},
           NEW hits \in Seq(Hit), NoRepeats(hits), \A p \in IdsOf(hits) : Citable(p), Ranks(hits),
           dense' \in Seq(Hit), NoRepeats(dense'), Len(dense') <= DenseK,
           \A p \in IdsOf(dense') : Citable(p),
           corpus' \in Seq(Points), Distinct(corpus'), offset' \in Nat,
           IdsOf(hits) = IF wanted.hybrid /\ "hybrid" \notin degraded'
                         THEN IdsOf(Fused(dense', LexicalHits(corpus'))) ELSE IdsOf(dense')
    PROVE  RetrievalInv'
<1>1. /\ payload' = payload /\ wanted' = wanted /\ scope' = scope /\ visible' = visible
      /\ witnessed' = witnessed /\ candidates' = hits
      /\ phase' \in {"aborted", "reranking", "answered"}
      /\ phase' # "answered" => answer' = answer
      /\ phase' = "answered" => answer' = RetainCompanion(Deduplicated(hits))
  BY DEF Ranks, requestVars, qdrantVars
<1>2. RequestInv'  BY <1>1 DEF RetrievalInv, RequestInv
<1>3. ListsInv'
  <2>1. \A p \in IdsOf(dense') : Citable(p)'  BY <1>1, StaysCitable
  <2>2. \A p \in IdsOf(candidates') : Citable(p)'  BY <1>1, StaysCitable
  <2> QED  BY <1>1, <2>1, <2>2 DEF ListsInv
<1>4. EarlyInv' /\ ListingInv'  BY <1>1 DEF EarlyInv, ListingInv
<1>5. CandidatesInv'  BY <1>1, DefinedOverRequest DEF CandidatesInv
<1>6. AnswerInv'
  <2>1. answer = <<>>  BY DEF RetrievalInv, AnswerInv
  <2> QED  BY <1>1, <2>1, DefinedOverRequest DEF AnswerInv
<1> QED  BY <1>2, <1>3, <1>4, <1>5, <1>6 DEF RetrievalInv

\* Nothing of the retrieval moves but Qdrant, the caller's leaving, and the phase.
LEMMA StaysAsItIs ==
    ASSUME RetrievalInv, RequestInv', payload' = payload, wanted' = wanted, scope' = scope,
           witnessed \subseteq witnessed', UNCHANGED resultVars,
           EarlyInv', phase' = "answered" <=> phase = "answered",
           phase' \in {"listing", "reranking", "answered"} => phase' = phase
    PROVE  RetrievalInv'
<1>1. /\ dense' = dense /\ corpus' = corpus /\ offset' = offset /\ candidates' = candidates
      /\ degraded' = degraded /\ answer' = answer
  BY DEF resultVars
<1>2. \A p : (Within(p) => Within(p)') /\ (Citable(p) => Citable(p)')  BY StaysCitable
<1>3. ListsInv'
  <2>1. ListsInv  BY DEF RetrievalInv
  <2>2. \A p \in IdsOf(dense) : Citable(p)'  BY <1>2, <2>1 DEF ListsInv
  <2>3. \A p \in IdsOf(candidates) : Citable(p)'  BY <1>2, <2>1 DEF ListsInv
  <2> QED  BY <1>1, <2>1, <2>2, <2>3 DEF ListsInv
<1>4. ListingInv'
  <2> SUFFICES ASSUME phase' = "listing" PROVE ListingInv'  BY DEF ListingInv
  <2>1. phase = "listing"  OBVIOUS
  <2>2. /\ wanted.hybrid /\ candidates = <<>> /\ degraded = {} /\ Len(corpus) < CorpusLimit
        /\ \A i \in 1 .. Len(corpus) : corpus[i] < offset /\ Within(corpus[i])
    BY <2>1 DEF RetrievalInv, ListingInv
  <2>3. \A i \in 1 .. Len(corpus) : corpus[i] < offset /\ Within(corpus[i])'  BY <1>1, <2>2 DEF Within
  <2> QED  BY <1>1, <2>2, <2>3 DEF ListingInv
<1>5. CandidatesInv'
  <2> SUFFICES ASSUME phase' \in {"reranking", "answered"} PROVE CandidatesInv'  BY DEF CandidatesInv
  <2>1. phase' = phase  OBVIOUS
  <2>2. IdsOf(candidates) = IF wanted.hybrid /\ "hybrid" \notin degraded
                            THEN IdsOf(Fused(dense, LexicalHits(corpus))) ELSE IdsOf(dense)
    BY <2>1 DEF RetrievalInv, CandidatesInv
  <2>3. LexicalHits(corpus)' = LexicalHits(corpus)  BY <1>1, DefinedOverRequest
  <2> QED  BY <1>1, <2>2, <2>3 DEF CandidatesInv
<1>6. AnswerInv'
  <2>1. answer = IF phase = "answered" THEN RetainCompanion(Deduplicated(candidates)) ELSE <<>>
    BY DEF RetrievalInv, AnswerInv
  <2>2. RetainCompanion(Deduplicated(candidates))' = RetainCompanion(Deduplicated(candidates))
    BY <1>1, DefinedOverRequest
  <2> QED  BY <1>1, <2>1, <2>2 DEF AnswerInv
<1> QED  BY <1>3, <1>4, <1>5, <1>6 DEF RetrievalInv

LEMMA ResolveKeeps == ASSUME RetrievalInv, Resolve PROVE RetrievalInv'
<1>1. RequestInv /\ EarlyInv /\ phase = "resolving"  BY DEF RetrievalInv, Resolve
<1>2. CASE Ends("not_found")
  <2>1. /\ phase' = "not_found" /\ payload' = payload /\ wanted' = wanted /\ scope' = scope
        /\ visible' = visible /\ witnessed' = witnessed /\ UNCHANGED resultVars
    BY <1>2 DEF Ends, requestVars, qdrantVars
  <2>2. RequestInv'  BY <1>1, <2>1 DEF RequestInv
  <2>3. EarlyInv'  BY <2>1 DEF EarlyInv
  <2> QED  BY <1>1, <2>1, <2>2, <2>3, StaysAsItIs
<1>3. CASE /\ scope' \in SUBSET Generations /\ phase' = "embedding"
           /\ UNCHANGED <<requestVars, qdrantVars, resultVars>>
  <2>1. /\ payload' = payload /\ wanted' = wanted /\ visible' = visible /\ witnessed' = witnessed
        /\ dense' = dense /\ corpus' = corpus /\ offset' = offset /\ candidates' = candidates
        /\ degraded' = degraded /\ answer' = answer /\ phase' = "embedding"
    BY <1>3 DEF requestVars, qdrantVars, resultVars
  <2>2. dense = <<>> /\ corpus = <<>> /\ offset = 0 /\ candidates = <<>> /\ degraded = {}
    BY <1>1 DEF EarlyInv
  <2>3. RequestInv'  BY <1>1, <1>3, <2>1 DEF RequestInv
  <2>4. ListsInv'
    <3>1. IdsOf(<<>>) = {}  BY DEF IdsOf
    <3>2. ListsInv  BY DEF RetrievalInv
    <3> QED  BY <2>1, <2>2, <3>1, <3>2 DEF ListsInv
  <2>5. EarlyInv' /\ ListingInv' /\ CandidatesInv'
    BY <2>1, <2>2 DEF EarlyInv, ListingInv, CandidatesInv
  <2>6. AnswerInv'
    <3>1. answer = <<>>  BY <1>1 DEF RetrievalInv, AnswerInv
    <3> QED  BY <2>1, <3>1 DEF AnswerInv
  <2> QED  BY <2>3, <2>4, <2>5, <2>6 DEF RetrievalInv
<1> QED  BY <1>2, <1>3 DEF Resolve

\* A retrieval ends short of an answer, or goes on to the search.
LEMMA EndsKeep ==
    ASSUME RetrievalInv, NEW how, Ends(how), phase # "answered",
           how \in {"failed", "aborted"} \/ (how = "searching" /\ phase = "embedding")
    PROVE  RetrievalInv'
<1>1. /\ phase' = how /\ payload' = payload /\ wanted' = wanted /\ scope' = scope
      /\ visible' = visible /\ witnessed' = witnessed /\ UNCHANGED resultVars
  BY DEF Ends, requestVars, qdrantVars
<1>2. RequestInv'  BY <1>1 DEF RetrievalInv, RequestInv
<1>3. EarlyInv'  BY <1>1 DEF RetrievalInv, EarlyInv, resultVars
<1> QED  BY <1>1, <1>2, <1>3, StaysAsItIs

LEMMA EmbedKeeps == ASSUME RetrievalInv, Embed PROVE RetrievalInv'
<1>1. phase = "embedding" /\ (Ends("searching") \/ Ends("aborted") \/ Ends("failed"))  BY DEF Embed
<1> QED  BY <1>1, EndsKeep

LEMMA SearchFailsKeeps == ASSUME RetrievalInv, SearchFails PROVE RetrievalInv'
<1>1. phase = "searching" /\ Ends("failed")  BY DEF SearchFails
<1> QED  BY <1>1, EndsKeep

LEMMA LeaveKeeps == ASSUME RetrievalInv, Leave PROVE RetrievalInv'
<1>1. /\ phase' = phase /\ payload' = payload /\ wanted' = wanted /\ scope' = scope
      /\ visible' = visible /\ witnessed' = witnessed /\ UNCHANGED resultVars
  BY DEF Leave, qdrantVars
<1>2. RequestInv'  BY <1>1 DEF RetrievalInv, RequestInv
<1>3. EarlyInv'  BY <1>1 DEF RetrievalInv, EarlyInv, resultVars
<1> QED  BY <1>1, <1>2, <1>3, StaysAsItIs

LEMMA ChangeKeeps == ASSUME RetrievalInv, Change PROVE RetrievalInv'
<1>1. /\ phase' = phase /\ payload' = payload /\ wanted' = wanted /\ scope' = scope
      /\ witnessed' = witnessed \cup visible' /\ UNCHANGED resultVars
  BY DEF Change, requestVars
<1>2. PICK p \in Points : visible' = IF p \in visible THEN visible \ {p} ELSE visible \cup {p}
  BY DEF Change
<1>3. RequestInv'  BY <1>1, <1>2 DEF RetrievalInv, RequestInv
<1>4. EarlyInv'  BY <1>1 DEF RetrievalInv, EarlyInv, resultVars
<1> QED  BY <1>1, <1>3, <1>4, StaysAsItIs

LEMMA RerankKeeps == ASSUME RetrievalInv, Rerank PROVE RetrievalInv'
<1>1. /\ phase = "reranking" /\ payload' = payload /\ wanted' = wanted /\ scope' = scope
      /\ visible' = visible /\ witnessed' = witnessed
      /\ dense' = dense /\ corpus' = corpus /\ offset' = offset
  BY DEF Rerank, requestVars, qdrantVars
<1>2. RequestInv'  BY <1>1 DEF RetrievalInv, RequestInv
<1>3. CASE gone
  <2>1. phase' = "aborted" /\ UNCHANGED resultVars  BY <1>1, <1>3 DEF Rerank, resultVars
  <2>2. EarlyInv'  BY <2>1 DEF EarlyInv
  <2> QED  BY <1>1, <1>2, <2>1, <2>2, StaysAsItIs
<1>4. CASE ~gone
  <2>1. phase' = "answered" /\ answer' = RetainCompanion(Deduplicated(candidates'))  BY <1>4 DEF Rerank
  <2>2. /\ candidates \in Seq(Hit) /\ NoRepeats(candidates)
        /\ \A p \in IdsOf(candidates) : Citable(p)
    BY DEF RetrievalInv, ListsInv
  <2>3. /\ candidates' \in Seq(Hit) /\ NoRepeats(candidates') /\ IdsOf(candidates') = IdsOf(candidates)
        /\ ("hybrid" \in degraded' <=> "hybrid" \in degraded)
    <3>1. CASE UNCHANGED candidates /\ degraded' = degraded \cup {"rerank"}  BY <2>2, <3>1
    <3>2. CASE \E rank \in [DOMAIN candidates -> {-1, 0, 2}] :
                   candidates' = Reranked(candidates, rank) /\ UNCHANGED degraded
      <4>1. PICK rank \in [DOMAIN candidates -> {-1, 0, 2}] :
                   candidates' = Reranked(candidates, rank) /\ UNCHANGED degraded
        BY <3>2
      <4>2. /\ Reranked(candidates, rank) \in Seq(Hit) /\ NoRepeats(Reranked(candidates, rank))
            /\ IdsOf(Reranked(candidates, rank)) = IdsOf(candidates)
        BY <2>2, RerankedIs
      <4> QED  BY <4>1, <4>2
    <3> QED  BY <1>4, <3>1, <3>2 DEF Rerank
  <2>4. ListsInv'
    <3>1. \A p : Citable(p) => Citable(p)'  BY <1>1, StaysCitable
    <3>2. \A p \in IdsOf(dense) : Citable(p)'  BY <3>1 DEF RetrievalInv, ListsInv
    <3>3. \A p \in IdsOf(candidates') : Citable(p)'  BY <2>2, <2>3, <3>1
    <3>4. ListsInv  BY DEF RetrievalInv
    <3> QED  BY <1>1, <2>3, <3>2, <3>3, <3>4 DEF ListsInv
  <2>5. EarlyInv' /\ ListingInv'  BY <2>1 DEF EarlyInv, ListingInv
  <2>6. CandidatesInv'
    <3>1. IdsOf(candidates) = IF wanted.hybrid /\ "hybrid" \notin degraded
                              THEN IdsOf(Fused(dense, LexicalHits(corpus))) ELSE IdsOf(dense)
      BY <1>1 DEF RetrievalInv, CandidatesInv
    <3>2. LexicalHits(corpus)' = LexicalHits(corpus)  BY <1>1, DefinedOverRequest
    <3> QED  BY <1>1, <2>3, <3>1, <3>2 DEF CandidatesInv
  <2>7. AnswerInv'  BY <1>1, <2>1, DefinedOverRequest DEF AnswerInv
  <2> QED  BY <1>2, <2>4, <2>5, <2>6, <2>7 DEF RetrievalInv
<1> QED  BY <1>3, <1>4

LEMMA SearchKeeps == ASSUME RetrievalInv, Search PROVE RetrievalInv'
<1> DEFINE S == {p \in Points : Matching(p)}
           hits == Found(S)
<1>1. phase = "searching"  BY DEF Search
<1>2. \/ /\ Authorized(ToSet(hits))
         /\ dense' = [i \in DOMAIN hits |-> DenseHit(hits[i])]
         /\ UNCHANGED <<corpus, offset, degraded>>
         /\ IF wanted.hybrid
            THEN phase' = "listing" /\ UNCHANGED <<requestVars, qdrantVars, scope, candidates, answer>>
            ELSE Ranks(dense')
      \/ ~Authorized(ToSet(hits)) /\ Ends("failed")
  BY DEF Search, Found
<1>3. RequestInv /\ ListsInv /\ EarlyInv  BY DEF RetrievalInv
<1>4. dense = <<>> /\ corpus = <<>> /\ offset = 0 /\ candidates = <<>> /\ degraded = {}
  BY <1>1, <1>3 DEF EarlyInv
<1>5. S \in SUBSET Points /\ payload \in [Points -> Payload]  BY <1>3 DEF RequestInv
<1>6. \A p \in S : Within(p)  BY <1>3 DEF Matching, Within, RequestInv
<1> HIDE DEF S
<1>7. hits \in Seq(Points) /\ Len(hits) <= DenseK /\ Distinct(hits) /\ Listed(hits, S)  BY <1>5, FoundIs
<1> HIDE DEF hits
<1>8. CASE ~Authorized(ToSet(hits)) /\ Ends("failed")  BY <1>1, <1>8, EndsKeep
<1>9. CASE /\ Authorized(ToSet(hits))
           /\ dense' = [i \in DOMAIN hits |-> DenseHit(hits[i])]
           /\ UNCHANGED <<corpus, offset, degraded>>
           /\ IF wanted.hybrid
              THEN phase' = "listing" /\ UNCHANGED <<requestVars, qdrantVars, scope, candidates, answer>>
              ELSE Ranks(dense')
  <2>1. DOMAIN hits = 1 .. Len(hits)  BY <1>7
  <2>2. Listed(hits, {p \in Points : Citable(p)})
    <3> SUFFICES ASSUME NEW i \in 1 .. Len(hits) PROVE hits[i] \in Points /\ Citable(hits[i])
      BY DEF Listed
    <3>1. hits[i] \in Points /\ hits[i] \in S /\ hits[i] \in ToSet(hits)
      BY <1>7, <2>1 DEF Listed, ToSet
    <3>2. Within(hits[i])  BY <1>6, <3>1
    <3>3. payload[hits[i]].acl \in {"workspace", "mine"}  BY <1>9, <3>1 DEF Authorized
    <3> QED  BY <3>1, <3>2, <3>3 DEF Citable
  <2>3. dense' \in [1 .. Len(hits) -> Hit] /\ \A i \in 1 .. Len(hits) : dense'[i].id = hits[i]
    <3>1. \A p \in Points : DenseHit(p) \in Hit /\ DenseHit(p).id = p
      <4>1. \A p \in Points : payload[p].near \in -1 .. 2
        <5>1. \A r \in 0 .. 2 : r \in -1 .. 2  OBVIOUS
        <5>2. \A p \in Points : payload[p].near \in 0 .. 2  BY <1>5 DEF Payload
        <5> QED  BY <5>1, <5>2
      <4> QED  BY <4>1 DEF DenseHit, Hit
    <3>2. \A i \in 1 .. Len(hits) : hits[i] \in Points  BY <1>7
    <3> QED  BY <1>9, <2>1, <3>1, <3>2
  <2> DEFINE found == dense'
  <2>4. found \in [1 .. Len(hits) -> Hit] /\ \A i \in 1 .. Len(hits) : found[i].id = hits[i]  BY <2>3
  <2> HIDE DEF found
  <2>5. found \in Seq(Hit) /\ Len(found) = Len(hits) /\ NoRepeats(found)  BY <1>7, <2>4, HitsOf
  <2>6. IdsOf(found) \subseteq {p \in Points : Citable(p)}  BY <1>7, <2>2, <2>4, HitsOf
  <2>7. /\ dense' \in Seq(Hit) /\ NoRepeats(dense') /\ Len(dense') <= DenseK
        /\ \A p \in IdsOf(dense') : Citable(p)
    BY <1>7, <2>5, <2>6 DEF found
  <2>8. corpus' = <<>> /\ offset' = 0 /\ degraded' = {}  BY <1>4, <1>9
  <2>9. corpus' \in Seq(Points) /\ Distinct(corpus') /\ offset' \in Nat  BY <2>8 DEF Distinct
  <2>10. CASE ~wanted.hybrid
    <3>1. Ranks(dense')  BY <1>9, <2>10
    <3>2. IdsOf(dense') = IF wanted.hybrid /\ "hybrid" \notin degraded'
                          THEN IdsOf(Fused(dense', LexicalHits(corpus'))) ELSE IdsOf(dense')
      BY <2>10
    <3> DEFINE all == dense'
    <3>3. all = dense'  OBVIOUS
    <3> QED  BY <1>1, <2>7, <2>9, <3>1, <3>2, RanksKeep
  <2>11. CASE wanted.hybrid
    <3>1. /\ phase' = "listing" /\ payload' = payload /\ wanted' = wanted /\ scope' = scope
          /\ visible' = visible /\ witnessed' = witnessed /\ candidates' = <<>> /\ answer' = answer
      BY <1>4, <1>9, <2>11 DEF requestVars, qdrantVars
    <3>2. RequestInv'  BY <1>3, <3>1 DEF RequestInv
    <3>3. ListsInv'
      <4>1. \A p \in IdsOf(dense') : Citable(p)'  BY <2>7, <3>1, StaysCitable
      <4>2. \A p \in IdsOf(candidates') : Citable(p)'  BY <3>1 DEF IdsOf
      <4>3. NoRepeats(candidates') /\ candidates' \in Seq(Hit)  BY <1>3, <1>4, <3>1 DEF ListsInv
      <4> QED  BY <2>7, <2>9, <4>1, <4>2, <4>3 DEF ListsInv
    <3>4. EarlyInv' /\ CandidatesInv'  BY <3>1 DEF EarlyInv, CandidatesInv
    <3>5. ListingInv'
      <4>1. CorpusLimit \in Nat /\ CorpusLimit > 0  BY RetrievalAssumption
      <4> QED  BY <2>8, <2>11, <3>1, <4>1 DEF ListingInv
    <3>6. AnswerInv'
      <4>1. answer = <<>>  BY <1>1 DEF RetrievalInv, AnswerInv
      <4> QED  BY <3>1, <4>1 DEF AnswerInv
    <3> QED  BY <3>2, <3>3, <3>4, <3>5, <3>6 DEF RetrievalInv
  <2> QED  BY <2>10, <2>11
<1> QED  BY <1>2, <1>8, <1>9

LEMMA ListFailsKeeps == ASSUME RetrievalInv, ListFails PROVE RetrievalInv'
<1>1. /\ phase = "listing" /\ Ranks(dense) /\ degraded' = degraded \cup {"hybrid"}
      /\ dense' = dense /\ corpus' = corpus /\ offset' = offset
  BY DEF ListFails
<1>2. ListsInv  BY DEF RetrievalInv
<1>3. /\ dense \in Seq(Hit) /\ NoRepeats(dense) /\ Len(dense) <= DenseK
      /\ \A p \in IdsOf(dense) : Citable(p)
      /\ corpus \in Seq(Points) /\ Distinct(corpus) /\ offset \in Nat
  BY <1>2 DEF ListsInv
<1>4. IdsOf(dense) = IF wanted.hybrid /\ "hybrid" \notin degraded'
                     THEN IdsOf(Fused(dense', LexicalHits(corpus'))) ELSE IdsOf(dense')
  BY <1>1
<1> QED  BY <1>1, <1>3, <1>4, RanksKeep

\* A page joins what the listing has: its points come after those, and before the
\* point the listing goes on with.
LEMMA PageIs ==
    ASSUME NEW S \in SUBSET Points, NEW from \in Nat, \A p \in S : p >= from,
           NEW old \in Seq(Points), Distinct(old), \A i \in 1 .. Len(old) : old[i] < from,
           NEW most \in Nat, NEW places,
           places \in SUBSET (1 .. Len(Prefix(InOrder(S), most)))
    PROVE  LET page == Prefix(InOrder(S), most)
               listed == Appended(old, Picked(page, places))
           IN  /\ listed \in Seq(Points) /\ Distinct(listed)
               /\ \A T : Listed(old, T) /\ S \subseteq T => Listed(listed, T)
               /\ Len(InOrder(S)) > most =>
                     /\ InOrder(S)[most + 1] \in Nat
                     /\ \A i \in 1 .. Len(listed) : listed[i] < InOrder(S)[most + 1]
<1> DEFINE rest == InOrder(S)
           page == Prefix(rest, most)
           new == Picked(page, places)
           listed == Appended(old, new)
<1>1. /\ rest \in Seq(Points) /\ Distinct(rest) /\ Listed(rest, S)
      /\ \A i, j \in 1 .. Len(rest) : i < j => rest[i] < rest[j]
  BY ListedIs
<1>2. Points \subseteq Nat  BY RetrievalAssumption
<1> HIDE DEF rest
<1>3. /\ page \in Seq(Points) /\ Len(page) = (IF most < Len(rest) THEN most ELSE Len(rest))
      /\ \A k \in 1 .. Len(page) : page[k] = rest[k]
      /\ Part(page, rest)
  BY <1>1, PrefixOf
<1>4. places \in SUBSET (1 .. Len(page))  BY DEF rest
<1> HIDE DEF page
<1>5. new \in Seq(Points) /\ Part(new, page)  BY <1>3, <1>4, PickedOf
<1> HIDE DEF new
<1>6. Distinct(page) /\ Listed(page, S)  BY <1>1, <1>3, RestOf
<1>7. Distinct(new) /\ Listed(new, S)  BY <1>3, <1>5, <1>6, RestOf
<1>8. listed \in Seq(Points)  BY <1>5, AppendedIs
<1>9. Len(listed) = Len(old) + Len(new)  BY <1>5, AppendedIs
<1>10. \A k \in 1 .. Len(old) + Len(new) :
          \/ k \in 1 .. Len(old) /\ listed[k] = old[k]
          \/ k > Len(old) /\ k - Len(old) \in 1 .. Len(new) /\ listed[k] = new[k - Len(old)]
  BY <1>5, AppendedCases
<1> HIDE DEF listed
<1> DEFINE n == Len(old)
           m == Len(new)
<1>11. n \in Nat /\ m \in Nat  BY <1>5
<1>12. \A i \in 1 .. n : old[i] \in Nat /\ old[i] < from
  <2> TAKE i \in 1 .. n
  <2>1. old[i] \in Points  OBVIOUS
  <2> QED  BY <1>2, <2>1
<1>13. \A j \in 1 .. m : new[j] \in Nat /\ new[j] \in S /\ from <= new[j]  BY <1>2, <1>5, <1>7 DEF Listed
<1>14. Distinct(listed)
  <2> SUFFICES ASSUME NEW i \in 1 .. n + m, NEW j \in 1 .. n + m, listed[i] = listed[j] PROVE i = j
    BY <1>9 DEF Distinct
  <2>1. CASE i \in 1 .. n /\ listed[i] = old[i] /\ j \in 1 .. n /\ listed[j] = old[j]
    BY <2>1 DEF Distinct
  <2>2. CASE i > n /\ i - n \in 1 .. m /\ listed[i] = new[i - n] /\ j > n /\ j - n \in 1 .. m /\ listed[j] = new[j - n]
    <3>1. i - n = j - n  BY <1>7, <2>2 DEF Distinct
    <3> QED  BY <1>11, <3>1
  <2>3. CASE i \in 1 .. n /\ listed[i] = old[i] /\ j > n /\ j - n \in 1 .. m /\ listed[j] = new[j - n]
    <3>1. old[i] \in Nat /\ new[j - n] \in Nat /\ old[i] < from /\ from <= new[j - n]
      BY <1>12, <1>13, <2>3
    <3>2. old[i] # new[j - n]  BY <3>1
    <3> QED  BY <2>3, <3>2
  <2>4. CASE j \in 1 .. n /\ listed[j] = old[j] /\ i > n /\ i - n \in 1 .. m /\ listed[i] = new[i - n]
    <3>1. old[j] \in Nat /\ new[i - n] \in Nat /\ old[j] < from /\ from <= new[i - n]
      BY <1>12, <1>13, <2>4
    <3>2. old[j] # new[i - n]  BY <3>1
    <3> QED  BY <2>4, <3>2
  <2> QED  BY <1>10, <2>1, <2>2, <2>3, <2>4
<1>15. ASSUME NEW T, Listed(old, T), S \subseteq T PROVE Listed(listed, T)
  <2> SUFFICES ASSUME NEW k \in 1 .. n + m PROVE listed[k] \in T  BY <1>9 DEF Listed
  <2>1. CASE k \in 1 .. n /\ listed[k] = old[k]  BY <1>15, <2>1 DEF Listed
  <2>2. CASE k - n \in 1 .. m /\ listed[k] = new[k - n]  BY <1>13, <1>15, <2>2
  <2> QED  BY <1>10, <2>1, <2>2
<1>16. ASSUME Len(rest) > most
       PROVE  rest[most + 1] \in Nat /\ \A i \in 1 .. n + m : listed[i] < rest[most + 1]
  <2> DEFINE next == rest[most + 1]
  <2>1. Len(rest) \in Nat /\ most + 1 \in 1 .. Len(rest)
    <3>1. Len(rest) \in Nat  BY <1>1
    <3> QED  BY <1>16, <3>1
  <2>2. next \in Nat /\ next >= from  BY <1>1, <1>2, <2>1 DEF Listed
  <2>3. Listed(page, {p \in Points : p < next})
    <3> SUFFICES ASSUME NEW k \in 1 .. Len(page) PROVE page[k] \in Points /\ page[k] < next  BY DEF Listed
    <3>1. k \in 1 .. Len(rest) /\ k < most + 1 /\ page[k] = rest[k]  BY <1>3, <1>16, <2>1
    <3> QED  BY <1>1, <2>1, <3>1
  <2> HIDE DEF next
  <2>4. Listed(new, {p \in Points : p < next})  BY <1>3, <1>5, <2>3, PartOfListed
  <2>5. \A i \in 1 .. n + m : listed[i] < next
    <3> TAKE i \in 1 .. n + m
    <3>1. CASE i \in 1 .. n /\ listed[i] = old[i]  BY <1>12, <2>2, <3>1
    <3>2. CASE i - n \in 1 .. m /\ listed[i] = new[i - n]  BY <2>4, <3>2 DEF Listed
    <3> QED  BY <1>10, <3>1, <3>2
  <2> QED  BY <2>2, <2>5 DEF next
<1> QED  BY <1>8, <1>9, <1>14, <1>15, <1>16 DEF listed, new, page, rest

LEMMA ListPageKeeps == ASSUME RetrievalInv, ListPage PROVE RetrievalInv'
<1> DEFINE S == {p \in Points : p >= offset /\ Matching(p)}
           rest == InOrder(S)
           most == IF PageSize < CorpusLimit - Len(corpus) THEN PageSize ELSE CorpusLimit - Len(corpus)
           page == Prefix(rest, most)
           places == {i \in DOMAIN page : payload[page[i]].well}
           listed == Appended(corpus, Picked(page, places))
<1>1. /\ phase = "listing" /\ corpus' = listed /\ dense' = dense
      /\ \/ /\ Len(rest) > most /\ Len(listed) < CorpusLimit /\ offset' = rest[most + 1]
            /\ UNCHANGED <<requestVars, qdrantVars, phase, scope, candidates, degraded, answer>>
         \/ /\ UNCHANGED offset
            /\ IF Authorized(ToSet(listed)) THEN Lexical(listed) /\ UNCHANGED degraded
               ELSE Ranks(dense) /\ degraded' = degraded \cup {"hybrid"}
  BY DEF ListPage, Appended
<1>2. RequestInv /\ ListsInv /\ ListingInv  BY DEF RetrievalInv
<1>3. /\ wanted.hybrid /\ candidates = <<>> /\ degraded = {} /\ Len(corpus) < CorpusLimit
      /\ \A i \in 1 .. Len(corpus) : corpus[i] < offset /\ Within(corpus[i])
  BY <1>1, <1>2 DEF ListingInv
<1>4. /\ dense \in Seq(Hit) /\ NoRepeats(dense) /\ Len(dense) <= DenseK
      /\ \A p \in IdsOf(dense) : Citable(p)
      /\ corpus \in Seq(Points) /\ Distinct(corpus) /\ offset \in Nat
  BY <1>2 DEF ListsInv
<1>5. /\ S \in SUBSET Points /\ payload \in [Points -> Payload]
      /\ \A p \in S : p >= offset /\ Within(p)
  BY <1>2 DEF Matching, Within, RequestInv
<1>6. most \in Nat
  <2>1. PageSize \in Nat /\ CorpusLimit \in Nat  BY RetrievalAssumption
  <2>2. Len(corpus) \in Nat  BY <1>4
  <2> QED  BY <1>3, <2>1, <2>2
<1> HIDE DEF S, most
<1>7. places \in SUBSET (1 .. Len(page))
  <2>1. rest \in Seq(Points)  BY <1>5, ListedIs
  <2> HIDE DEF rest
  <2>2. page \in Seq(Points)  BY <1>6, <2>1, PrefixOf
  <2> HIDE DEF page
  <2> QED  BY <2>2
<1> HIDE DEF places
<1>8. /\ listed \in Seq(Points) /\ Distinct(listed)
      /\ \A T : Listed(corpus, T) /\ S \subseteq T => Listed(listed, T)
      /\ Len(rest) > most =>
            rest[most + 1] \in Nat /\ \A i \in 1 .. Len(listed) : listed[i] < rest[most + 1]
  BY <1>3, <1>4, <1>5, <1>6, <1>7, PageIs
<1> HIDE DEF rest, page, listed
<1>9. Listed(listed, {p \in Points : Within(p)})
  <2>1. \A i \in 1 .. Len(corpus) : corpus[i] \in Points  BY <1>4
  <2>2. Listed(corpus, {p \in Points : Within(p)})  BY <1>3, <2>1 DEF Listed
  <2> QED  BY <1>5, <1>8, <2>2
<1>10. CASE /\ Len(rest) > most /\ Len(listed) < CorpusLimit /\ offset' = rest[most + 1]
            /\ UNCHANGED <<requestVars, qdrantVars, phase, scope, candidates, degraded, answer>>
  <2>1. /\ payload' = payload /\ wanted' = wanted /\ scope' = scope /\ visible' = visible
        /\ witnessed' = witnessed /\ phase' = phase /\ candidates' = candidates
        /\ degraded' = degraded /\ answer' = answer /\ corpus' = listed /\ dense' = dense
    BY <1>1, <1>10 DEF requestVars, qdrantVars
  <2>2. RequestInv'  BY <1>2, <2>1 DEF RequestInv
  <2>3. \A p : (Within(p) => Within(p)') /\ (Citable(p) => Citable(p)')  BY <2>1, StaysCitable
  <2>4. ListsInv'
    <3>1. \A p \in IdsOf(dense) : Citable(p)'  BY <1>4, <2>3
    <3>2. \A p \in IdsOf(candidates) : Citable(p)'  BY <1>2, <2>3 DEF ListsInv
    <3>3. offset' \in Nat  BY <1>8, <1>10
    <3> QED  BY <1>2, <1>8, <2>1, <3>1, <3>2, <3>3 DEF ListsInv
  <2>5. ListingInv'
    <3>1. \A i \in 1 .. Len(listed) : listed[i] < offset'  BY <1>8, <1>10
    <3>2. \A i \in 1 .. Len(listed) : Within(listed[i])  BY <1>9 DEF Listed
    <3>3. \A i \in 1 .. Len(corpus') : Within(corpus[i])'  BY <2>1, <3>2 DEF Within
    <3> QED  BY <1>3, <1>10, <2>1, <3>1, <3>3 DEF ListingInv
  <2>6. EarlyInv' /\ CandidatesInv'  BY <1>1, <2>1 DEF EarlyInv, CandidatesInv
  <2>7. AnswerInv'
    <3>1. answer = <<>>  BY <1>1 DEF RetrievalInv, AnswerInv
    <3> QED  BY <1>1, <2>1, <3>1 DEF AnswerInv
  <2> QED  BY <2>2, <2>4, <2>5, <2>6, <2>7 DEF RetrievalInv
<1>11. CASE UNCHANGED offset /\ ~Authorized(ToSet(listed)) /\ Ranks(dense) /\ degraded' = degraded \cup {"hybrid"}
  <2>1. IdsOf(dense) = IF wanted.hybrid /\ "hybrid" \notin degraded'
                       THEN IdsOf(Fused(dense', LexicalHits(corpus'))) ELSE IdsOf(dense')
    BY <1>1, <1>11
  <2> QED  BY <1>1, <1>4, <1>8, <1>11, <2>1, RanksKeep
<1>12. CASE UNCHANGED offset /\ Authorized(ToSet(listed)) /\ Lexical(listed) /\ UNCHANGED degraded
  <2> DEFINE lexical == LexicalHits(listed)
             hits == IF lexical = <<>> THEN dense ELSE Fused(dense, lexical)
  <2>1. Ranks(hits)  BY <1>12 DEF Lexical
  <2>2. lexical \in Seq(Hit) /\ NoRepeats(lexical)  BY <1>5, <1>8, LexicalIs
  <2>3. Listed(listed, {p \in Points : Citable(p)})
    <3> SUFFICES ASSUME NEW i \in 1 .. Len(listed) PROVE listed[i] \in Points /\ Citable(listed[i])
      BY DEF Listed
    <3>1. DOMAIN listed = 1 .. Len(listed)  BY <1>8
    <3>2. listed[i] \in Points /\ Within(listed[i]) /\ listed[i] \in ToSet(listed)
      BY <1>9, <3>1 DEF Listed, ToSet
    <3> QED  BY <1>12, <3>2 DEF Authorized, Citable
  <2>4. IdsOf(lexical) \subseteq {p \in Points : Citable(p)}  BY <1>5, <1>8, <2>3, LexicalIs
  <2>5. /\ Fused(dense, lexical) \in Seq(Hit) /\ NoRepeats(Fused(dense, lexical))
        /\ IdsOf(Fused(dense, lexical)) \subseteq IdsOf(dense) \cup IdsOf(lexical)
        /\ lexical = <<>> /\ Len(dense) <= DenseK => IdsOf(Fused(dense, lexical)) = IdsOf(dense)
    BY <1>4, <2>2, FusedIs
  <2> HIDE DEF lexical
  <2>6. /\ hits \in Seq(Hit) /\ NoRepeats(hits) /\ IdsOf(hits) = IdsOf(Fused(dense, lexical))
        /\ \A p \in IdsOf(hits) : Citable(p)
    <3>1. CASE lexical = <<>>  BY <1>4, <2>5, <3>1
    <3>2. CASE lexical # <<>>  BY <1>4, <2>4, <2>5, <3>2
    <3> QED  BY <3>1, <3>2
  <2>7. IdsOf(hits) = IF wanted.hybrid /\ "hybrid" \notin degraded'
                      THEN IdsOf(Fused(dense', LexicalHits(corpus'))) ELSE IdsOf(dense')
    BY <1>1, <1>3, <1>12, <2>6 DEF lexical
  <2> HIDE DEF hits
  <2> QED  BY <1>1, <1>4, <1>8, <1>12, <2>1, <2>6, <2>7, RanksKeep
<1> QED  BY <1>1, <1>10, <1>11, <1>12

\* As many hits as points.
LEMMA CitedOnce ==
    ASSUME NEW hits \in Seq(Hit), NoRepeats(hits)
    PROVE  Cardinality(IdsOf(hits)) = Len(hits)
<1> DEFINE n == Len(hits)
           f == [i \in 1 .. n |-> hits[i].id]
<1>1. n \in Nat /\ DOMAIN hits = 1 .. n  BY DEF IdsOf
<1>2. IsFiniteSet(1 .. n) /\ Cardinality(1 .. n) = n
  <2>1. 1 \in Int /\ n \in Int  BY <1>1
  <2>2. IsFiniteSet(1 .. n) /\ Cardinality(1 .. n) = IF 1 > n THEN 0 ELSE n - 1 + 1  BY <2>1, FS_Interval
  <2> QED  BY <1>1, <2>2
<1>3. f \in Surjection(1 .. n, IdsOf(hits))  BY <1>1 DEF Surjection, IdsOf
<1>4. \A i, j \in 1 .. n : f[i] = f[j] => i = j  BY DEF NoRepeats
<1> HIDE DEF f, n
<1>5. f \in Injection(1 .. n, IdsOf(hits))  BY <1>3, <1>4 DEF Injection, IsInjective, Surjection
<1>6. Cardinality(IdsOf(hits)) = Cardinality(1 .. n)  BY <1>2, <1>3, <1>5, FS_Surjection
<1> QED  BY <1>2, <1>6 DEF n

\* What is answered of the candidates.
LEMMA AnsweredIs ==
    ASSUME RetrievalInv, phase = "answered"
    PROVE  /\ answer \in Seq(Hit) /\ Len(answer) <= TopK /\ NoRepeats(answer)
           /\ IdsOf(answer) \subseteq IdsOf(candidates)
           /\ \A p \in IdsOf(candidates) \ IdsOf(answer) :
                 Len(answer) = TopK \/ \E q \in IdsOf(candidates) \ {p} : Overlapping(p, q)
           /\ Len(candidates) > 0 =>
                 /\ Len(answer) > 0
                 /\ \/ answer[1].id = candidates[1].id
                    \/ /\ payload[answer[1].id].doc = payload[candidates[1].id].doc
                       /\ MoreSpecific(answer[1].id, candidates[1].id)
<1> DEFINE kept == Deduplicated(candidates)
           n == Len(candidates)
<1>1. candidates \in Seq(Hit) /\ NoRepeats(candidates)  BY DEF RetrievalInv, ListsInv
<1>2. n \in Nat /\ DOMAIN candidates = 1 .. n  BY <1>1
<1>3. answer = RetainCompanion(kept)  BY DEF RetrievalInv, AnswerInv
<1>4. KeptOf(candidates, n, kept)  BY <1>1, DeduplicatedIs
<1> HIDE DEF kept, n
<1>5. /\ kept \in Seq(Hit) /\ NoRepeats(kept)
      /\ \A i \in 1 .. Len(kept) : \E j \in 1 .. n : kept[i] = candidates[j]
      /\ \A j \in 1 .. n :
            \/ \E i \in 1 .. Len(kept) : kept[i].id = candidates[j].id
            \/ \E m \in 1 .. n : m # j /\ Overlapping(candidates[j].id, candidates[m].id)
      /\ n > 0 => /\ Len(kept) > 0
                  /\ \/ kept[1].id = candidates[1].id
                     \/ /\ payload[kept[1].id].doc = payload[candidates[1].id].doc
                        /\ MoreSpecific(kept[1].id, candidates[1].id)
  BY <1>4 DEF KeptOf
<1>6. /\ answer \in Seq(Hit) /\ Len(answer) <= TopK
      /\ NoRepeats(answer) /\ IdsOf(answer) \subseteq IdsOf(kept)
      /\ IdsOf(kept) \subseteq IdsOf(answer) \/ Len(answer) = TopK
      /\ Len(kept) > 0 => Len(answer) > 0 /\ answer[1] = kept[1]
  BY <1>3, <1>5, RetainedIs
<1>7. DOMAIN kept = 1 .. Len(kept)  BY <1>5
<1>8. IdsOf(kept) \subseteq IdsOf(candidates)  BY <1>2, <1>5, <1>7 DEF IdsOf
<1>9. ASSUME NEW p \in IdsOf(candidates) \ IdsOf(answer), Len(answer) # TopK
      PROVE  \E q \in IdsOf(candidates) \ {p} : Overlapping(p, q)
  <2>1. p \notin IdsOf(kept)  BY <1>6, <1>9
  <2>2. PICK j \in 1 .. n : candidates[j].id = p  BY <1>2 DEF IdsOf
  <2>3. \A i \in 1 .. Len(kept) : kept[i].id # p  BY <1>7, <2>1 DEF IdsOf
  <2>4. PICK m \in 1 .. n : m # j /\ Overlapping(candidates[j].id, candidates[m].id)  BY <1>5, <2>2, <2>3
  <2>5. candidates[m].id \in IdsOf(candidates)  BY <1>2 DEF IdsOf
  <2>6. candidates[m].id # p  BY <1>1, <2>2, <2>4 DEF NoRepeats, n
  <2> QED  BY <2>2, <2>4, <2>5, <2>6
<1>10. n > 0 => /\ Len(answer) > 0
                /\ \/ answer[1].id = candidates[1].id
                   \/ /\ payload[answer[1].id].doc = payload[candidates[1].id].doc
                      /\ MoreSpecific(answer[1].id, candidates[1].id)
  BY <1>5, <1>6
<1> QED  BY <1>6, <1>8, <1>9, <1>10 DEF n

LEMMA InvMeans == RetrievalInv => RetrievalHolds
<1> SUFFICES ASSUME RetrievalInv PROVE RetrievalHolds  OBVIOUS
<1>1. RequestInv /\ ListsInv /\ CandidatesInv /\ AnswerInv  BY DEF RetrievalInv
<1>2. /\ dense \in Seq(Hit) /\ NoRepeats(dense)
      /\ candidates \in Seq(Hit) /\ \A p \in IdsOf(candidates) : Citable(p)
      /\ corpus \in Seq(Points) /\ Distinct(corpus)
      /\ payload \in [Points -> Payload]
  BY <1>1 DEF ListsInv, RequestInv
<1>3. phase # "answered" => answer = <<>>  BY <1>1 DEF AnswerInv
<1>4. /\ answer \in Seq(Hit) /\ Len(answer) <= TopK /\ NoRepeats(answer)
      /\ \A p \in IdsOf(answer) : Citable(p)
  <2>1. CASE phase = "answered"  BY <1>2, <2>1, AnsweredIs
  <2>2. CASE phase # "answered"
    <3>1. TopK \in Nat  BY RetrievalAssumption
    <3>2. <<>> \in Seq(Hit) /\ Len(<<>>) = 0 /\ IdsOf(<<>>) = {} /\ NoRepeats(<<>>)  BY DEF IdsOf, NoRepeats
    <3> QED  BY <1>3, <2>2, <3>1, <3>2
  <2> QED  BY <2>1, <2>2
<1>5. RetrievalTypeOK
  <2>1. \A i \in DOMAIN dense : dense[i] \in Hit  BY <1>2
  <2>2. \A i \in DOMAIN candidates : candidates[i] \in Hit  BY <1>2
  <2>3. \A i \in DOMAIN answer : answer[i] \in Hit  BY <1>4
  <2>4. visible \subseteq Points /\ scope \subseteq Generations  BY <1>1 DEF RequestInv
  <2> QED  BY <1>2, <2>1, <2>2, <2>3, <2>4 DEF RetrievalTypeOK
<1>6. CitesWithinScope
  <2>1. Cardinality(IdsOf(answer)) = Len(answer)  BY <1>4, CitedOnce
  <2> QED  BY <1>4, <2>1 DEF CitesWithinScope, Citable, Within
<1>7. FusionIsMonotone
  <2> DEFINE lexical == LexicalHits(corpus)
             fused == Fused(dense, lexical)
  <2>1. lexical \in Seq(Hit) /\ NoRepeats(lexical)  BY <1>2, LexicalIs
  <2> HIDE DEF lexical
  <2>2. /\ IdsOf(fused) \subseteq IdsOf(dense) \cup IdsOf(lexical)
        /\ \A p, q \in IdsOf(fused) :
              Before(dense, p, q) /\ Before(lexical, p, q) => Place(fused, p) < Place(fused, q)
    BY <1>2, <2>1, FusedIs
  <2> HIDE DEF fused
  <2>3. \A p, q \in IdsOf(fused) :
           /\ (q \in IdsOf(dense) => p \in IdsOf(dense) /\ Place(dense, p) < Place(dense, q))
           /\ (q \in IdsOf(lexical) => p \in IdsOf(lexical) /\ Place(lexical, p) < Place(lexical, q))
           => Place(fused, p) < Place(fused, q)
    BY <2>2 DEF Before
  <2> QED  BY <2>2, <2>3 DEF FusionIsMonotone, fused, lexical
<1>8. NothingDropped
  <2> SUFFICES ASSUME phase = "answered" PROVE NothingDropped  BY DEF NothingDropped
  <2>1. IdsOf(candidates) = IF wanted.hybrid /\ "hybrid" \notin degraded
                            THEN IdsOf(Fused(dense, LexicalHits(corpus))) ELSE IdsOf(dense)
    BY <1>1 DEF CandidatesInv
  <2> QED  BY <2>1, AnsweredIs DEF NothingDropped
<1>9. BestComesFirst
  <2> SUFFICES ASSUME phase = "answered", candidates # <<>> PROVE BestComesFirst  BY DEF BestComesFirst
  <2>1. Len(candidates) > 0  BY <1>2
  <2>2. answer \in Seq(Hit) /\ Len(answer) > 0
        /\ \/ answer[1].id = candidates[1].id
           \/ /\ payload[answer[1].id].doc = payload[candidates[1].id].doc
              /\ MoreSpecific(answer[1].id, candidates[1].id)
    BY <2>1, AnsweredIs
  <2>3. answer # <<>>  BY <2>2
  <2> QED  BY <2>2, <2>3 DEF BestComesFirst
<1> QED  BY <1>5, <1>6, <1>7, <1>8, <1>9 DEF RetrievalHolds

\* Whatever is stored and asked for, and whatever fails or changes on the way, what the
\* retrieval service answers is within the caller's scope and cited once; the fusion keeps
\* the order the two lists agree on, and only repetitions and what exceeds the cap are dropped.
THEOREM RetrievalsHold == RetrievalSpec => []RetrievalHolds
<1>1. AnyRequest /\ RetrievalInit => RetrievalInv  BY StartsRight
<1>2. RetrievalInv /\ [RetrievalNext]_retrievalVars => RetrievalInv'
  <2> SUFFICES ASSUME RetrievalInv, [RetrievalNext]_retrievalVars PROVE RetrievalInv'  OBVIOUS
  <2>1. CASE Resolve  BY <2>1, ResolveKeeps
  <2>2. CASE Embed  BY <2>2, EmbedKeeps
  <2>3. CASE Search  BY <2>3, SearchKeeps
  <2>4. CASE SearchFails  BY <2>4, SearchFailsKeeps
  <2>5. CASE ListPage  BY <2>5, ListPageKeeps
  <2>6. CASE ListFails  BY <2>6, ListFailsKeeps
  <2>7. CASE Rerank  BY <2>7, RerankKeeps
  <2>8. CASE Leave  BY <2>8, LeaveKeeps
  <2>9. CASE Change  BY <2>9, ChangeKeeps
  <2>10. CASE UNCHANGED retrievalVars
    <3>1. /\ phase' = phase /\ payload' = payload /\ wanted' = wanted /\ scope' = scope
          /\ visible' = visible /\ witnessed' = witnessed /\ UNCHANGED resultVars
      BY <2>10 DEF retrievalVars, requestVars, qdrantVars
    <3>2. RequestInv'  BY <3>1 DEF RetrievalInv, RequestInv
    <3>3. EarlyInv'  BY <3>1 DEF RetrievalInv, EarlyInv, resultVars
    <3> QED  BY <3>1, <3>2, <3>3, StaysAsItIs
  <2> QED  BY <2>1, <2>2, <2>3, <2>4, <2>5, <2>6, <2>7, <2>8, <2>9, <2>10 DEF RetrievalNext
<1>3. RetrievalInv => RetrievalHolds  BY InvMeans
<1> QED  BY <1>1, <1>2, <1>3, PTL DEF RetrievalSpec

(***************************************************************************)
(* The answers from tables                                                 *)
(***************************************************************************)

Operations == Aggregates \cup {"topN", "filter", "lookup"}

RowsInv == \A t \in Tables : \A p \in Positions(t) : rows[t][p] \in RowKinds

LEMMA PositionsAre ==
    ASSUME NEW t \in Tables, NEW S \in SUBSET Positions(t)
    PROVE  S \in SUBSET Nat /\ S \in SUBSET Int /\ IsFiniteSet(S)
<1>1. RowCount[t] \in Nat  BY TableAssumption DEF Tables
<1>2. IsFiniteSet(1 .. RowCount[t])  BY <1>1, FS_Interval
<1>3. IsFiniteSet(S)  BY <1>2, FS_Subset DEF Positions
<1> QED  BY <1>1, <1>3 DEF Positions

LEMMA NumberIs ==
    ASSUME RowsInv, NEW t \in Tables, NEW p \in Positions(t), NEW c \in Columns
    PROVE  Number(t, p, c) \in Nat
<1>1. rows[t][p] \in RowKinds  BY DEF RowsInv
<1>2. rows[t][p].cell \in [{name, amount} -> DOMAIN Num]  BY <1>1, TableAssumption
<1>3. rows[t][p].cell[c] \in DOMAIN Num  BY <1>2 DEF Columns
<1> QED  BY <1>3, TableAssumption DEF Number, Cell

LEMMA CellHasKey ==
    ASSUME RowsInv, NEW t \in Tables, NEW p \in Positions(t), NEW c \in Columns
    PROVE  Cell(t, p, c) \in DOMAIN Key
<1>1. rows[t][p] \in RowKinds  BY DEF RowsInv
<1>2. rows[t][p].cell \in [{name, amount} -> DOMAIN Num]  BY <1>1, TableAssumption
<1> QED  BY <1>2, TableAssumption DEF Columns, Cell

\* The numbers of a set in their order are the members of the set.
LEMMA InOrderHas ==
    ASSUME NEW S \in SUBSET Int, IsFiniteSet(S)
    PROVE  InOrder(S) \in Seq(S) /\ Range(InOrder(S)) = S
<1>1. /\ Cardinality(S) \in Nat
      /\ InOrder(S) \in [1 .. Cardinality(S) -> S]
      /\ \A p \in S : \E i \in 1 .. Cardinality(S) : InOrder(S)[i] = p
  BY InOrderIs
<1>2. InOrder(S) \in Seq(S)  BY <1>1
<1>3. Range(InOrder(S)) = S  BY <1>1 DEF Range
<1> QED  BY <1>2, <1>3

\* What is within a limit is within a greater one.
LEMMA PrefixHas ==
    ASSUME NEW T, NEW s \in Seq(T), NEW n \in Nat, NEW m \in Nat, m <= n
    PROVE  /\ Range(Prefix(s, n)) \subseteq Range(s)
           /\ Range(Prefix(s, m)) \subseteq Range(Prefix(s, n))
           /\ Len(s) <= n => Range(Prefix(s, n)) = Range(s)
<1> DEFINE long == Prefix(s, n)
           short == Prefix(s, m)
<1>1. /\ long \in Seq(T) /\ Len(long) = IF n < Len(s) THEN n ELSE Len(s)
      /\ \A k \in 1 .. Len(long) : long[k] = s[k]
  BY PrefixOf
<1>2. /\ short \in Seq(T) /\ Len(short) = IF m < Len(s) THEN m ELSE Len(s)
      /\ \A k \in 1 .. Len(short) : short[k] = s[k]
  BY PrefixOf
<1> HIDE DEF long, short
<1>3. DOMAIN s = 1 .. Len(s) /\ DOMAIN long = 1 .. Len(long) /\ DOMAIN short = 1 .. Len(short)
  BY <1>1, <1>2
<1>4. Len(long) <= Len(s) /\ Len(short) <= Len(long) /\ (Len(s) <= n => Len(long) = Len(s))
  BY <1>1, <1>2
<1>5. Range(long) \subseteq Range(s)
  <2> SUFFICES ASSUME NEW k \in 1 .. Len(long) PROVE long[k] \in Range(s)  BY <1>3 DEF Range
  <2>1. k \in 1 .. Len(s) /\ long[k] = s[k]  BY <1>1, <1>4
  <2> QED  BY <1>3, <2>1 DEF Range
<1>6. Range(short) \subseteq Range(long)
  <2> SUFFICES ASSUME NEW k \in 1 .. Len(short) PROVE short[k] \in Range(long)  BY <1>3 DEF Range
  <2>1. k \in 1 .. Len(long) /\ short[k] = s[k]  BY <1>1, <1>2, <1>4
  <2>2. short[k] = long[k]  BY <1>1, <2>1
  <2> QED  BY <1>3, <2>1, <2>2 DEF Range
<1>7. Len(s) <= n => Range(long) = Range(s)
  <2> SUFFICES ASSUME Len(s) <= n, NEW k \in 1 .. Len(s) PROVE s[k] \in Range(long)
    BY <1>3, <1>5 DEF Range
  <2>1. k \in 1 .. Len(long) /\ long[k] = s[k]  BY <1>1, <1>4
  <2> QED  BY <1>3, <2>1 DEF Range
<1> QED  BY <1>5, <1>6, <1>7 DEF long, short

\* An ordered finite set has a first member.
LEMMA FirstExists ==
    ASSUME NEW S, IsFiniteSet(S), S # {}, NEW R, StrictOrder(S, R)
    PROVE  \E x \in S : \A y \in S : y = x \/ <<x, y>> \in R
<1>1. /\ Cardinality(S) \in Nat
      /\ \A k \in 0 .. Cardinality(S) - 1 : \E x \in S : Cardinality(Below(S, R, x)) = k
  BY Ranked
<1>2. Cardinality(S) # 0  BY FS_EmptySet
<1>3. 0 \in 0 .. Cardinality(S) - 1  BY <1>1, <1>2
<1>4. PICK x \in S : Cardinality(Below(S, R, x)) = 0  BY <1>1, <1>3
<1>5. Below(S, R, x) \subseteq S  BY DEF Below
<1>6. IsFiniteSet(Below(S, R, x))  BY <1>5, FS_Subset
<1>7. Below(S, R, x) = {}  BY <1>4, <1>6, FS_EmptySet
<1>8. \A y \in S : <<y, x>> \notin R  BY <1>7 DEF Below
<1> QED  BY <1>8 DEF StrictOrder

\* There is a row with the least number, and one with the greatest.
LEMMA ExtremesAre ==
    ASSUME RowsInv, NEW t \in Tables, NEW S \in SUBSET Positions(t), NEW c \in Columns,
           Numeric(t, S, c) # {}
    PROVE  Least(t, S, c) \in Numeric(t, S, c) /\ Greatest(t, S, c) \in Numeric(t, S, c)
<1> DEFINE T == Numeric(t, S, c)
           N(p) == Number(t, p, c)
           lower == {pair \in T \X T :
                        N(pair[1]) < N(pair[2]) \/ (N(pair[1]) = N(pair[2]) /\ pair[1] < pair[2])}
           higher == {pair \in T \X T :
                        N(pair[1]) > N(pair[2]) \/ (N(pair[1]) = N(pair[2]) /\ pair[1] < pair[2])}
<1>1. T \in SUBSET S  BY DEF Numeric
<1>2. T \in SUBSET Positions(t)  BY <1>1
<1>3. IsFiniteSet(T) /\ T \in SUBSET Nat  BY <1>2, PositionsAre
<1>4. \A p \in T : p \in Nat /\ N(p) \in Nat  BY <1>2, <1>3, NumberIs
<1>5. /\ \A p, q \in T : <<p, q>> \in lower <=> N(p) < N(q) \/ (N(p) = N(q) /\ p < q)
      /\ \A p, q \in T : <<p, q>> \in higher <=> N(p) > N(q) \/ (N(p) = N(q) /\ p < q)
  OBVIOUS
<1>6. Least(t, S, c) = CHOOSE p \in T : \A q \in T : N(p) < N(q) \/ (N(p) = N(q) /\ p <= q)
  BY DEF Least
<1>7. Greatest(t, S, c) = CHOOSE p \in T : \A q \in T : N(p) > N(q) \/ (N(p) = N(q) /\ p <= q)
  BY DEF Greatest
<1>8. T # {}  OBVIOUS
<1> HIDE DEF T, N, lower, higher
<1>9. StrictOrder(T, lower)  BY <1>4, <1>5 DEF StrictOrder
<1>10. StrictOrder(T, higher)  BY <1>4, <1>5 DEF StrictOrder
<1>11. \E p \in T : \A q \in T : N(p) < N(q) \/ (N(p) = N(q) /\ p <= q)
  <2>1. PICK p \in T : \A q \in T : q = p \/ <<p, q>> \in lower  BY <1>3, <1>8, <1>9, FirstExists
  <2>2. ASSUME NEW q \in T PROVE N(p) < N(q) \/ (N(p) = N(q) /\ p <= q)
    <3>1. CASE q = p  BY <1>4, <3>1
    <3>2. CASE <<p, q>> \in lower  BY <1>4, <1>5, <3>2
    <3> QED  BY <2>1, <3>1, <3>2
  <2> QED  BY <2>2
<1>12. \E p \in T : \A q \in T : N(p) > N(q) \/ (N(p) = N(q) /\ p <= q)
  <2>1. PICK p \in T : \A q \in T : q = p \/ <<p, q>> \in higher  BY <1>3, <1>8, <1>10, FirstExists
  <2>2. ASSUME NEW q \in T PROVE N(p) > N(q) \/ (N(p) = N(q) /\ p <= q)
    <3>1. CASE q = p  BY <1>4, <3>1
    <3>2. CASE <<p, q>> \in higher  BY <1>4, <1>5, <3>2
    <3> QED  BY <2>1, <3>1, <3>2
  <2> QED  BY <2>2
<1>13. Least(t, S, c) \in T  BY <1>6, <1>11
<1>14. Greatest(t, S, c) \in T  BY <1>7, <1>12
<1> QED  BY <1>13, <1>14 DEF T

\* topN shows numbers than which none that it leaves out is greater.
LEMMA TopIs ==
    ASSUME RowsInv, NEW t \in Tables, NEW S \in SUBSET Positions(t), NEW c \in Columns
    PROVE  LET shown == Prefix(Descending(t, S, c), RowLimit)
           IN  /\ shown \in Seq(S)
               /\ \A p \in Numeric(t, S, c) \ Range(shown), q \in Range(shown) :
                     Number(t, p, c) <= Number(t, q, c)
<1> DEFINE T == Numeric(t, S, c)
           listed == InOrder(T)
           key == [i \in DOMAIN listed |-> Number(t, listed[i], c)]
           best == Descending(t, S, c)
           shown == Prefix(best, RowLimit)
           n == Len(listed)
<1>1. T \in SUBSET S /\ T \in SUBSET Positions(t)  BY DEF Numeric
<1>2. listed \in Seq(T) /\ Range(listed) = T  BY <1>1, PositionsAre, InOrderHas
<1>3. best = Sorted(listed, Higher(key))  BY DEF Descending
<1>4. RowLimit \in Nat  BY TableAssumption
<1> HIDE DEF T, listed
<1>5. n \in Nat /\ DOMAIN listed = 1 .. n /\ \A i \in 1 .. n : listed[i] \in T  BY <1>2
<1>6. key \in [1 .. n -> Int] /\ \A i \in 1 .. n : key[i] = Number(t, listed[i], c)
  BY <1>1, <1>5, NumberIs
<1> HIDE DEF key, best
<1>7. Weak(n, Higher(key)) /\ \A i, j \in 1 .. n : <<i, j>> \in Higher(key) <=> key[i] > key[j]
  BY <1>5, <1>6, HigherIsWeak
<1>8. PICK f : /\ Onto(f, n)
               /\ best = [k \in 1 .. n |-> listed[f[k]]]
               /\ \A i, j \in 1 .. n : <<f[i], f[j]>> \in Higher(key) => i < j
  BY <1>3, <1>5, <1>7, SortedIs
<1>9. f \in [1 .. n -> 1 .. n] /\ \A k \in 1 .. n : \E i \in 1 .. n : f[i] = k  BY <1>8 DEF Onto
<1>10. best \in Seq(T) /\ Len(best) = n /\ \A k \in 1 .. n : best[k] = listed[f[k]]
  BY <1>5, <1>8, <1>9
<1>11. /\ shown \in Seq(T) /\ Len(shown) = (IF RowLimit < n THEN RowLimit ELSE n)
       /\ \A k \in 1 .. Len(shown) : shown[k] = best[k]
  BY <1>4, <1>10, PrefixOf
<1> HIDE DEF shown
<1>12. ASSUME NEW p \in T \ Range(shown), NEW q \in Range(shown)
       PROVE  Number(t, p, c) <= Number(t, q, c)
  <2>1. PICK i \in 1 .. n : listed[i] = p  BY <1>2, <1>5 DEF Range
  <2>2. PICK j \in 1 .. n : f[j] = i  BY <1>9
  <2>3. DOMAIN shown = 1 .. Len(shown)  BY <1>11
  <2>4. PICK k \in 1 .. Len(shown) : shown[k] = q  BY <2>3 DEF Range
  <2>5. k \in 1 .. n /\ q = listed[f[k]] /\ f[k] \in 1 .. n
    <3>1. Len(shown) \in Nat /\ Len(shown) <= n  BY <1>4, <1>5, <1>11
    <3>2. k \in 1 .. n  BY <1>5, <2>4, <3>1
    <3>3. f[k] \in 1 .. n  BY <1>9, <3>2
    <3> QED  BY <1>10, <1>11, <2>4, <3>2, <3>3
  <2>6. best[j] = p  BY <1>10, <2>1, <2>2
  <2>7. j \notin 1 .. Len(shown)
    <3> SUFFICES ASSUME j \in 1 .. Len(shown) PROVE FALSE  OBVIOUS
    <3>1. shown[j] = p  BY <1>11, <2>6
    <3> QED  BY <2>3, <3>1 DEF Range
  <2>8. ~(j < k)  BY <2>4, <2>7
  <2>9. <<f[j], f[k]>> \notin Higher(key)  BY <1>8, <2>5, <2>8
  <2>10. ~(key[i] > key[f[k]])  BY <1>7, <2>2, <2>5, <2>9
  <2>11. key[i] \in Int /\ key[f[k]] \in Int  BY <1>6, <2>5
  <2>12. key[i] <= key[f[k]]  BY <2>10, <2>11
  <2> QED  BY <1>6, <2>1, <2>5, <2>12
<1>13. shown \in Seq(S)  BY <1>1, <1>11
<1> QED  BY <1>12, <1>13 DEF T, shown, best

\* An operation shows rows that it is about.
LEMMA RowsAre ==
    ASSUME RowsInv, NEW t \in Tables, NEW S \in SUBSET Positions(t), NEW c \in Columns,
           NEW op \in Operations, op \in {"count", "filter", "lookup"} \/ Numeric(t, S, c) # {}
    PROVE  Rows(op, t, S, c) \in Seq(S)
<1>1. Numeric(t, S, c) \in SUBSET S /\ Numeric(t, S, c) \in SUBSET Positions(t)  BY DEF Numeric
<1>2. InOrder(S) \in Seq(S)  BY PositionsAre, InOrderHas
<1>3. InOrder(Numeric(t, S, c)) \in Seq(S)
  <2>1. InOrder(Numeric(t, S, c)) \in Seq(Numeric(t, S, c))  BY <1>1, PositionsAre, InOrderHas
  <2> QED  BY <1>1, <2>1
<1>4. CASE op \in {"count", "filter", "lookup"}  BY <1>2, <1>4 DEF Rows
<1>5. CASE op \in {"sum", "avg"}  BY <1>3, <1>5 DEF Rows
<1>6. CASE op \in {"min", "max", "minMax"}
  <2>1. Least(t, S, c) \in S /\ Greatest(t, S, c) \in S  BY <1>1, <1>6, ExtremesAre
  <2> QED  BY <1>6, <2>1 DEF Rows
<1>7. CASE op = "topN"
  <2>1. Prefix(Descending(t, S, c), RowLimit) \in Seq(S)  BY TopIs
  <2> QED  BY <1>7, <2>1 DEF Rows
<1> QED  BY <1>4, <1>5, <1>6, <1>7 DEF Operations, Aggregates

\* A lookup is one that a single table at hand grounds.
LEMMA LookupIs ==
    ASSUME NEW words, NEW p \in GroundedLookups(words)
    PROVE  \E t \in Candidates : \E m \in Grounds(t, words) :
              /\ GroundedTables(words) = {t}
              /\ p = [mode |-> "single", table |-> t, operation |-> "lookup", sums |-> FALSE,
                      where |-> {}, column |-> m.column, words |-> words,
                      values |-> {n.value : n \in {n \in Matches(t, words) : SameEntity(m, n)}}]
<1> DEFINE G == GroundedTables(words)
           t == CHOOSE x \in G : TRUE
<1>1. Cardinality(G) = 1  BY DEF GroundedLookups
<1>2. G \subseteq Tables  BY DEF GroundedTables, Candidates
<1>3. IsFiniteSet(Tables)
  <2>1. IsFiniteSet({t1}) /\ IsFiniteSet({t2}) /\ Tables = {t1} \cup {t2}  BY FS_Singleton DEF Tables
  <2> QED  BY <2>1, FS_Union
<1>4. IsFiniteSet(G)  BY <1>2, <1>3, FS_Subset
<1>5. PICK x : G = {x}  BY <1>1, <1>4, FS_Singleton
<1>6. t \in G /\ G = {t}  BY <1>5
<1>7. p \in {[mode |-> "single", table |-> t, operation |-> "lookup", sums |-> FALSE,
              where |-> {}, column |-> m.column, words |-> words,
              values |-> {n.value : n \in {n \in Matches(t, words) : SameEntity(m, n)}}] :
                m \in Grounds(t, words)}
  BY <1>1 DEF GroundedLookups
<1> HIDE DEF t
<1>8. t \in Candidates  BY <1>6 DEF GroundedTables
<1> QED  BY <1>6, <1>7, <1>8

\* What a plan over one table is.
LEMMA SinglePlanIs ==
    ASSUME NEW p \in Plans, p.mode = "single"
    PROVE  /\ p.table \in Tables /\ p.column \in Columns /\ p.operation \in Operations
           /\ p.operation # "lookup" => p.column = amount
           /\ p.operation = "lookup" => \E words : p.words = words /\ p \in GroundedLookups(words)
<1>1. CASE p \in SinglePlans
  <2>1. /\ p.table = t1 /\ p.column = amount /\ p.operation \in Aggregates \cup {"topN", "filter"}
    BY <1>1 DEF SinglePlans
  <2>2. p.operation # "lookup"  BY <2>1 DEF Aggregates
  <2> QED  BY <2>1, <2>2 DEF Operations, Tables, Columns
<1>2. CASE \E words : p \in GroundedLookups(words)
  <2>1. PICK words : p \in GroundedLookups(words)  BY <1>2
  <2>2. PICK t \in Candidates : \E m \in Grounds(t, words) :
           p = [mode |-> "single", table |-> t, operation |-> "lookup", sums |-> FALSE,
                where |-> {}, column |-> m.column, words |-> words,
                values |-> {n.value : n \in {n \in Matches(t, words) : SameEntity(m, n)}}]
    BY <2>1, LookupIs
  <2>3. PICK m \in Grounds(t, words) :
           p.table = t /\ p.operation = "lookup" /\ p.column = m.column /\ p.words = words
    BY <2>2
  <2>4. t \in Tables  BY DEF Candidates
  <2>5. m.column \in Columns  BY DEF Grounds, Matches
  <2> QED  BY <2>1, <2>3, <2>4, <2>5 DEF Operations
<1>3. p \notin DualPlans  BY DEF DualPlans
<1> QED  BY <1>1, <1>2, <1>3 DEF Plans

\* What an execution that succeeds has answered.
LEMMA SingleIs ==
    ASSUME NEW p \in Plans, p.mode = "single", ExecuteSingle(p).status = "success"
    PROVE  \E S \in SUBSET Held(p.table) :
              /\ ExecuteSingle(p) = Succeeded(p.operation, p.table, S, p.column)
              /\ p.operation \in {"count", "filter", "lookup"} \/ Numeric(p.table, S, p.column) # {}
              /\ p.operation \in Aggregates \cup {"topN"} => S = AllRows(p)
<1> DEFINE t == p.table
           op == p.operation
           base == NormalizedRows(t, Held(t), p.sums)
           S == Filtered(t, base, p.where)
           found == LookedUp(t, S, p.column, p.values)
<1>1. /\ \A reason : Refused(reason).status = "refuse"
      /\ \A reason : Unclear(reason).status = "clarify"
  BY DEF Refused, Unclear
<1>2. ExecuteSingle(p) =
        IF op \in Aggregates \cup {"topN"} /\ ~Covered(t) THEN Refused("coverage")
        ELSE IF brought[t] = {} THEN Refused("table_unavailable")
        ELSE IF PredicateUnclear(t, base, p.where) THEN Unclear("non_numeric_comparison")
        ELSE IF op = "lookup" THEN Succeeded("lookup", t, found, p.column)
        ELSE IF op \notin {"count", "filter"} /\ Numeric(t, S, p.column) = {}
        THEN Unclear("no_numeric_values")
        ELSE Succeeded(op, t, S, p.column)
  BY DEF ExecuteSingle
<1>3. base \subseteq Held(t) /\ S \subseteq base /\ found \subseteq S
  BY DEF NormalizedRows, Filtered, LookedUp
<1>4. Covered(t) => S = AllRows(p)  BY DEF Covered, AllRows
<1> HIDE DEF S, base, found, t, op
<1>5. found \subseteq Held(t) /\ S \subseteq Held(t)  BY <1>3
<1>6. op \in Aggregates \cup {"topN"} => Covered(t)  BY <1>1, <1>2
<1>7. CASE op = "lookup"
  <2>1. ExecuteSingle(p) = Succeeded(op, t, found, p.column)  BY <1>1, <1>2, <1>7
  <2>2. op \notin Aggregates \cup {"topN"}  BY <1>7 DEF Aggregates
  <2> QED  BY <1>5, <1>7, <2>1, <2>2 DEF t, op
<1>8. CASE op # "lookup"
  <2>1. ExecuteSingle(p) = Succeeded(op, t, S, p.column)  BY <1>1, <1>2, <1>8
  <2>2. op \in {"count", "filter"} \/ Numeric(t, S, p.column) # {}  BY <1>1, <1>2, <1>8
  <2> QED  BY <1>4, <1>5, <1>6, <2>1, <2>2 DEF t, op
<1> QED  BY <1>7, <1>8

Executed(p) == IF p.mode = "single" THEN ExecuteSingle(p) ELSE ExecuteDual(p)

\* What is answered is what executing the plan answers; the search is over by then.
TableInv ==
    /\ RowsInv
    /\ \/ tablePlan = NoPlan /\ result = NoResult
       \/ tablePlan \in Plans /\ Candidates # {} /\ result = Executed(tablePlan)

LEMMA InvMeansAggregates == TableInv => AggregatesAreOfTheTable
<1> DEFINE t == tablePlan.table
           op == tablePlan.operation
<1> SUFFICES ASSUME TableInv, tablePlan # NoPlan, tablePlan.mode = "single", result.status = "success"
             PROVE  /\ op \in Aggregates => result.value = Answer(op, t, AllRows(tablePlan), amount)
                    /\ op = "topN" =>
                         \A p \in AllRows(tablePlan) \ Range(result.rows), q \in Range(result.rows) :
                            Number(t, p, amount) <= Number(t, q, amount)
  BY DEF AggregatesAreOfTheTable
<1>1. RowsInv /\ tablePlan \in Plans /\ result = ExecuteSingle(tablePlan)  BY DEF TableInv, Executed
<1>2. t \in Tables /\ op \in Operations /\ (op # "lookup" => tablePlan.column = amount)
  BY <1>1, SinglePlanIs
<1>3. PICK S \in SUBSET Held(t) :
         /\ result = Succeeded(op, t, S, tablePlan.column)
         /\ op \in {"count", "filter", "lookup"} \/ Numeric(t, S, tablePlan.column) # {}
         /\ op \in Aggregates \cup {"topN"} => S = AllRows(tablePlan)
  BY <1>1, SingleIs
<1>4. S \in SUBSET Positions(t)  BY DEF Held
<1> HIDE DEF t, op
<1>5. ASSUME op \in Aggregates PROVE result.value = Answer(op, t, AllRows(tablePlan), amount)
  <2>1. op # "lookup"  BY <1>5 DEF Aggregates
  <2> QED  BY <1>2, <1>3, <1>5, <2>1 DEF Succeeded
<1>6. ASSUME op = "topN", NEW p \in AllRows(tablePlan) \ Range(result.rows), NEW q \in Range(result.rows)
      PROVE  Number(t, p, amount) <= Number(t, q, amount)
  <2> DEFINE shown == Prefix(Descending(t, S, amount), RowLimit)
  <2>1. result.rows = shown /\ p \in S \ Range(shown) /\ q \in Range(shown)
    BY <1>2, <1>3, <1>6 DEF Succeeded, Rows
  <2>2. amount \in Columns  BY DEF Columns
  <2>3. /\ shown \in Seq(S)
        /\ \A x \in Numeric(t, S, amount) \ Range(shown), y \in Range(shown) :
              Number(t, x, amount) <= Number(t, y, amount)
    BY <1>1, <1>2, <1>4, <2>2, TopIs
  <2> HIDE DEF shown
  <2>4. q \in S  BY <2>1, <2>3 DEF Range
  <2>5. Number(t, p, amount) \in Nat /\ Number(t, q, amount) \in Nat
    BY <1>1, <1>2, <1>4, <2>1, <2>2, <2>4, NumberIs
  <2>6. CASE p \in Numeric(t, S, amount)  BY <2>1, <2>3, <2>6
  <2>7. CASE p \notin Numeric(t, S, amount)
    <3>1. ~(Number(t, p, amount) > 0)  BY <2>1, <2>7 DEF Numeric, Number
    <3> QED  BY <2>5, <3>1
  <2> QED  BY <2>6, <2>7
<1> QED  BY <1>5, <1>6

LEMMA InvMeansLookups == TableInv => LookupsShowTheEntity
<1> SUFFICES ASSUME TableInv, tablePlan # NoPlan, tablePlan.mode = "single",
                    tablePlan.operation = "lookup"
             PROVE  LookupsShowTheEntity
  BY DEF LookupsShowTheEntity
<1>1. RowsInv /\ tablePlan \in Plans /\ result = ExecuteSingle(tablePlan)  BY DEF TableInv, Executed
<1>2. PICK words : tablePlan.words = words /\ tablePlan \in GroundedLookups(words)  BY <1>1, SinglePlanIs
<1>3. PICK t \in Candidates : \E m \in Grounds(t, words) :
         /\ GroundedTables(words) = {t}
         /\ tablePlan = [mode |-> "single", table |-> t, operation |-> "lookup", sums |-> FALSE,
                 where |-> {}, column |-> m.column, words |-> words,
                 values |-> {n.value : n \in {n \in Matches(t, words) : SameEntity(m, n)}}]
  BY <1>2, LookupIs
<1>4. PICK m \in Grounds(t, words) :
         /\ GroundedTables(words) = {t}
         /\ tablePlan.table = t /\ tablePlan.sums = FALSE /\ tablePlan.where = {}
         /\ tablePlan.column = m.column
         /\ tablePlan.values = {n.value : n \in {n \in Matches(t, words) : SameEntity(m, n)}}
  BY <1>3
<1> DEFINE base == NormalizedRows(t, Held(t), FALSE)
           values == tablePlan.values
           found == LookedUp(t, HeldData(t), m.column, values)
           named == {q \in HeldData(t) : Key[Cell(t, q, m.column)] = Key[m.value]}
<1>5. base = HeldData(t) /\ Filtered(t, base, {}) = base /\ ~PredicateUnclear(t, base, {})
  BY DEF HeldData, Filtered, PredicateUnclear
<1>6. brought[t] # {} /\ t \in Tables  BY DEF Candidates
<1>7. result = Succeeded("lookup", t, found, m.column)
  <2>1. "lookup" \notin Aggregates \cup {"topN"}  BY DEF Aggregates
  <2> QED  BY <1>1, <1>4, <1>5, <1>6, <2>1 DEF ExecuteSingle
<1>8. result.status = "success" /\ result.rows = InOrder(found)  BY <1>7 DEF Succeeded, Rows
<1>9. found \in SUBSET Positions(t) /\ found \subseteq HeldData(t)
  BY DEF LookedUp, HeldData, NormalizedRows, Held
<1>10. Range(result.rows) = found
  BY <1>6, <1>8, <1>9, PositionsAre, InOrderHas
<1>11. m \in Matches(t, words)  BY DEF Grounds
<1>12. /\ m.value \in values
       /\ \A v \in values : Key[v] = Key[m.value]
  BY <1>4, <1>11 DEF SameEntity
<1>13. EntityRows(tablePlan) = named  BY <1>4, <1>12 DEF EntityRows
<1> HIDE DEF values
<1>14. named # {}
  <2>1. PICK p \in HeldData(t) : Cell(t, p, m.column) = m.value  BY <1>11 DEF Matches
  <2> QED  BY <2>1
<1>15. ASSUME NEW p \in named  PROVE p \in found
  <2> DEFINE cell == Cell(t, p, m.column)
             n == [column |-> m.column, value |-> cell]
             w == [column |-> m.column, operator |-> "==", value |-> cell]
  <2>1. /\ m.column \in Columns /\ m.value \in DOMAIN Key /\ Key[m.value] \in words
    BY <1>11 DEF Matches
  <2>2. cell \in DOMAIN Key  BY <1>1, <1>6, <1>9, <2>1, CellHasKey DEF HeldData, NormalizedRows, Held
  <2>3. n \in Matches(t, words) /\ SameEntity(m, n)  BY <2>1, <2>2 DEF Matches, SameEntity
  <2>4. cell \in values  BY <1>4, <2>3 DEF values
  <2>5. Holds(t, p, w)  BY DEF Holds
  <2> QED  BY <2>4, <2>5 DEF LookedUp
<1>16. ASSUME NEW p \in named, NEW n \in Matches(t, words)
       PROVE  Key[Cell(t, p, n.column)] = Key[n.value]
  <2>1. CASE SameEntity(m, n)  BY <2>1 DEF SameEntity
  <2>2. CASE ~SameEntity(m, n)  BY <2>2 DEF Grounds
  <2> QED  BY <2>1, <2>2
<1>17. ASSUME NEW p \in found \ named
       PROVE  \E v \in values : Num[v] > 0 /\ Number(t, p, m.column) = Num[v]
  <2>1. PICK v \in values : Holds(t, p, [column |-> m.column, operator |-> "==", value |-> v])
    BY DEF LookedUp
  <2>2. Cell(t, p, m.column) # v  BY <1>9, <1>12, <1>17
  <2> QED  BY <2>1, <2>2 DEF Holds, Number
<1> HIDE DEF found, named
<1>18. /\ GroundedTables(tablePlan.words) = {tablePlan.table}
       /\ EntityRows(tablePlan) # {} /\ EntityRows(tablePlan) \subseteq Range(result.rows)
  BY <1>2, <1>4, <1>10, <1>13, <1>14, <1>15
<1>19. \A p \in EntityRows(tablePlan), n \in Matches(tablePlan.table, tablePlan.words) :
          Key[Cell(tablePlan.table, p, n.column)] = Key[n.value]
  BY <1>2, <1>4, <1>13, <1>16
<1>20. \A p \in Range(result.rows) \ EntityRows(tablePlan) : \E v \in tablePlan.values :
          Num[v] > 0 /\ Number(tablePlan.table, p, tablePlan.column) = Num[v]
  BY <1>4, <1>10, <1>13, <1>17 DEF values
<1> QED  BY <1>8, <1>18, <1>19, <1>20 DEF LookupsShowTheEntity

\* The joined pairs, each once, are those that a name joins.
LEMMA JoinedIs ==
    Joined \in Seq(Joinable(HeldData(t1), HeldData(t2))) /\ Range(Joined) = Joinable(HeldData(t1), HeldData(t2))
<1> DEFINE pairs == Joinable(HeldData(t1), HeldData(t2))
           R == {ab \in pairs \X pairs : \/ ab[1][1] < ab[2][1]
                                         \/ ab[1][1] = ab[2][1] /\ ab[1][2] < ab[2][2]}
<1>1. HeldData(t1) \in SUBSET Positions(t1) /\ HeldData(t2) \in SUBSET Positions(t2)
  BY DEF HeldData, NormalizedRows, Held
<1>2. /\ IsFiniteSet(HeldData(t1)) /\ HeldData(t1) \in SUBSET Nat
      /\ IsFiniteSet(HeldData(t2)) /\ HeldData(t2) \in SUBSET Nat
  BY <1>1, PositionsAre DEF Tables
<1>3. pairs \in SUBSET (HeldData(t1) \X HeldData(t2))  BY DEF Joinable
<1>4. IsFiniteSet(pairs)  BY <1>2, <1>3, FS_Product, FS_Subset
<1>5. Joined = OrderedBy(pairs, R)  BY DEF Joined
<1>6. pairs \in SUBSET (Nat \X Nat)  BY <1>2, <1>3
<1> HIDE DEF pairs
<1>7. \A a, b \in pairs : <<a, b>> \in R <=> a[1] < b[1] \/ (a[1] = b[1] /\ a[2] < b[2])  OBVIOUS
<1> HIDE DEF R
<1>8. \A a \in pairs : a = <<a[1], a[2]>> /\ a[1] \in Nat /\ a[2] \in Nat  BY <1>6
<1>9. StrictOrder(pairs, R)
  <2>1. \A a \in pairs : <<a, a>> \notin R  BY <1>7, <1>8
  <2>2. ASSUME NEW a \in pairs, NEW b \in pairs, NEW c \in pairs, <<a, b>> \in R, <<b, c>> \in R
        PROVE  <<a, c>> \in R
    BY <1>7, <1>8, <2>2
  <2>3. ASSUME NEW a \in pairs, NEW b \in pairs, a # b PROVE <<a, b>> \in R \/ <<b, a>> \in R
    <3>1. a[1] # b[1] \/ a[2] # b[2]  BY <1>8, <2>3
    <3>2. /\ <<a, b>> \in R <=> a[1] < b[1] \/ (a[1] = b[1] /\ a[2] < b[2])
          /\ <<b, a>> \in R <=> b[1] < a[1] \/ (b[1] = a[1] /\ b[2] < a[2])
      BY <1>7
    <3>3. a[1] \in Nat /\ a[2] \in Nat /\ b[1] \in Nat /\ b[2] \in Nat  BY <1>8
    <3> QED  BY <3>1, <3>2, <3>3
  <2> QED  BY <2>1, <2>2, <2>3 DEF StrictOrder
<1>10. /\ Cardinality(pairs) \in Nat
       /\ Joined \in [1 .. Cardinality(pairs) -> pairs]
       /\ \A x \in pairs : \E i \in 1 .. Cardinality(pairs) : Joined[i] = x
  BY <1>4, <1>5, <1>9, OrderedIs
<1>11. Joined \in Seq(pairs)  BY <1>10
<1>12. Range(Joined) = pairs  BY <1>10 DEF Range
<1> QED  BY <1>11, <1>12 DEF pairs

LEMMA InvMeansShown == TableInv => ShownRowsAreCited
<1> SUFFICES ASSUME TableInv, tablePlan # NoPlan, result.status = "success" PROVE ShownRowsAreCited
  BY DEF ShownRowsAreCited
<1>1. RowsInv /\ tablePlan \in Plans /\ result = Executed(tablePlan)  BY DEF TableInv
<1>2. RowLimit \in Nat /\ MaxEvidenceRows \in Nat /\ PreviewLimit \in Nat
      /\ 2 * PreviewLimit <= MaxEvidenceRows /\ PreviewLimit <= MaxEvidenceRows
  BY TableAssumption
<1>3. CASE tablePlan.mode = "single"
  <2> DEFINE t == tablePlan.table
             op == tablePlan.operation
             c == tablePlan.column
             s == result.rows
  <2>1. t \in Tables /\ op \in Operations /\ c \in Columns  BY <1>1, <1>3, SinglePlanIs
  <2>2. result = ExecuteSingle(tablePlan)  BY <1>1, <1>3 DEF Executed
  <2>3. PICK S \in SUBSET Held(t) :
           /\ result = Succeeded(op, t, S, c)
           /\ op \in {"count", "filter", "lookup"} \/ Numeric(t, S, c) # {}
    BY <1>1, <1>3, <2>2, SingleIs
  <2>4. S \in SUBSET Positions(t)  BY DEF Held
  <2>5. s = Rows(op, t, S, c) /\ result.evidence = EvidenceOf(t, s)  BY <2>3 DEF Succeeded
  <2> HIDE DEF t, op, c, s
  <2>6. s \in Seq(S)  BY <1>1, <2>1, <2>3, <2>4, <2>5, RowsAre
  <2>7. /\ Range(Prefix(s, MaxEvidenceRows)) \subseteq Range(s)
        /\ Range(Prefix(s, PreviewLimit)) \subseteq Range(Prefix(s, MaxEvidenceRows))
    BY <1>2, <2>6, PrefixHas
  <2>8. Range(s) \subseteq S  BY <2>6 DEF Range
  <2>9. \A e \in result.evidence : e[2] \in brought[e[1]]
    <3> SUFFICES ASSUME NEW p \in Range(Prefix(s, MaxEvidenceRows)) PROVE RecordOf(t, p) \in brought[t]
      BY <2>5 DEF EvidenceOf
    <3>1. p \in Held(t)  BY <2>7, <2>8
    <3> QED  BY <3>1 DEF Held
  <2>10. \A p \in Range(Prefix(s, PreviewLimit)) : <<t, RecordOf(t, p)>> \in result.evidence
    BY <2>5, <2>7 DEF EvidenceOf
  <2>11. tablePlan.mode # "dual"  BY <1>3
  <2> QED  BY <2>9, <2>10, <2>11 DEF ShownRowsAreCited, t, s
<1>4. CASE tablePlan.mode # "single"
  <2> DEFINE pairs == Joinable(HeldData(t1), HeldData(t2))
             chosen == Prefix(Joined, RowLimit)
             Whole == Joinable(NormalizedRows(t1, Positions(t1), FALSE), NormalizedRows(t2, Positions(t2), FALSE))
  <2>1. result = ExecuteDual(tablePlan)  BY <1>1, <1>4 DEF Executed
  <2>2. Joined \in Seq(pairs) /\ Range(Joined) = pairs  BY JoinedIs
  <2>3. Range(chosen) \subseteq pairs /\ (Len(Joined) <= RowLimit => Range(chosen) = pairs)
    BY <1>2, <2>2, PrefixHas
  <2>4. /\ \A reason : Refused(reason).status = "refuse"
        /\ \A reason : Unclear(reason).status = "clarify"
    BY DEF Refused, Unclear
  <2>5. /\ tablePlan.operation = "compare" => Covered(t1) /\ Covered(t2)
        /\ result.value = IF tablePlan.operation = "compare" THEN Comparable(Range(chosen)) ELSE {}
        /\ result.rows = chosen /\ result.evidence = PairEvidence(chosen)
    BY <2>1, <2>4 DEF ExecuteDual
  <2>6. Covered(t1) /\ Covered(t2) => pairs = Whole  BY DEF Covered, HeldData
  <2>7. pairs \in SUBSET (HeldData(t1) \X HeldData(t2))  BY DEF Joinable
  <2> HIDE DEF pairs, chosen, Whole
  <2>8. ASSUME tablePlan.operation = "compare", Len(Joined) <= RowLimit
        PROVE  result.value = Comparable(Whole)
    BY <2>3, <2>5, <2>6, <2>8
  <2>9. ASSUME NEW e \in result.evidence PROVE e[2] \in brought[e[1]]
    <3>1. PICK pq \in Range(chosen) : e = <<t1, RecordOf(t1, pq[1])>> \/ e = <<t2, RecordOf(t2, pq[2])>>
      BY <2>5 DEF PairEvidence, Range
    <3>2. pq[1] \in HeldData(t1) /\ pq[2] \in HeldData(t2)  BY <2>3, <2>7
    <3>3. RecordOf(t1, pq[1]) \in brought[t1] /\ RecordOf(t2, pq[2]) \in brought[t2]
      BY <3>2 DEF HeldData, NormalizedRows, Held
    <3> QED  BY <3>1, <3>3
  <2>10. ASSUME NEW pq \in Range(Prefix(chosen, PreviewLimit))
         PROVE  {<<t1, RecordOf(t1, pq[1])>>, <<t2, RecordOf(t2, pq[2])>>} \subseteq result.evidence
    <3>1. chosen \in Seq(pairs)  BY <1>2, <2>2, PrefixOf DEF chosen
    <3> DEFINE shown == Prefix(chosen, PreviewLimit)
    <3>2. /\ shown \in Seq(pairs)
          /\ Len(shown) = (IF PreviewLimit < Len(chosen) THEN PreviewLimit ELSE Len(chosen))
          /\ \A k \in 1 .. Len(shown) : shown[k] = chosen[k]
      BY <1>2, <3>1, PrefixOf
    <3> HIDE DEF shown
    <3>3. PICK i \in 1 .. Len(shown) : shown[i] = pq  BY <3>2 DEF Range, shown
    <3>4. i \in DOMAIN chosen /\ chosen[i] = pq /\ i <= PreviewLimit  BY <1>2, <3>1, <3>2, <3>3
    <3>5. 2 * i <= MaxEvidenceRows /\ 2 * i - 1 <= MaxEvidenceRows
      BY <1>2, <3>1, <3>4
    <3> QED  BY <2>5, <3>4, <3>5 DEF PairEvidence
  <2> QED  BY <1>4, <2>5, <2>8, <2>9, <2>10 DEF ShownRowsAreCited, Whole
<1> QED  BY <1>3, <1>4

\* A step that leaves the tables and the search alone leaves what a plan may be, and answers.
LEMMA DefinedOverSearch ==
    ASSUME rows' = rows, cuts' = cuts, brought' = brought
    PROVE  /\ Candidates' = Candidates /\ Plans' = Plans
           /\ \A p : Executed(p)' = Executed(p)
<1>1. Candidates' = Candidates  BY DEF Candidates
<1>2. \A t, p : RecordOf(t, p)' = RecordOf(t, p)  BY DEF RecordOf
<1>3. \A t, p, c : Cell(t, p, c)' = Cell(t, p, c)  BY DEF Cell
<1>4. \A t : Held(t)' = Held(t)  BY <1>2 DEF Held
<1>5. \A t, S, sums : NormalizedRows(t, S, sums)' = NormalizedRows(t, S, sums)  BY DEF NormalizedRows
<1>6. \A t : HeldData(t)' = HeldData(t)  BY <1>4, <1>5 DEF HeldData
<1>7. \A t, words : Matches(t, words)' = Matches(t, words)  BY <1>3, <1>6 DEF Matches
<1>8. \A t, words : Grounds(t, words)' = Grounds(t, words)  BY <1>3, <1>6, <1>7 DEF Grounds
<1>9. \A words : GroundedTables(words)' = GroundedTables(words)  BY <1>1, <1>8 DEF GroundedTables
<1>10. \A words : GroundedLookups(words)' = GroundedLookups(words)
  BY <1>7, <1>8, <1>9 DEF GroundedLookups
<1>11. SinglePlans' = SinglePlans  BY <1>3 DEF SinglePlans, Predicates
<1>12. Plans' = Plans  BY <1>10, <1>11 DEF Plans
<1>13. \A t, S, where : /\ Filtered(t, S, where)' = Filtered(t, S, where)
                        /\ PredicateUnclear(t, S, where)' = PredicateUnclear(t, S, where)
  BY <1>3 DEF Filtered, PredicateUnclear, Holds, Incomparable
<1>14. \A t, S, c : Numeric(t, S, c)' = Numeric(t, S, c)  BY <1>3 DEF Numeric
<1>15. \A t, p, c : Number(t, p, c)' = Number(t, p, c)  BY <1>3 DEF Number
<1>16. \A t, S, c : Least(t, S, c)' = Least(t, S, c) /\ Greatest(t, S, c)' = Greatest(t, S, c)
  BY <1>14, <1>15 DEF Least, Greatest
<1>17. \A t, S, c : Total(t, S, c)' = Total(t, S, c)  BY <1>14, <1>15 DEF Total
<1>18. \A t, S, c : Descending(t, S, c)' = Descending(t, S, c)  BY <1>14, <1>15 DEF Descending
<1>19. \A op, t, S, c : Answer(op, t, S, c)' = Answer(op, t, S, c)  BY <1>14, <1>15, <1>16, <1>17 DEF Answer
<1>20. \A op, t, S, c : Rows(op, t, S, c)' = Rows(op, t, S, c)  BY <1>14, <1>16, <1>18 DEF Rows
<1>21. \A t, s : EvidenceOf(t, s)' = EvidenceOf(t, s)  BY <1>2 DEF EvidenceOf
<1>22. \A op, t, S, c : Succeeded(op, t, S, c)' = Succeeded(op, t, S, c)
  BY <1>19, <1>20, <1>21 DEF Succeeded
<1>23. \A p : ExecuteSingle(p)' = ExecuteSingle(p)
  <2>1. \A t, S, c, values : LookedUp(t, S, c, values)' = LookedUp(t, S, c, values)
    BY <1>3 DEF LookedUp, Holds
  <2> QED  BY <1>3, <1>4, <1>5, <1>13, <1>14, <1>22, <2>1 DEF ExecuteSingle, Covered
<1>24. \A S, T : Joinable(S, T)' = Joinable(S, T)  BY <1>3 DEF Joinable
<1>25. Joined' = Joined  BY <1>6, <1>24 DEF Joined
<1>26. \A pairs : Comparable(pairs)' = Comparable(pairs)  BY <1>15 DEF Comparable
<1>27. \A p : ExecuteDual(p)' = ExecuteDual(p)
  <2>1. \A pairs : PairEvidence(pairs)' = PairEvidence(pairs)  BY <1>2 DEF PairEvidence
  <2> QED  BY <1>4, <1>25, <1>26, <2>1 DEF ExecuteDual, Covered
<1> QED  BY <1>1, <1>12, <1>23, <1>27 DEF Executed

LEMMA TableInvHolds == TableSpec => []TableInv
<1>1. TableInit => TableInv
  <2> SUFFICES ASSUME TableInit PROVE TableInv  OBVIOUS
  <2>1. ASSUME NEW t \in Tables, NEW p \in Positions(t) PROVE rows[t][p] \in RowKinds
    <3>1. /\ rows \in [Tables -> UNION {[Positions(u) -> RowKinds] : u \in Tables}]
          /\ DOMAIN rows[t] = Positions(t)
      BY DEF TableInit
    <3>2. PICK u \in Tables : rows[t] \in [Positions(u) -> RowKinds]  BY <3>1
    <3> QED  BY <3>1, <3>2
  <2> QED  BY <2>1 DEF TableInit, TableInv, RowsInv
<1>2. TableInv /\ [TableNext]_tableVars => TableInv'
  <2> SUFFICES ASSUME TableInv, [TableNext]_tableVars PROVE TableInv'  OBVIOUS
  <2>1. rows' = rows /\ cuts' = cuts  BY DEF TableNext, SearchTables, ExecutePlan, tableVars
  <2>2. RowsInv'  BY <2>1 DEF TableInv, RowsInv, Positions
  <2>3. CASE SearchTables
    <3>1. tablePlan = NoPlan /\ result = NoResult  BY <2>3 DEF SearchTables, TableInv
    <3> QED  BY <2>2, <2>3, <3>1 DEF SearchTables, TableInv, NoPlan, NoResult
  <2>4. CASE ExecutePlan
    <3>1. brought' = brought /\ Candidates # {}  BY <2>4 DEF ExecutePlan
    <3>2. PICK p \in Plans : tablePlan' = p /\ result' = Executed(p)  BY <2>4 DEF ExecutePlan, Executed
    <3>3. Candidates' = Candidates /\ Plans' = Plans /\ Executed(p)' = Executed(p)
      BY <2>1, <3>1, DefinedOverSearch
    <3>4. Executed(tablePlan)' = Executed(p)  BY <3>2, <3>3 DEF Executed
    <3> QED  BY <2>2, <3>1, <3>2, <3>3, <3>4 DEF TableInv
  <2>5. CASE UNCHANGED tableVars
    <3>1. brought' = brought /\ tablePlan' = tablePlan /\ result' = result  BY <2>5 DEF tableVars
    <3>2. /\ Candidates' = Candidates /\ Plans' = Plans
          /\ \A p : Executed(p)' = Executed(p)
      BY <2>1, <3>1, DefinedOverSearch
    <3>3. Executed(tablePlan)' = Executed(tablePlan)  BY <3>1, <3>2 DEF Executed
    <3> QED  BY <2>2, <3>1, <3>2, <3>3 DEF TableInv, NoPlan, NoResult
  <2> QED  BY <2>3, <2>4, <2>5 DEF TableNext
<1> QED  BY <1>1, <1>2, PTL DEF TableSpec

\* Whatever records the search has brought, an aggregate is answered of the whole table
\* or refused (assessTableCoverage).
THEOREM AggregatesHold == TableSpec => []AggregatesAreOfTheTable
BY TableInvHolds, InvMeansAggregates, PTL

\* A grounded lookup shows the rows with its entity, which hold all that the question names
\* of the one table it can be about; another row only if it reads as the same number
\* (deriveGroundedTableLookup, compareScalar).
THEOREM LookupsHold == TableSpec => []LookupsShowTheEntity
BY TableInvHolds, InvMeansLookups, PTL

\* What an answer shows is cited from records at hand, and a comparison that its limit does
\* not cut compares the whole of the two tables (buildTableEvidence, executeDual).
THEOREM ShownRowsHold == TableSpec => []ShownRowsAreCited
BY TableInvHolds, InvMeansShown, PTL

==============================================================================
