------------------------------ MODULE ListsProofs ------------------------------
(***************************************************************************)
(* What filtering and sorting a list answer, for lists of any length.  The *)
(* induction over the length goes by the least number for which a claim    *)
(* would fail.                                                             *)
(***************************************************************************)
EXTENDS Lists, FiniteSetTheorems, WellFoundedInduction, TLAPS

LEMMA LeastNumber ==
  ASSUME NEW T, T \subseteq Nat, T # {}
  PROVE  \E n \in T : \A m \in T : n <= m
<1> DEFINE R == {ss \in Nat \X Nat : ss[1] < ss[2]}
<1>1. IsWellFoundedOn(R, Nat)
  BY NatLessThanWellFounded DEF OpToRel
<1>2. \A m, n \in Nat : m < n => <<m, n>> \in R
  OBVIOUS
<1> HIDE DEF R
<1>3. PICK n \in T : \A m \in T : ~ (<<m, n>> \in R)
  BY <1>1, WFMin
<1>4. ASSUME NEW m \in T
      PROVE  n <= m
  <2>1. m \in Nat /\ n \in Nat /\ ~ (m < n)
    BY <1>2, <1>3
  <2> QED BY <2>1
<1> QED BY <1>3, <1>4

(* Induction over the numbers, for a set in place of a predicate.           *)
LEMMA EveryNumber ==
  ASSUME NEW S, 0 \in S, \A n \in Nat : n \in S => n + 1 \in S
  PROVE  Nat \subseteq S
<1> SUFFICES ASSUME NEW T, T = Nat \ S, T # {}
             PROVE  FALSE
  OBVIOUS
<1>1. PICK n \in T : \A m \in T : n <= m
  BY LeastNumber
<1>2. n \in Nat /\ n # 0
  BY <1>1
<1>3. n - 1 \in Nat /\ n - 1 \notin T
  BY <1>1, <1>2
<1>4. (n - 1) + 1 \in S
  BY <1>3
<1> QED BY <1>1, <1>2, <1>4

LEMMA GreatestBelow ==
  ASSUME NEW n \in Nat, NEW T, T \subseteq 0 .. n, T # {}
  PROVE  \E m \in T : \A k \in T : k <= m
<1> DEFINE U == {n - k : k \in T}
<1>1. U \subseteq Nat /\ U # {}
  <2>1. \A k \in T : k \in Nat /\ k <= n
    OBVIOUS
  <2>2. \A k \in T : n - k \in Nat
    BY <2>1
  <2> QED BY <2>2
<1>2. PICK u \in U : \A v \in U : u <= v
  <2> HIDE DEF U
  <2> QED BY <1>1, LeastNumber
<1>3. PICK m \in T : u = n - m
  BY <1>2
<1>4. ASSUME NEW k \in T
      PROVE  k <= m
  <2>1. n - k \in U
    OBVIOUS
  <2>2. n - m <= n - k
    BY <1>2, <1>3, <2>1
  <2>3. k \in Nat /\ m \in Nat
    OBVIOUS
  <2> QED BY <2>2, <2>3
<1> QED BY <1>4

-------------------------------------------------------------------------------
(* The recursion of FilteredUpTo defines a function: one item after another. *)
LEMMA FilteredUpToIs ==
  ASSUME NEW A, NEW s \in Seq(A), NEW S
  PROVE  /\ FilteredUpTo(s, S) \in [0 .. Len(s) -> Seq(A)]
         /\ FilteredUpTo(s, S)[0] = <<>>
         /\ \A n \in 1 .. Len(s) :
              FilteredUpTo(s, S)[n] = IF s[n] \in S THEN Append(FilteredUpTo(s, S)[n - 1], s[n])
                                     ELSE FilteredUpTo(s, S)[n - 1]
<1> DEFINE Step(g, n) == IF s[n] \in S THEN Append(g[n - 1], s[n]) ELSE g[n - 1]
           Def(g) == [n \in 0 .. Len(s) |-> IF n = 0 THEN <<>> ELSE Step(g, n)]
           Upto(g, m) == /\ g \in [0 .. m -> Seq(A)] /\ g[0] = <<>>
                         /\ \A n \in 1 .. m : g[n] = Step(g, n)
           Good == {m \in Nat : m <= Len(s) => \E g : Upto(g, m)}
<1>0. Len(s) \in Nat /\ \A n \in 1 .. Len(s) : s[n] \in A
  OBVIOUS
<1>1. 0 \in Good
  <2>1. Upto([n \in 0 .. 0 |-> <<>>], 0)
    OBVIOUS
  <2> QED BY <2>1
<1>2. ASSUME NEW m \in Nat, m \in Good
      PROVE  m + 1 \in Good
  <2>1. ASSUME m + 1 <= Len(s), NEW g, Upto(g, m)
        PROVE  \E h : Upto(h, m + 1)
    <3> DEFINE h == [n \in 0 .. m + 1 |-> IF n <= m THEN g[n] ELSE Step(g, m + 1)]
    <3>1. Step(g, m + 1) \in Seq(A)
      BY <1>0, <2>1
    <3>2. h \in [0 .. m + 1 -> Seq(A)] /\ h[0] = <<>>
      <4> HIDE DEF Step
      <4> QED BY <2>1, <3>1
    <3>3. ASSUME NEW n \in 1 .. m + 1
          PROVE  h[n] = Step(h, n)
      <4>1. h[n - 1] = g[n - 1]
        OBVIOUS
      <4>2. h[n] = Step(g, n)
        <5> HIDE DEF Step
        <5> QED BY <2>1
      <4> HIDE DEF h
      <4> QED BY <4>1, <4>2
    <3> HIDE DEF h, Step
    <3> QED BY <3>2, <3>3
  <2> HIDE DEF Upto
  <2>2. m + 1 <= Len(s) => \E g : Upto(g, m)
    BY <1>0, <1>2
  <2> QED BY <2>1, <2>2
<1>3. \E g : Upto(g, Len(s))
  <2> HIDE DEF Upto
  <2>1. Nat \subseteq Good
    <3> HIDE DEF Good
    <3> QED BY <1>1, <1>2, EveryNumber
  <2> QED BY <1>0, <2>1
<1>4. \E g : g = Def(g)
  <2>1. PICK g : Upto(g, Len(s))
    BY <1>3
  <2> HIDE DEF Step
  <2>2. \A n \in 0 .. Len(s) : g[n] = IF n = 0 THEN <<>> ELSE Step(g, n)
    BY <1>0, <2>1
  <2>3. g = [n \in 0 .. Len(s) |-> g[n]]
    BY <2>1
  <2>4. g = Def(g)
    BY <2>2, <2>3
  <2> HIDE DEF Def
  <2> QED BY <2>4
<1> DEFINE K == FilteredUpTo(s, S)
<1>5. K = CHOOSE g : g = Def(g)
  BY DEF FilteredUpTo
<1>6. K = Def(K)
  <2> HIDE DEF Def, K
  <2> QED BY <1>4, <1>5
<1> HIDE DEF K
<1>7. K[0] = <<>> /\ DOMAIN K = 0 .. Len(s) /\ \A n \in 1 .. Len(s) : K[n] = Step(K, n)
  <2> HIDE DEF Step
  <2> QED BY <1>0, <1>6
<1>8. \A n \in 0 .. Len(s) : K[n] \in Seq(A)
  <2> DEFINE Typed == {m \in Nat : m <= Len(s) => K[m] \in Seq(A)}
  <2>1. 0 \in Typed
    <3>1. K[0] = <<>> /\ <<>> \in Seq(A)
      BY <1>7
    <3> QED BY <3>1
  <2>2. ASSUME NEW m \in Nat, m \in Typed
        PROVE  m + 1 \in Typed
    <3>1. ASSUME m + 1 <= Len(s)
          PROVE  K[m + 1] \in Seq(A)
      <4>1. K[m] \in Seq(A) /\ m + 1 \in 1 .. Len(s) /\ s[m + 1] \in A
        BY <1>0, <2>2, <3>1
      <4>2. K[m + 1] = IF s[m + 1] \in S THEN Append(K[m], s[m + 1]) ELSE K[m]
        BY <1>7, <4>1
      <4> QED BY <4>1, <4>2
    <3> QED BY <3>1
  <2>3. Nat \subseteq Typed
    <3> HIDE DEF Typed
    <3> QED BY <2>1, <2>2, EveryNumber
  <2> QED BY <1>0, <2>3
<1>9. K \in [0 .. Len(s) -> Seq(A)]
  <2> HIDE DEF Step
  <2>1. K = [n \in 0 .. Len(s) |-> K[n]]
    BY <1>6
  <2> QED BY <1>8, <2>1
<1> QED BY <1>7, <1>9 DEF K

(* A filtered list holds exactly the items that pass, and no item twice     *)
(* when the list had none twice.                                            *)
LEMMA FilteredIs ==
  ASSUME NEW A, NEW s \in Seq(A), NEW S
  PROVE  /\ Filtered(s, S) \in Seq(A)
         /\ \A k \in DOMAIN Filtered(s, S) : Filtered(s, S)[k] \in S
                                         /\ \E i \in DOMAIN s : Filtered(s, S)[k] = s[i]
         /\ \A i \in DOMAIN s : s[i] \in S => \E k \in DOMAIN Filtered(s, S) : Filtered(s, S)[k] = s[i]
         /\ (\A i, j \in DOMAIN s : s[i] = s[j] => i = j)
              => \A i, j \in DOMAIN Filtered(s, S) : Filtered(s, S)[i] = Filtered(s, S)[j] => i = j
<1> DEFINE K == FilteredUpTo(s, S)
           From(n) == \A k \in DOMAIN K[n] : K[n][k] \in S /\ \E i \in 1 .. n : K[n][k] = s[i]
           All(n) == \A i \in 1 .. n : s[i] \in S => \E k \in DOMAIN K[n] : K[n][k] = s[i]
           Once(n) == \A i, j \in DOMAIN K[n] : K[n][i] = K[n][j] => i = j
           Distinct == \A i, j \in DOMAIN s : s[i] = s[j] => i = j
           Good == {n \in Nat : n <= Len(s) => From(n) /\ All(n) /\ (Distinct => Once(n))}
<1>1. /\ K \in [0 .. Len(s) -> Seq(A)] /\ K[0] = <<>>
      /\ \A n \in 1 .. Len(s) : K[n] = IF s[n] \in S THEN Append(K[n - 1], s[n]) ELSE K[n - 1]
  BY FilteredUpToIs
<1> HIDE DEF K
<1>2. Len(s) \in Nat /\ DOMAIN s = 1 .. Len(s)
  OBVIOUS
<1>3. 0 \in Good
  <2>1. From(0) /\ All(0) /\ Once(0)
    BY <1>1
  <2> QED BY <2>1
<1>4. ASSUME NEW n \in Nat, n \in Good
      PROVE  n + 1 \in Good
  <2>1. ASSUME n + 1 <= Len(s)
        PROVE  From(n + 1) /\ All(n + 1) /\ (Distinct => Once(n + 1))
    <3>1. From(n) /\ All(n) /\ (Distinct => Once(n))
      <4> HIDE DEF From, All, Once, Distinct
      <4> QED BY <1>2, <1>4, <2>1
    <3>2. n + 1 \in 1 .. Len(s) /\ n \in 0 .. Len(s) /\ K[n] \in Seq(A) /\ s[n + 1] \in A
      BY <1>1, <1>2, <2>1
    <3>3. CASE s[n + 1] \notin S
      <4>1. K[n + 1] = K[n]
        BY <1>1, <3>2, <3>3
      <4>2. \A i \in 1 .. n + 1 : i # n + 1 => i \in 1 .. n
        BY <3>2
      <4>3. From(n + 1)
        BY <3>1, <4>1
      <4>4. All(n + 1)
        BY <3>1, <3>3, <4>1, <4>2
      <4>5. Distinct => Once(n + 1)
        BY <3>1, <4>1
      <4> QED BY <4>3, <4>4, <4>5
    <3>4. CASE s[n + 1] \in S
      <4> DEFINE m == Len(K[n]) + 1
      <4>0. (n + 1) - 1 = n
        OBVIOUS
      <4>1. K[n + 1] = Append(K[n], s[n + 1])
        BY <1>1, <3>2, <3>4, <4>0
      <4>2. /\ Len(K[n]) \in Nat /\ DOMAIN K[n + 1] = 1 .. m /\ K[n + 1][m] = s[n + 1]
            /\ DOMAIN K[n] = 1 .. Len(K[n])
            /\ \A k \in 1 .. Len(K[n]) : K[n + 1][k] = K[n][k]
        BY <3>2, <4>1
      <4>3. \A k \in 1 .. m : k # m => k \in 1 .. Len(K[n])
        BY <4>2
      <4>4. \A i \in 1 .. n + 1 : i # n + 1 => i \in 1 .. n
        BY <3>2
      <4>5. m \in 1 .. m /\ (1 .. Len(K[n])) \subseteq 1 .. m /\ (1 .. n) \subseteq 1 .. n + 1
        BY <3>2, <4>2
      <4> HIDE DEF m
      <4>6. From(n + 1)
        BY <3>1, <3>2, <3>4, <4>2, <4>3, <4>5
      <4>7. All(n + 1)
        BY <3>1, <4>2, <4>4, <4>5
      <4>8. ASSUME Distinct
            PROVE  Once(n + 1)
        <5>1. ASSUME NEW k \in 1 .. Len(K[n])
              PROVE  K[n][k] # s[n + 1]
          <6>1. PICK i \in 1 .. n : K[n][k] = s[i]
            BY <3>1, <4>2
          <6>2. i \in DOMAIN s /\ n + 1 \in DOMAIN s /\ i # n + 1
            BY <1>2, <2>1, <3>2
          <6> QED BY <4>8, <6>1, <6>2
        <5> QED BY <3>1, <4>2, <4>3, <4>8, <5>1
      <4> QED BY <4>6, <4>7, <4>8
    <3> QED BY <3>3, <3>4
  <2> HIDE DEF From, All, Once, Distinct
  <2> QED BY <2>1
<1>5. Nat \subseteq Good
  <2> HIDE DEF Good
  <2> QED BY <1>3, <1>4, EveryNumber
<1>6. From(Len(s)) /\ All(Len(s)) /\ (Distinct => Once(Len(s)))
  <2> HIDE DEF From, All, Once, Distinct
  <2> QED BY <1>2, <1>5
<1>7. Filtered(s, S) = K[Len(s)] /\ K[Len(s)] \in Seq(A)
  BY <1>1, <1>2 DEF Filtered, K
<1> QED BY <1>2, <1>6, <1>7
-------------------------------------------------------------------------------
(* Induction over a finite set, one member after another.                   *)
LEMMA EveryFiniteSet ==
  ASSUME NEW S, IsFiniteSet(S), NEW G, {} \in G,
         \A T \in SUBSET S, x \in S : T \in G /\ x \notin T => T \cup {x} \in G
  PROVE  S \in G
<1> DEFINE Good == {n \in Nat : \A T \in SUBSET S : Cardinality(T) = n => T \in G}
<1>1. \A T \in SUBSET S : IsFiniteSet(T) /\ Cardinality(T) \in Nat
  BY FS_Subset, FS_CardinalityType
<1>2. 0 \in Good
  BY <1>1, FS_EmptySet
<1>3. ASSUME NEW n \in Nat, n \in Good
      PROVE  n + 1 \in Good
  <2>1. ASSUME NEW T \in SUBSET S, Cardinality(T) = n + 1
        PROVE  T \in G
    <3>0. IsFiniteSet(T)
      BY <1>1
    <3>1. T # {}
      BY <2>1, <3>0, FS_EmptySet
    <3>2. PICK x \in T : TRUE
      BY <3>1
    <3>3. Cardinality(T \ {x}) = (n + 1) - 1
      BY <2>1, <3>0, FS_RemoveElement
    <3>4. T \ {x} \in G
      BY <1>3, <3>3
    <3>5. (T \ {x}) \cup {x} \in G
      BY <3>4
    <3>6. (T \ {x}) \cup {x} = T
      BY <3>2
    <3> QED BY <3>5, <3>6
  <2> QED BY <2>1
<1>4. Nat \subseteq Good
  <2> HIDE DEF Good
  <2> QED BY <1>2, <1>3, EveryNumber
<1> QED BY <1>1, <1>4, FS_Subset

(* What a comparison has to be for a sort to have one result.               *)
Orders(before, S) ==
    /\ \A x \in S : <<x, x>> \notin before
    /\ \A x, y, z \in S : <<x, y>> \in before /\ <<y, z>> \in before => <<x, z>> \in before
    /\ \A x, y \in S : x # y => <<x, y>> \in before \/ <<y, x>> \in before

LEMMA LastOne ==
  ASSUME NEW S, IsFiniteSet(S), S # {}, NEW before, Orders(before, S)
  PROVE  \E x \in S : \A y \in S \ {x} : <<y, x>> \in before
<1> DEFINE Has(T) == \E x \in T : \A y \in T \ {x} : <<y, x>> \in before
           G == {T \in SUBSET S : T = {} \/ Has(T)}
<1>1. ASSUME NEW T \in SUBSET S, NEW x \in S, T \in G, x \notin T
      PROVE  T \cup {x} \in G
  <2>1. CASE T = {}
    BY <2>1
  <2>2. CASE Has(T)
    <3>1. PICK z \in T : \A y \in T \ {z} : <<y, z>> \in before
      BY <2>2
    <3>2. CASE <<x, z>> \in before
      <4>1. z \in T \cup {x} /\ \A y \in (T \cup {x}) \ {z} : <<y, z>> \in before
        BY <3>1, <3>2
      <4> QED BY <4>1
    <3>3. CASE <<z, x>> \in before
      <4>1. \A y \in T : <<y, x>> \in before
        BY <3>1, <3>3 DEF Orders
      <4>2. x \in T \cup {x} /\ \A y \in (T \cup {x}) \ {x} : <<y, x>> \in before
        BY <4>1
      <4> QED BY <4>2
    <3> QED BY <1>1, <3>1, <3>2, <3>3 DEF Orders
  <2> QED BY <1>1, <2>1, <2>2
<1>2. S \in G
  <2>1. {} \in G
    OBVIOUS
  <2> HIDE DEF G
  <2> QED BY <1>1, <2>1, EveryFiniteSet
<1> QED BY <1>2

(* A sorted list holds every member of the set, in order, and none twice.   *)
LEMMA ArrangedIs ==
  ASSUME NEW S, IsFiniteSet(S), NEW before, Orders(before, S)
  PROVE  /\ Arranged(S, before) \in Seq(S)
         /\ Len(Arranged(S, before)) = Cardinality(S)
         /\ \A x \in S : \E i \in DOMAIN Arranged(S, before) : Arranged(S, before)[i] = x
         /\ \A i, j \in DOMAIN Arranged(S, before) :
               Arranged(S, before)[i] = Arranged(S, before)[j] => i = j
         /\ \A i, j \in DOMAIN Arranged(S, before) :
               i < j => <<Arranged(S, before)[i], Arranged(S, before)[j]>> \in before
<1> DEFINE Sorts(t, T, n) == /\ t \in [1 .. n -> T]
                             /\ \A i, j \in 1 .. n : i < j => <<t[i], t[j]>> \in before
           Good == {n \in Nat : \A T \in SUBSET S : Cardinality(T) = n => \E t : Sorts(t, T, n)}
<1>1. \A T \in SUBSET S : IsFiniteSet(T) /\ Cardinality(T) \in Nat
  BY FS_Subset, FS_CardinalityType
<1>2. 0 \in Good
  <2>1. \A T \in SUBSET S : Sorts(<<>>, T, 0)
    OBVIOUS
  <2> QED BY <2>1
<1>3. ASSUME NEW n \in Nat, n \in Good
      PROVE  n + 1 \in Good
  <2>1. ASSUME NEW T \in SUBSET S, Cardinality(T) = n + 1
        PROVE  \E t : Sorts(t, T, n + 1)
    <3>1. T # {} /\ IsFiniteSet(T) /\ Orders(before, T)
      <4>1. T # {} /\ IsFiniteSet(T)
        BY <1>1, <2>1, FS_EmptySet
      <4>2. Orders(before, T)
        BY DEF Orders
      <4> QED BY <4>1, <4>2
    <3>2. PICK x \in T : \A y \in T \ {x} : <<y, x>> \in before
      BY <3>1, LastOne
    <3>3. Cardinality(T \ {x}) = (n + 1) - 1
      BY <2>1, <3>1, FS_RemoveElement
    <3>4. PICK u : Sorts(u, T \ {x}, n)
      <4> HIDE DEF Sorts
      <4>1. Cardinality(T \ {x}) = n /\ T \ {x} \in SUBSET S
        BY <3>3
      <4> QED BY <1>3, <4>1
    <3> DEFINE t == [i \in 1 .. n + 1 |-> IF i <= n THEN u[i] ELSE x]
    <3>5. t \in [1 .. n + 1 -> T]
      BY <3>4
    <3>6. ASSUME NEW i \in 1 .. n + 1, NEW j \in 1 .. n + 1, i < j
          PROVE  <<t[i], t[j]>> \in before
      <4>1. i \in 1 .. n /\ t[i] = u[i] /\ u[i] \in T \ {x}
        BY <3>4, <3>6
      <4>2. CASE j <= n
        BY <3>4, <3>6, <4>1, <4>2
      <4>3. CASE ~ (j <= n)
        BY <3>2, <4>1, <4>3
      <4> QED BY <4>2, <4>3
    <3> HIDE DEF t
    <3> QED BY <3>5, <3>6
  <2> HIDE DEF Sorts
  <2> QED BY <2>1
<1> DEFINE n == Cardinality(S)
           a == Arranged(S, before)
<1>4. n \in Nat
  BY <1>1
<1>5. \E t : Sorts(t, S, n)
  <2>1. Nat \subseteq Good
    <3> HIDE DEF Good
    <3> QED BY <1>2, <1>3, EveryNumber
  <2> HIDE DEF Sorts
  <2> QED BY <1>4, <2>1
<1>6. Sorts(a, S, n)
  BY <1>5 DEF Arranged
<1> HIDE DEF a, n
<1>7. /\ a \in Seq(S) /\ Len(a) = n /\ DOMAIN a = 1 .. n
      /\ \A i, j \in 1 .. n : i < j => <<a[i], a[j]>> \in before
  BY <1>4, <1>6
<1>8. ASSUME NEW i \in 1 .. n, NEW j \in 1 .. n, a[i] = a[j]
      PROVE  i = j
  <2>1. a[i] \in S /\ ~ (i < j) /\ ~ (j < i)
    BY <1>6, <1>8 DEF Orders
  <2> QED BY <1>4, <2>1
<1>9. ASSUME NEW x \in S, \A i \in 1 .. n : a[i] # x
      PROVE  FALSE
  <2>1. a \in [1 .. n -> S \ {x}]
    BY <1>6, <1>9
  <2>2. IsFiniteSet(S \ {x}) /\ Cardinality(S \ {x}) = n - 1
    BY FS_RemoveElement DEF n
  <2>3. IsFiniteSet(1 .. n) /\ Cardinality(1 .. n) = n
    <3>1. n # 0
      BY <1>9, FS_EmptySet DEF n
    <3> QED BY <1>4, <3>1, FS_Interval
  <2>4. \E i, j \in 1 .. n : i # j /\ a[i] = a[j]
    BY <1>4, <2>1, <2>2, <2>3, FS_PigeonHole
  <2> QED BY <1>8, <2>4
<1> QED BY <1>7, <1>8, <1>9 DEF a, n
================================================================================
