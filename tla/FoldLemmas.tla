----------------------------- MODULE FoldLemmas -----------------------------
(***************************************************************************)
(* What the proofs use about numbers and folds: the least element of a     *)
(* set, a first-order form of induction, and what FoldLeft computes.       *)
(***************************************************************************)
EXTENDS Selection, FiniteSetsExt, SequencesExt, FiniteSetTheorems, TLAPS

(***************************************************************************)
(* The least number of a set                                               *)
(***************************************************************************)

(* Those of S up to p.                                                     *)
upto_in(S, p) == { q \in S : q <= p }

(* The ranks of the elements of a finite set are distinct, so all are      *)
(* taken; that of the greatest has the whole set below it.                 *)
LEMMA Ranks ==
    ASSUME NEW S \in SUBSET Int, IsFiniteSet(S), S # {}
    PROVE  /\ \A k \in 1..Cardinality(S) : \E p \in S : Cardinality(upto_in(S, p)) = k
           /\ \A p \in S : Cardinality(upto_in(S, p)) = Cardinality(S) => upto_in(S, p) = S
<1>. DEFINE upto(p) == { q \in S : q <= p }
            n == Cardinality(S)
            rank == [ p \in S |-> Cardinality(upto(p)) ]
<1>1. n \in Nat /\ n # 0
    BY FS_CardinalityType, FS_EmptySet
<1>2. ASSUME NEW p \in S
      PROVE  /\ IsFiniteSet(upto(p)) /\ Cardinality(upto(p)) \in 1..n
             /\ Cardinality(upto(p)) = n => upto(p) = S
    <2>1. upto(p) \in SUBSET S /\ p \in upto(p)
        OBVIOUS
    <2>2. /\ IsFiniteSet(upto(p)) /\ Cardinality(upto(p)) <= n
          /\ Cardinality(upto(p)) \in Nat
          /\ n = Cardinality(upto(p)) => S = upto(p)
        BY <2>1, FS_Subset, FS_CardinalityType
    <2>3. Cardinality(upto(p)) # 0
        BY <2>1, <2>2, FS_EmptySet
    <2>. QED  BY <1>1, <2>2, <2>3
<1>3. ASSUME NEW p \in S, NEW q \in S, p < q
      PROVE  Cardinality(upto(p)) # Cardinality(upto(q))
    <2>1. q \in upto(q) /\ q \notin upto(p)
        BY <1>3
    <2>2. \A x \in S : x <= p => x <= q
        BY <1>3
    <2>3. upto(p) \in SUBSET upto(q)
        BY <2>2
    <2>4. IsFiniteSet(upto(q))
        BY <1>2
    <2>. HIDE DEF upto
    <2>. QED  BY <2>1, <2>3, <2>4, FS_Subset
<1>4. rank \in Injection(S, 1..n)
    <2>1. rank \in [S -> 1..n]
        BY <1>2
    <2>2. ASSUME NEW p \in S, NEW q \in S, rank[p] = rank[q]
          PROVE  p = q
        <3>1. ~(p < q) /\ ~(q < p)
            BY <1>3, <2>2
        <3>. QED  BY <3>1
    <2>. QED  BY <2>1, <2>2 DEF Injection, IsInjective
<1>5. IsFiniteSet(1..n) /\ Cardinality(1..n) = n
    BY <1>1, FS_Interval
<1>6. rank \in Surjection(S, 1..n)
    BY <1>4, <1>5, FS_Injection
<1>7. \A k \in 1..n : \E p \in S : Cardinality(upto(p)) = k
    BY <1>6 DEF Surjection
<1>. QED  BY <1>2, <1>7 DEF upto_in

(* A finite set of numbers that is not empty has a least element, and a    *)
(* greatest: that of rank 1, and that of the last.                         *)
LEMMA LeastAndGreatest ==
    ASSUME NEW S \in SUBSET Int, IsFiniteSet(S), S # {}
    PROVE  /\ \E x \in S : \A y \in S : x <= y
           /\ \E x \in S : \A y \in S : x >= y
<1>. DEFINE upto(p) == { q \in S : q <= p }
            n == Cardinality(S)
<1>1. n \in Nat /\ n # 0 /\ 1 \in 1..n /\ n \in 1..n
    BY FS_CardinalityType, FS_EmptySet
<1>2. /\ \A k \in 1..n : \E p \in S : Cardinality(upto(p)) = k
      /\ \A p \in S : Cardinality(upto(p)) = n => upto(p) = S
    <2>1. /\ \A k \in 1..n : \E p \in S : Cardinality(upto_in(S, p)) = k
          /\ \A p \in S : Cardinality(upto_in(S, p)) = n => upto_in(S, p) = S
        BY Ranks
    <2>. QED  BY <2>1 DEF upto_in
<1>3. PICK p \in S : Cardinality(upto(p)) = 1
    BY <1>1, <1>2
<1>4. ASSUME NEW y \in S PROVE p <= y
    <2>1. PICK x : upto(p) = {x}
        <3>1. upto(p) \in SUBSET S
            OBVIOUS
        <3>2. IsFiniteSet(upto(p))
            BY <3>1, FS_Subset
        <3>. QED  BY <1>3, <3>2, FS_Singleton
    <2>2. p \in upto(p) /\ (y <= p => y \in upto(p))
        OBVIOUS
    <2>. HIDE DEF upto
    <2>. QED  BY <2>1, <2>2
<1>5. PICK g \in S : Cardinality(upto(g)) = n
    BY <1>1, <1>2
<1>6. \A y \in S : g >= y
    BY <1>2, <1>5
<1>. QED  BY <1>4, <1>6

(* Min and Max are what they should be.                                    *)
LEMMA MinMaxType ==
    ASSUME NEW S \in SUBSET Int, IsFiniteSet(S), S # {}
    PROVE  /\ Min(S) \in S /\ \A y \in S : Min(S) <= y
           /\ Max(S) \in S /\ \A y \in S : y <= Max(S)
<1>1. /\ \E x \in S : \A y \in S : x <= y
      /\ \E x \in S : \A y \in S : x >= y
    BY LeastAndGreatest
<1>. QED  BY <1>1 DEF Min, Max

(***************************************************************************)
(* The elements at some places                                             *)
(***************************************************************************)

(* f lists the numbers of S in their order.                                *)
Ascends(f, m, S) ==
    /\ f \in [1..m -> S] /\ \A p \in S : \E i \in 1..m : f[i] = p
    /\ \A i, j \in 1..m : i < j => f[i] < f[j]

(* There is one way to list a set in order.                                *)
LEMMA RankedIs ==
    ASSUME NEW m \in Nat, NEW S \in SUBSET Int, NEW f, Ascends(f, m, S)
    PROVE  IsFiniteSet(S) /\ Cardinality(S) = m /\ ranked(S) = f
<1>0. /\ f \in [1..m -> S] /\ \A p \in S : \E i \in 1..m : f[i] = p
      /\ \A i, j \in 1..m : i < j => f[i] < f[j]
    BY DEF Ascends
<1>. USE <1>0
<1>2. \A i \in 1..m : f[i] \in S /\ f[i] \in Int
    OBVIOUS
<1>1. \A i, j \in 1..m : f[i] = f[j] => i = j
    <2>1. ASSUME NEW i \in 1..m, NEW j \in 1..m, f[i] = f[j]
          PROVE  i = j
        <3>1. f[i] \in Int /\ f[j] \in Int
            BY <1>2
        <3>2. ~(f[i] < f[j]) /\ ~(f[j] < f[i])
            BY <2>1, <3>1
        <3>3. ~(i < j) /\ ~(j < i)
            BY <3>2
        <3>. QED  BY <3>3
    <2>. QED  BY <2>1
<1>3. IsFiniteSet(S) /\ Cardinality(S) = m
    <2>1. f \in Surjection(1..m, S) /\ f \in Injection(1..m, S)
        BY <1>1 DEF Surjection, Injection, IsInjective
    <2>2. IsFiniteSet(1..m) /\ Cardinality(1..m) = m
        BY FS_Interval
    <2>. QED  BY <2>1, <2>2, FS_Surjection
<1>4. ASSUME NEW i \in 1..m
      PROVE  Cardinality({ q \in S : q <= f[i] }) = i
    <2>. DEFINE U == { q \in S : q <= f[i] }
                g == [ j \in 1..i |-> f[j] ]
    <2>1. \A j \in 1..i : j \in 1..m /\ g[j] = f[j]
        OBVIOUS
    <2>2. \A j \in 1..i : g[j] \in U
        <3>1. ASSUME NEW j \in 1..i
              PROVE  f[j] <= f[i]
            <4>1. j \in 1..m /\ (j < i \/ j = i)
                OBVIOUS
            <4>. QED  BY <1>2, <4>1
        <3>. QED  BY <1>2, <2>1, <3>1
    <2>3. \A q \in U : \E j \in 1..i : g[j] = q
        <3>1. ASSUME NEW q \in U
              PROVE  \E j \in 1..i : g[j] = q
            <4>1. PICK j \in 1..m : f[j] = q
                OBVIOUS
            <4>2. ~(i < j)
                BY <1>2, <4>1
            <4>3. j \in 1..i
                BY <4>2
            <4>. QED  BY <2>1, <4>1, <4>3
        <3>. QED  BY <3>1
    <2>4. \A j, k \in 1..i : g[j] = g[k] => j = k
        BY <1>1, <2>1
    <2>. HIDE DEF U
    <2>5. g \in Surjection(1..i, U) /\ g \in Injection(1..i, U)
        BY <2>2, <2>3, <2>4 DEF Surjection, Injection, IsInjective
    <2>6. IsFiniteSet(1..i) /\ Cardinality(1..i) = i
        BY FS_Interval
    <2>. HIDE DEF g
    <2>7. Cardinality(U) = i
        BY <2>5, <2>6, FS_Surjection
    <2>. QED  BY <2>7 DEF U
<1>5. ASSUME NEW i \in 1..m
      PROVE  (CHOOSE p \in S : Cardinality({ q \in S : q <= p }) = i) = f[i]
    <2>. DEFINE c == CHOOSE p \in S : Cardinality({ q \in S : q <= p }) = i
    <2>1. c \in S /\ Cardinality({ q \in S : q <= c }) = i
        BY <1>2, <1>4
    <2>. HIDE DEF c
    <2>2. PICK j \in 1..m : f[j] = c
        BY <2>1
    <2>3. j = i
        BY <1>4, <2>1, <2>2
    <2>4. c = f[i]
        BY <2>2, <2>3
    <2>. QED  BY <2>4 DEF c
<1>6. ranked(S) = [ i \in 1..m |-> f[i] ]
    BY <1>3, <1>5 DEF ranked
<1>7. f = [ i \in 1..m |-> f[i] ]
    OBVIOUS
<1>. QED  BY <1>3, <1>6, <1>7

(* A finite set can be listed.                                             *)
LEMMA RankedAscends ==
    ASSUME NEW S \in SUBSET Int, IsFiniteSet(S)
    PROVE  Cardinality(S) \in Nat /\ Ascends(ranked(S), Cardinality(S), S)
<1>. DEFINE m == Cardinality(S)
            r(p) == Cardinality({ q \in S : q <= p })
            f == ranked(S)
<1>1. m \in Nat /\ (S = {} <=> m = 0)
    BY FS_CardinalityType, FS_EmptySet
<1>2. ASSUME NEW i \in 1..m
      PROVE  f[i] \in S /\ r(f[i]) = i
    <2>1. S # {}
        BY <1>1
    <2>2. \E p \in S : Cardinality({ q \in S : q <= p }) = i
        BY <2>1, Ranks DEF upto_in
    <2>3. f[i] = CHOOSE p \in S : Cardinality({ q \in S : q <= p }) = i
        BY DEF ranked
    <2>. HIDE DEF f
    <2>. QED  BY <2>2, <2>3
<1>3. DOMAIN f = 1..m /\ f = [ i \in 1..m |-> f[i] ]
    <2>. DEFINE e(i) == CHOOSE p \in S : Cardinality({ q \in S : q <= p }) = i
    <2>1. f = [ i \in 1..m |-> e(i) ]
        BY DEF ranked
    <2>. HIDE DEF e, f, m
    <2>. QED  BY <2>1
<1>4. \A p \in S, q \in S : p <= q => r(p) <= r(q) /\ r(p) \in Nat /\ r(q) \in Nat
    <2>1. ASSUME NEW p \in S, NEW q \in S, p <= q
          PROVE  r(p) <= r(q) /\ r(p) \in Nat /\ r(q) \in Nat
        <3>. DEFINE P == { x \in S : x <= p }
                    Q == { x \in S : x <= q }
        <3>1. P \in SUBSET Q /\ Q \in SUBSET S
            <4>1. \A x \in S : x <= p => x <= q
                BY <2>1
            <4>. QED  BY <4>1
        <3>. HIDE DEF P, Q
        <3>2. IsFiniteSet(Q) /\ IsFiniteSet(P)
            BY <3>1, FS_Subset
        <3>3. Cardinality(P) <= Cardinality(Q) /\ Cardinality(P) \in Nat /\ Cardinality(Q) \in Nat
            BY <3>1, <3>2, FS_Subset, FS_CardinalityType
        <3>. QED  BY <3>3 DEF P, Q
    <2>. QED  BY <2>1
<1>. HIDE DEF r, f
<1>5. ASSUME NEW i \in 1..m, NEW j \in 1..m, i < j
      PROVE  f[i] < f[j]
    <2>1. f[i] \in S /\ f[j] \in S /\ r(f[i]) = i /\ r(f[j]) = j
        BY <1>2
    <2>2. f[i] \in Int /\ f[j] \in Int
        BY <2>1
    <2>3. CASE f[j] <= f[i]
        <3>1. r(f[j]) <= r(f[i])
            BY <1>4, <2>1, <2>3
        <3>2. j <= i
            BY <2>1, <3>1
        <3>. QED  BY <1>5, <3>2
    <2>. QED  BY <2>2, <2>3
<1>6. ASSUME NEW p \in S
      PROVE  \E i \in 1..m : f[i] = p
    <2>. DEFINE g == [ i \in 1..m |-> f[i] ]
    <2>1. \A i, j \in 1..m : g[i] = g[j] => i = j
        BY <1>2
    <2>2. g \in [1..m -> S]
        BY <1>2
    <2>3. g \in Injection(1..m, S)
        BY <2>1, <2>2 DEF Injection, IsInjective
    <2>4. IsFiniteSet(1..m) /\ Cardinality(1..m) = m
        BY <1>1, FS_Interval
    <2>. HIDE DEF g
    <2>5. g \in Surjection(1..m, S)
        BY <2>3, <2>4, FS_Injection
    <2>6. \E i \in 1..m : g[i] = p
        BY <2>5 DEF Surjection
    <2>. QED  BY <2>6 DEF g
<1>. QED  BY <1>1, <1>2, <1>3, <1>5, <1>6 DEF Ascends, f

(* One place more, behind the others.                                      *)
LEMMA RankedMore ==
    ASSUME NEW S \in SUBSET Int, IsFiniteSet(S), NEW n \in Int, \A p \in S : p < n
    PROVE  /\ IsFiniteSet(S \cup {n}) /\ Cardinality(S) \in Nat /\ Cardinality(S \cup {n}) = Cardinality(S) + 1
           /\ ranked(S \cup {n}) = [ i \in 1..Cardinality(S) + 1 |-> IF i <= Cardinality(S) THEN ranked(S)[i] ELSE n ]
<1>. DEFINE m == Cardinality(S)
            g == ranked(S)
            f == [ i \in 1..m + 1 |-> IF i <= m THEN g[i] ELSE n ]
            T == S \cup {n}
<1>1. m \in Nat /\ Ascends(g, m, S)
    BY RankedAscends
<1>2. /\ g \in [1..m -> S] /\ \A p \in S : \E i \in 1..m : g[i] = p
      /\ \A i, j \in 1..m : i < j => g[i] < g[j]
    BY <1>1 DEF Ascends
<1>. HIDE DEF m, g
<1>3. /\ \A i \in 1..m + 1 : i \in 1..m \/ i = m + 1
      /\ \A i \in 1..m : i \in 1..m + 1 /\ f[i] = g[i] /\ g[i] \in S
      /\ m + 1 \in 1..m + 1 /\ f[m + 1] = n
    BY <1>1, <1>2
<1>4. f \in [1..m + 1 -> T]
    BY <1>1, <1>2
<1>. HIDE DEF f
<1>5. \A i, j \in 1..m + 1 : i < j => f[i] < f[j]
    <2>1. ASSUME NEW i \in 1..m + 1, NEW j \in 1..m + 1, i < j
          PROVE  f[i] < f[j]
        <3>1. i \in 1..m
            BY <1>1, <2>1
        <3>. QED  BY <1>2, <1>3, <2>1, <3>1
    <2>. QED  BY <2>1
<1>6. Ascends(f, m + 1, T)
    BY <1>2, <1>3, <1>4, <1>5 DEF Ascends
<1>. HIDE DEF T
<1>7. T \in SUBSET Int
    BY DEF T
<1>8. IsFiniteSet(T) /\ Cardinality(T) = m + 1 /\ ranked(T) = f
    BY <1>1, <1>6, <1>7, RankedIs
<1>. QED  BY <1>1, <1>8 DEF T, m, f, g

(* t goes on as s does up to its n-th element, and S are places up to it.  *)
Longer(s, t, n, S) == n \in Nat /\ S \in SUBSET (1..n) /\ \A i \in 1..n : t[i] = s[i]

(* When an element is appended and chosen, it is the last that is chosen.  *)
LEMMA ChoosesMore ==
    ASSUME NEW s, NEW t, NEW n, NEW S, Longer(s, t, n, S)
    PROVE  /\ elements_at(t, S) = elements_at(s, S)
           /\ elements_at(t, S \cup {n + 1}) = Append(elements_at(s, S), t[n + 1])
<1>. DEFINE m == Cardinality(S)
<1>0. n \in Nat /\ S \in SUBSET (1..n) /\ \A i \in 1..n : t[i] = s[i]
    BY DEF Longer
<1>. USE <1>0
<1>1. IsFiniteSet(S) /\ S \in SUBSET Int /\ n + 1 \in Int /\ \A p \in S : p < n + 1
    <2>1. IsFiniteSet(1..n)
        BY FS_Interval
    <2>2. IsFiniteSet(S)
        BY <2>1, FS_Subset
    <2>. QED  BY <2>2
<1>2. m \in Nat /\ \A i \in 1..m : ranked(S)[i] \in S
    <2>1. m \in Nat /\ Ascends(ranked(S), m, S)
        BY <1>1, RankedAscends
    <2>. HIDE DEF m
    <2>. QED  BY <2>1 DEF Ascends
<1>3. \A i \in 1..m : t[ranked(S)[i]] = s[ranked(S)[i]]
    BY <1>2
<1>4. elements_at(t, S) = elements_at(s, S)
    BY <1>3 DEF elements_at
<1>. DEFINE T == S \cup {n + 1}
            a == elements_at(s, S)
<1>5. /\ Cardinality(T) = m + 1
      /\ ranked(T) = [ i \in 1..m + 1 |-> IF i <= m THEN ranked(S)[i] ELSE n + 1 ]
    BY <1>1, RankedMore
<1>6. a = [ i \in 1..m |-> s[ranked(S)[i]] ]
    BY DEF elements_at
<1>. HIDE DEF m, T, a
<1>7. \A i \in 1..m + 1 : t[ranked(T)[i]] = IF i <= m THEN a[i] ELSE t[n + 1]
    <2>1. \A i \in 1..m + 1 : i \in 1..m \/ (i = m + 1 /\ ~(i <= m))
        BY <1>2
    <2>. QED  BY <1>2, <1>3, <1>5, <1>6, <2>1
<1>8. elements_at(t, T) = [ i \in 1..m + 1 |-> IF i <= m THEN a[i] ELSE t[n + 1] ]
    BY <1>5, <1>7 DEF elements_at
<1>9. Append(a, t[n + 1]) = [ i \in 1..m + 1 |-> IF i <= m THEN a[i] ELSE t[n + 1] ]
    <2>1. a \in Seq({ a[i] : i \in 1..m }) /\ Len(a) = m
        BY <1>2, <1>6
    <2>2. \A i \in 1..m + 1 : i <= m <=> i # m + 1
        BY <1>2
    <2>. QED  BY <1>2, <1>6, <2>1, <2>2
<1>. QED  BY <1>4, <1>8, <1>9 DEF T, a

(***************************************************************************)
(* Induction and folds                                                     *)
(***************************************************************************)
(* A set of numbers up to n that has 0 and, with each, the next.           *)
LEMMA UpTo ==
    ASSUME NEW n \in Nat, NEW I \in SUBSET (0..n), 0 \in I,
           \A k \in 0..n - 1 : k \in I => k + 1 \in I
    PROVE  I = 0..n
<1>. DEFINE S == 0..n \ I
<1>1. SUFFICES ASSUME S # {} PROVE FALSE
    OBVIOUS
<1>2. IsFiniteSet(S) /\ S \in SUBSET Int
    <2>1. IsFiniteSet(0..n)
        BY FS_Interval
    <2>. QED  BY <2>1, FS_Subset
<1>3. PICK m \in S : \A y \in S : m <= y
    BY <1>1, <1>2, LeastAndGreatest
<1>4. m \in 0..n /\ m # 0 /\ m - 1 \in 0..n - 1
    OBVIOUS
<1>5. m - 1 \in I
    BY <1>3, <1>4
<1>6. (m - 1) + 1 = m
    BY <1>4
<1>. QED  BY <1>4, <1>5, <1>6

(* The greatest of the numbers 1..i is i.                                  *)
LEMMA MaxUpTo ==
    ASSUME NEW i \in Nat, i # 0
    PROVE  Max(1..i) = i /\ (1..i) \ {i} = 1..i - 1 /\ 1..i # {}
<1>1. IsFiniteSet(1..i) /\ 1..i \in SUBSET Int /\ 1..i # {}
    <2>1. 1 \in Int /\ i \in Int /\ 1 \in 1..i
        OBVIOUS
    <2>2. IsFiniteSet(1..i)
        BY <2>1, FS_Interval
    <2>. QED  BY <2>1, <2>2
<1>2. Max(1..i) \in 1..i /\ \A y \in 1..i : y <= Max(1..i)
    BY <1>1, MinMaxType
<1>3. i \in 1..i
    OBVIOUS
<1>. HIDE DEF Max
<1>. QED  BY <1>1, <1>2, <1>3

(* The greatest of some of the numbers 1..n is one of them.                *)
LEMMA MaxIn ==
    ASSUME NEW n \in Nat, NEW s \in SUBSET (1..n), s # {}
    PROVE  Max(s) \in s /\ Max(s) \in 1..n /\ \A y \in s : y <= Max(s)
<1>1. IsFiniteSet(1..n) /\ s \in SUBSET Int
    BY FS_Interval
<1>2. IsFiniteSet(s)
    BY <1>1, FS_Subset
<1>3. Max(s) \in s /\ \A y \in s : y <= Max(s)
    BY <1>1, <1>2, MinMaxType
<1>. QED  BY <1>3

(* iter takes the last place off each set of places, as FoldLeft does.     *)
TakesLast(iter, S, base, n, step) ==
    /\ iter \in [SUBSET (1..n) -> S]
    /\ \A s \in SUBSET (1..n) :
         iter[s] = IF s = {} THEN base ELSE step[Max(s)][iter[s \ {Max(s)}]]

(* h goes from the base up, step by step.                                  *)
GoesUp(h, S, base, n, step) ==
    /\ h \in [0..n -> S] /\ h[0] = base
    /\ \A i \in 1..n : h[i] = step[i][h[i - 1]]

(* There is a function that takes the last place off, whatever is done.    *)
LEMMA FoldRuns ==
    ASSUME NEW S, NEW base \in S, NEW n \in Nat, NEW step \in [1..n -> [S -> S]]
    PROVE  \E iter : TakesLast(iter, S, base, n, step)
<1>. DEFINE Runs(iter, m) ==
               /\ iter \in [SUBSET (1..m) -> S]
               /\ \A s \in SUBSET (1..m) :
                    iter[s] = IF s = {} THEN base ELSE step[Max(s)][iter[s \ {Max(s)}]]
            I == { m \in 0..n : \E iter : Runs(iter, m) }
<1>1. \A m \in Nat : \A s \in SUBSET (1..m) :
         s # {} => Max(s) \in s /\ \A y \in s : y <= Max(s)
    BY MaxIn
<1>2. 0 \in I
    <2>. DEFINE iter == [ s \in SUBSET (1..0) |-> base ]
    <2>1. Runs(iter, 0)
        OBVIOUS
    <2>. HIDE DEF iter, Runs
    <2>. QED  BY <2>1
<1>3. ASSUME NEW m \in 0..n - 1, m \in I
      PROVE  m + 1 \in I
    <2>1. PICK old : Runs(old, m)
        BY <1>3
    <2>. DEFINE new == [ s \in SUBSET (1..m + 1) |->
                            IF m + 1 \in s THEN step[m + 1][old[s \ {m + 1}]] ELSE old[s] ]
    <2>2. \A s \in SUBSET (1..m + 1) : s \ {m + 1} \in SUBSET (1..m) /\ (m + 1 \notin s => s \in SUBSET (1..m))
        <3>1. \A y \in 1..m + 1 : y = m + 1 \/ y \in 1..m
            OBVIOUS
        <3>. QED  BY <3>1
    <2>3. new \in [SUBSET (1..m + 1) -> S]
        <3>1. step[m + 1] \in [S -> S]
            OBVIOUS
        <3>. QED  BY <2>1, <2>2, <3>1
    <2>4. ASSUME NEW s \in SUBSET (1..m + 1)
          PROVE  new[s] = IF s = {} THEN base ELSE step[Max(s)][new[s \ {Max(s)}]]
        <3>1. CASE m + 1 \in s
            <4>1. m + 1 \in Nat /\ \A y \in s : y <= m + 1
                OBVIOUS
            <4>2. Max(s) \in s /\ \A y \in s : y <= Max(s)
                BY <1>1, <3>1, <4>1
            <4>3. Max(s) = m + 1
                <5>. HIDE DEF Max
                <5>1. Max(s) \in 1..m + 1 /\ Max(s) <= m + 1 /\ m + 1 <= Max(s)
                    BY <3>1, <4>1, <4>2
                <5>. QED  BY <5>1
            <4>4. s \ {m + 1} \in SUBSET (1..m + 1) /\ m + 1 \notin s \ {m + 1}
                OBVIOUS
            <4>5. new[s \ {m + 1}] = old[s \ {m + 1}]
                BY <4>4
            <4>. QED  BY <3>1, <4>3, <4>5
        <3>2. CASE m + 1 \notin s
            <4>1. s \in SUBSET (1..m) /\ new[s] = old[s]
                BY <2>2, <3>2
            <4>2. CASE s = {}
                BY <2>1, <4>1, <4>2
            <4>3. CASE s # {}
                <5>1. old[s] = step[Max(s)][old[s \ {Max(s)}]]
                    BY <2>1, <4>1, <4>3
                <5>2. s \ {Max(s)} \in SUBSET (1..m + 1) /\ m + 1 \notin s \ {Max(s)}
                    BY <3>2
                <5>3. new[s \ {Max(s)}] = old[s \ {Max(s)}]
                    BY <5>2
                <5>. QED  BY <4>1, <4>3, <5>1, <5>3
            <4>. QED  BY <4>2, <4>3
        <3>. QED  BY <3>1, <3>2
    <2>5. Runs(new, m + 1)
        BY <2>3, <2>4
    <2>. HIDE DEF new, Runs
    <2>. QED  BY <2>5
<1>4. I = 0..n
    <2>. HIDE DEF I
    <2>1. I \in SUBSET (0..n)
        BY DEF I
    <2>. QED  BY <1>2, <1>3, <2>1, UpTo
<1>5. n \in I
    <2>. HIDE DEF I
    <2>. QED  BY <1>4
<1>6. PICK iter : Runs(iter, n)
    BY <1>5
<1>7. TakesLast(iter, S, base, n, step)
    BY <1>6 DEF TakesLast
<1>. QED  BY <1>7

(* v is where one gets so.                                                 *)
IsReached(v, S, base, n, step) == \E h : GoesUp(h, S, base, n, step) /\ h[n] = v

(* From the value for the first places to the value for one place more.    *)
GoesOn(iter, S, base, n, step) ==
    /\ iter[{}] = base
    /\ \A i \in 1..n : iter[1..i - 1] \in S => iter[1..i] = step[i][iter[1..i - 1]]

(* What such a function gives for 1, 1..2, 1..3 and so on.                 *)
LEMMA FoldValues ==
    ASSUME NEW S, NEW base \in S, NEW n \in Nat, NEW step \in [1..n -> [S -> S]], NEW iter,
           GoesOn(iter, S, base, n, step)
    PROVE  IsReached(iter[1..n], S, base, n, step)
<1>. DEFINE h == [ i \in 0..n |-> iter[1..i] ]
            I == { i \in 0..n : h[i] \in S }
<1>1. h[0] = base
    <2>1. 1..0 = {}
        OBVIOUS
    <2>. QED  BY <2>1 DEF GoesOn
<1>2. ASSUME NEW i \in 1..n, h[i - 1] \in S
      PROVE  h[i] = step[i][h[i - 1]] /\ h[i] \in S
    <2>1. i - 1 \in 0..n /\ i \in 0..n
        OBVIOUS
    <2>. QED  BY <1>2, <2>1 DEF GoesOn
<1>3. I = 0..n
    <2>1. 0 \in I
        BY <1>1
    <2>2. ASSUME NEW k \in 0..n - 1, k \in I
          PROVE  k + 1 \in I
        <3>1. k + 1 \in 1..n /\ (k + 1) - 1 = k /\ k + 1 \in 0..n
            OBVIOUS
        <3>2. h[(k + 1) - 1] \in S
            BY <2>2, <3>1
        <3>. HIDE DEF h
        <3>3. h[k + 1] \in S
            BY <1>2, <3>1, <3>2
        <3>. QED  BY <3>1, <3>3
    <2>. HIDE DEF h
    <2>3. I \in SUBSET (0..n)
        OBVIOUS
    <2>. HIDE DEF I
    <2>. QED  BY <2>1, <2>2, <2>3, UpTo
<1>4. \A i \in 1..n : i - 1 \in 0..n
    OBVIOUS
<1>5. h \in [0..n -> S]
    BY <1>3
<1>6. h[n] = iter[1..n]
    OBVIOUS
<1>7. \A i \in 1..n : h[i] = step[i][h[i - 1]]
    <2>. HIDE DEF h
    <2>. QED  BY <1>2, <1>4, <1>5
<1>. HIDE DEF h
<1>8. GoesUp(h, S, base, n, step)
    BY <1>1, <1>5, <1>7 DEF GoesUp
<1>. QED  BY <1>6, <1>8 DEF IsReached

(* body[k] leads from the set T[k - 1] to the set T[k].                    *)
Stages(n, T, base, body) ==
    /\ n \in Nat /\ base \in T[0]
    /\ \A k \in 1..n : \A x \in T[k - 1] : body[k][x] \in T[k]

(* A recursive function whose value at k is in T[k].                       *)
LEMMA Recurs ==
    ASSUME NEW n, NEW T, NEW base, NEW body, Stages(n, T, base, body)
    PROVE  \E h : /\ h = [ k \in 0..n |-> h[k] ] /\ h[0] = base
                  /\ \A k \in 1..n : h[k] = body[k][h[k - 1]]
                  /\ \A k \in 0..n : h[k] \in T[k]
<1>0. /\ n \in Nat /\ base \in T[0]
      /\ \A k \in 1..n : \A x \in T[k - 1] : body[k][x] \in T[k]
    BY DEF Stages
<1>. USE <1>0
<1>. DEFINE Up(h, m) == /\ h[0] = base
                        /\ \A k \in 1..m : h[k] = body[k][h[k - 1]]
                        /\ \A k \in 0..m : h[k] \in T[k]
            I == { m \in 0..n : \E h : Up(h, m) }
<1>1. 0 \in I
    <2>. DEFINE h == [ k \in 0..0 |-> base ]
    <2>1. \A k \in 0..0 : k = 0
        OBVIOUS
    <2>2. ~\E k : k \in 1..0
        OBVIOUS
    <2>3. Up(h, 0)
        BY <2>1, <2>2
    <2>. HIDE DEF Up, h
    <2>. QED  BY <2>3
<1>2. ASSUME NEW m \in 0..n - 1, m \in I
      PROVE  m + 1 \in I
    <2>1. PICK g : Up(g, m)
        BY <1>2
    <2>. DEFINE h == [ k \in 0..m + 1 |-> IF k = m + 1 THEN body[m + 1][g[m]] ELSE g[k] ]
    <2>2. /\ m \in Nat /\ m + 1 \in 1..n /\ (m + 1) - 1 = m /\ m \in 0..m /\ 0 \in 0..m /\ m + 1 # 0
          /\ \A k \in 0..m : k \in 0..m + 1 /\ k # m + 1
          /\ \A k \in 1..m + 1 : (k = m + 1 \/ k \in 1..m) /\ k - 1 \in 0..m
          /\ \A k \in 0..m + 1 : k = m + 1 \/ k \in 0..m
        OBVIOUS
    <2>3. \A k \in 0..m : h[k] = g[k]
        BY <2>2
    <2>4. h[m + 1] = body[m + 1][g[m]]
        BY <2>2
    <2>. HIDE DEF h
    <2>5. \A k \in 1..m : k \in 0..m /\ k - 1 \in 0..m
        OBVIOUS
    <2>6. \A k \in 1..m + 1 : h[k] = body[k][h[k - 1]]
        BY <2>1, <2>2, <2>3, <2>4, <2>5
    <2>7. body[m + 1][g[m]] \in T[m + 1]
        BY <2>1, <2>2
    <2>8. \A k \in 0..m + 1 : h[k] \in T[k]
        BY <2>1, <2>2, <2>3, <2>4, <2>7
    <2>9. Up(h, m + 1)
        BY <2>1, <2>2, <2>3, <2>6, <2>8
    <2>. HIDE DEF Up
    <2>. QED  BY <2>2, <2>9
<1>3. I = 0..n
    <2>1. I \in SUBSET (0..n)
        OBVIOUS
    <2>. HIDE DEF I
    <2>. QED  BY <1>1, <1>2, <2>1, UpTo
<1>4. PICK g : Up(g, n)
    BY <1>3
<1>. DEFINE h == [ k \in 0..n |-> g[k] ]
<1>5. \A k \in 0..n : h[k] = g[k]
    OBVIOUS
<1>6. \A k \in 1..n : k \in 0..n /\ k - 1 \in 0..n
    OBVIOUS
<1>7. h = [ k \in 0..n |-> h[k] ]
    OBVIOUS
<1>. HIDE DEF h
<1>8. 0 \in 0..n
    OBVIOUS
<1>. QED  BY <1>4, <1>5, <1>6, <1>7, <1>8
=============================================================================
