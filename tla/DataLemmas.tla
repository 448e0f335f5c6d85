------------------------------ MODULE DataLemmas ------------------------------
(***************************************************************************)
(* Lemmas about data that the proofs of several components use.  Numbers:  *)
(* least and greatest ones, induction, multiples.  Recursion: that a       *)
(* recursive function exists, what iterating a function gives, and that    *)
(* the iteration stops at the closure of a finite set.  Sequences: what is *)
(* left when one element is removed or appended, by RemoveAt, RemoveFirst, *)
(* Contains and Append of the community modules, which describe the lists  *)
(* that the simulator keeps (SMATimer::L, IBMSNode::madProccessors).       *)
(***************************************************************************)
EXTENDS Integers, SequencesExt, SequenceTheorems, FiniteSetTheorems, TLAPS

\* Every set of natural numbers that is not empty has a least element.
LEMMA LeastNumber ==
  ASSUME NEW I \in SUBSET Nat, I # {}
  PROVE  \E x \in I : \A y \in I : x <= y
<1> DEFINE less == {p \in Nat \X Nat : p[1] < p[2]}
<1>1. less = OpToRel(<, Nat)
  BY DEF OpToRel
<1>2. \E x \in I : \A y \in I : <<y, x>> \notin less
  <2>1. IsWellFoundedOn(less, Nat)
    BY <1>1, NatLessThanWellFounded
  <2> HIDE DEF less
  <2> QED
    BY <2>1, WFMin
<1>3. PICK x \in I : \A y \in I : <<y, x>> \notin less
  BY <1>2
<1>4. ASSUME NEW y \in I
      PROVE  x <= y
  <2>1. <<y, x>> \in Nat \X Nat /\ <<y, x>>[1] = y /\ <<y, x>>[2] = x
    OBVIOUS
  <2>2. ~(y < x)
    BY <1>3, <2>1
  <2> QED
    BY <2>1, <2>2
<1> QED
  BY <1>4

\* Induction: a set that has 0, and with a number the next, has all numbers.
LEMMA SetInduction ==
  ASSUME NEW S, 0 \in S, \A n \in Nat : n \in S => n + 1 \in S
  PROVE  \A n \in Nat : n \in S
<1> SUFFICES ASSUME NEW m \in Nat, m \notin S
             PROVE  FALSE
  OBVIOUS
<1>1. PICK x \in Nat \ S : \A y \in Nat \ S : x <= y
  <2>1. Nat \ S \in SUBSET Nat /\ Nat \ S # {}
    OBVIOUS
  <2> QED
    BY <2>1, LeastNumber
<1>2. x # 0 /\ x - 1 \in Nat
  BY <1>1
<1>3. x - 1 \in S
  BY <1>1, <1>2
<1>4. (x - 1) + 1 = x
  OBVIOUS
<1> QED
  BY <1>1, <1>2, <1>3, <1>4

\* The same up to a bound.
LEMMA BoundedInduction ==
  ASSUME NEW N \in Nat, NEW S, 0 \in S, \A n \in 0 .. N - 1 : n \in S => n + 1 \in S
  PROVE  \A n \in 0 .. N : n \in S
<1> DEFINE T == {n \in Nat : n <= N => n \in S}
<1>1. 0 \in T
  OBVIOUS
<1>2. \A n \in Nat : n \in T => n + 1 \in T
  OBVIOUS
<1>3. \A n \in Nat : n \in T
  <2> HIDE DEF T
  <2> QED
    BY <1>1, <1>2, SetInduction
<1> QED
  BY <1>3

\* A chain of subsets of a set of N elements that stops where it stops once has stopped
\* after N steps.
LEMMA ChainStops ==
  ASSUME NEW U, IsFiniteSet(U), NEW N \in Nat, Cardinality(U) <= N,
         NEW L \in [0 .. N + 1 -> SUBSET U],
         \A k \in 0 .. N : L[k] \subseteq L[k + 1],
         \A k \in 0 .. N - 1 : L[k + 1] = L[k] => L[k + 2] = L[k + 1]
  PROVE  L[N + 1] = L[N]
<1> SUFFICES ASSUME L[N + 1] # L[N]
             PROVE  FALSE
  OBVIOUS
<1>1. ASSUME NEW k \in 0 .. N
      PROVE  L[k + 1] # L[k]
  <2> SUFFICES ASSUME L[k + 1] = L[k]
               PROVE  FALSE
    OBVIOUS
  <2> DEFINE S == {j \in Nat : k + j <= N => L[k + j + 1] = L[k + j]}
  <2>1. 0 \in S
    OBVIOUS
  <2>2. ASSUME NEW j \in Nat, j \in S
        PROVE  j + 1 \in S
    <3>1. CASE k + j + 1 <= N
      <4>1. k + j \in 0 .. N - 1 /\ k + j + 1 = k + (j + 1) /\ k + j + 2 = k + (j + 1) + 1
        BY <3>1
      <4>2. L[k + j + 1] = L[k + j]
        BY <2>2, <3>1
      <4> QED
        BY <4>1, <4>2
    <3>2. CASE ~(k + j + 1 <= N)
      BY <3>2
    <3> QED
      BY <3>1, <3>2
  <2>3. N - k \in Nat /\ k + (N - k) = N
    OBVIOUS
  <2>4. \A j \in Nat : j \in S
    <3> HIDE DEF S
    <3> QED
      BY <2>1, <2>2, SetInduction
  <2>5. k + (N - k) <= N => L[k + (N - k) + 1] = L[k + (N - k)]
    BY <2>3, <2>4
  <2>6. L[N + 1] = L[N]
    BY <2>3, <2>5
  <2> QED
    BY <2>6
<1>2. \A k \in 0 .. N + 1 : L[k] \in SUBSET U
  OBVIOUS
<1>3. \A k \in 0 .. N + 1 :
        IsFiniteSet(L[k]) /\ Cardinality(L[k]) \in Nat /\ Cardinality(L[k]) <= N
  <2> SUFFICES ASSUME NEW k \in 0 .. N + 1
               PROVE  IsFiniteSet(L[k]) /\ Cardinality(L[k]) \in Nat /\ Cardinality(L[k]) <= N
    OBVIOUS
  <2>1. IsFiniteSet(L[k]) /\ Cardinality(L[k]) <= Cardinality(U)
    BY <1>2, FS_Subset
  <2>2. Cardinality(L[k]) \in Nat /\ Cardinality(U) \in Nat
    BY <2>1, FS_CardinalityType
  <2> QED
    BY <2>1, <2>2
<1> DEFINE T == {k \in 0 .. N + 1 : Cardinality(L[k]) >= k}
<1>4. 0 \in T
  BY <1>3
<1>5. ASSUME NEW k \in 0 .. N, k \in T
      PROVE  k + 1 \in T
  <2>1. k + 1 \in 0 .. N + 1 /\ k \in 0 .. N + 1
    OBVIOUS
  <2>2. L[k] \in SUBSET L[k + 1]
    OBVIOUS
  <2>3. IsFiniteSet(L[k + 1]) /\ Cardinality(L[k + 1]) \in Nat /\ Cardinality(L[k]) \in Nat
    BY <1>3, <2>1
  <2>4. Cardinality(L[k]) <= Cardinality(L[k + 1]) /\ Cardinality(L[k]) # Cardinality(L[k + 1])
    BY <1>1, <2>2, <2>3, FS_Subset
  <2> QED
    BY <1>5, <2>1, <2>3, <2>4
<1>6. \A k \in 0 .. N + 1 : k \in T
  <2>1. N + 1 \in Nat /\ (N + 1) - 1 = N
    OBVIOUS
  <2> HIDE DEF T
  <2> QED
    BY <1>4, <1>5, <2>1, BoundedInduction
<1> QED
  BY <1>3, <1>6

\* A finite set of natural numbers has a bound.
LEMMA FiniteBounded ==
  ASSUME NEW S \in SUBSET Nat, IsFiniteSet(S)
  PROVE  \E b \in Nat : \A y \in S : y <= b
<1>1. PICK n \in Nat : ExistsBijection(1 .. n, S)
  BY FS_NatBijection
<1>2. PICK f \in [1 .. n -> S] : \A y \in S : \E k \in 1 .. n : f[k] = y
  BY <1>1 DEF ExistsBijection, Bijection, Surjection
<1> DEFINE T == {k \in 0 .. n : \E b \in Nat : \A j \in 1 .. k : f[j] <= b}
<1>3. 0 \in T
  OBVIOUS
<1>4. ASSUME NEW k \in 0 .. n - 1, k \in T
      PROVE  k + 1 \in T
  <2>1. PICK b \in Nat : \A j \in 1 .. k : f[j] <= b
    BY <1>4
  <2>2. k + 1 \in 1 .. n /\ f[k + 1] \in Nat
    <3>1. k + 1 \in 1 .. n
      OBVIOUS
    <3>2. f[k + 1] \in S
      BY <3>1
    <3> QED
      BY <3>1, <3>2
  <2>3. PICK c \in Nat : b <= c /\ f[k + 1] <= c
    <3>1. CASE b <= f[k + 1]
      BY <2>2, <3>1
    <3>2. CASE f[k + 1] <= b
      BY <2>2, <3>2
    <3> QED
      BY <2>2, <3>1, <3>2
  <2>4. \A j \in 1 .. k + 1 : f[j] <= c
    <3> SUFFICES ASSUME NEW j \in 1 .. k + 1
                 PROVE  f[j] <= c
      OBVIOUS
    <3>1. j = k + 1 \/ j \in 1 .. k
      OBVIOUS
    <3>2. f[j] \in Nat
      <4>1. f[j] \in S
        OBVIOUS
      <4> QED
        BY <4>1
    <3> QED
      BY <2>1, <2>3, <3>1, <3>2
  <2> QED
    BY <2>2, <2>4
<1>5. \A k \in 0 .. n : k \in T
  <2> HIDE DEF T
  <2> QED
    BY ONLY n \in Nat, <1>3, <1>4, BoundedInduction
<1>6. PICK b \in Nat : \A j \in 1 .. n : f[j] <= b
  <2>1. n \in T
    <3> HIDE DEF T
    <3> QED
      BY <1>5
  <2> QED
    BY <2>1
<1> QED
  BY <1>2, <1>6

\* Min and Max are in the set.
LEMMA MinFacts ==
  ASSUME NEW S \in SUBSET Nat, S # {}
  PROVE  Min(S) \in S /\ \A y \in S : Min(S) <= y
<1>1. \E x \in S : \A y \in S : x <= y
  BY LeastNumber
<1> QED
  BY <1>1 DEF Min

\* The greatest.
LEMMA MaxFacts ==
  ASSUME NEW S \in SUBSET Nat, S # {}, IsFiniteSet(S)
  PROVE  Max(S) \in S /\ \A y \in S : y <= Max(S)
<1> DEFINE bounds == {b \in Nat : \A y \in S : y <= b}
<1>1. bounds \in SUBSET Nat /\ bounds # {}
  BY FiniteBounded
<1>2. PICK b \in bounds : \A c \in bounds : b <= c
  <2> HIDE DEF bounds
  <2> QED
    BY <1>1, LeastNumber
<1>3. b \in S
  <2> SUFFICES ASSUME b \notin S
               PROVE  FALSE
    OBVIOUS
  <2>1. \A y \in S : y <= b /\ y # b /\ y \in Nat
    BY <1>2
  <2>2. b # 0
    <3>1. PICK y : y \in S
      OBVIOUS
    <3> QED
      BY <2>1, <3>1
  <2>3. b - 1 \in bounds
    BY <2>1, <2>2
  <2> QED
    BY <1>2, <2>3
<1>4. \E x \in S : \A y \in S : x >= y
  BY <1>2, <1>3
<1> QED
  BY <1>4 DEF Max

\* The values of a function on a finite set are finitely many.
LEMMA ImageFinite ==
  ASSUME NEW S, IsFiniteSet(S), NEW f
  PROVE  IsFiniteSet({f[x] : x \in S})
<1> PICK T : T = {f[x] : x \in S}
  OBVIOUS
<1> PICK g : g = [x \in S |-> f[x]]
  OBVIOUS
<1>1. g \in Surjection(S, T)
  BY DEF Surjection
<1>2. IsFiniteSet(T)
  BY <1>1, FS_Surjection
<1> QED
  BY <1>2

-----------------------------------------------------------------------------
(* Division *)

\* Quotient and rest.
LEMMA Division ==
  ASSUME NEW a \in Nat, NEW s \in Nat \ {0}, NEW q, NEW r, q = a \div s, r = a % s
  PROVE  q \in Nat /\ r \in Nat /\ r < s /\ a = q * s + r
  OBVIOUS

\* A multiple is a product.
LEMMA MultipleFacts ==
  ASSUME NEW a \in Nat, NEW s \in Nat \ {0}, a % s = 0
  PROVE  \E q \in Nat : a = q * s
<1>1. PICK q, r : q = a \div s /\ r = a % s
  OBVIOUS
<1>2. q \in Nat /\ a = q * s + r /\ r = 0
  BY <1>1, Division
<1> QED
  BY <1>2

\* A larger factor gives a multiple further on.
LEMMA LargerMultiple ==
  ASSUME NEW q \in Nat, NEW r \in Nat, NEW s \in Nat \ {0}, q > r
  PROVE  q * s >= r * s + s /\ q * s \in Nat /\ r * s \in Nat
<1>1. PICK d \in Nat : q = r + 1 + d
  <2>1. q - r - 1 \in Nat /\ q = r + 1 + (q - r - 1)
    OBVIOUS
  <2> QED
    BY <2>1
<1>2. q * s = r * s + s + d * s
  BY <1>1
<1>3. d * s >= 0
  OBVIOUS
<1> QED
  BY <1>2, <1>3

\* Between two multiples lie s numbers.
LEMMA OneMultiple ==
  ASSUME NEW a \in Nat, NEW b \in Nat, NEW s \in Nat \ {0}, a % s = 0, b % s = 0,
         b <= a, a < b + s
  PROVE  a = b
<1>1. PICK q \in Nat : a = q * s
  BY MultipleFacts
<1>2. PICK r \in Nat : b = r * s
  BY MultipleFacts
<1>3. q <= r /\ r <= q
  BY <1>1, <1>2, LargerMultiple
<1> QED
  BY <1>1, <1>2, <1>3

\* The next multiple is s further on.
LEMMA NextMultiple ==
  ASSUME NEW a \in Nat, NEW s \in Nat \ {0}, a % s = 0
  PROVE  (a + s) % s = 0
<1>1. PICK q \in Nat : a = q * s
  BY MultipleFacts
<1>2. PICK c \in Nat : c = a + s
  OBVIOUS
<1>3. PICK p, r : p = c \div s /\ r = c % s
  OBVIOUS
<1>4. p \in Nat /\ r \in Nat /\ r < s /\ c = p * s + r
  BY <1>3, Division
<1>5. PICK t \in Nat : t = q + 1
  OBVIOUS
<1>6. c = t * s /\ t * s \in Nat /\ p * s \in Nat
  BY <1>1, <1>2, <1>4, <1>5
<1>7. ~(p > t) /\ ~(t > p)
  BY <1>4, <1>6, LargerMultiple
<1>8. p = t
  BY <1>4, <1>7
<1>9. r = 0
  BY <1>4, <1>6, <1>8
<1> QED
  BY <1>2, <1>3, <1>9

\* The multiple at or below a number.
LEMMA MultipleBelow ==
  ASSUME NEW a \in Nat, NEW s \in Nat \ {0}, NEW b, b = (a \div s) * s
  PROVE  b \in Nat /\ b <= a /\ a < b + s /\ b % s = 0
<1>1. PICK q, r : q = a \div s /\ r = a % s
  OBVIOUS
<1>2. q \in Nat /\ r \in Nat /\ r < s /\ a = q * s + r /\ b = q * s
  BY <1>1, Division
<1>3. b \in Nat
  BY <1>2
<1>4. PICK p, t : p = b \div s /\ t = b % s
  OBVIOUS
<1>5. p \in Nat /\ t \in Nat /\ t < s /\ b = p * s + t
  <2> PICK c \in Nat : c = b
    BY <1>3
  <2>1. p = c \div s /\ t = c % s
    BY <1>4
  <2>2. p \in Nat /\ t \in Nat /\ t < s /\ c = p * s + t
    BY ONLY s \in Nat \ {0}, c \in Nat, <2>1, Division
  <2> QED
    BY <2>2
<1>6. ~(p > q) /\ ~(q > p)
  BY <1>2, <1>5, LargerMultiple
<1>7. p = q
  BY <1>2, <1>5, <1>6
<1>8. t = 0
  BY <1>2, <1>3, <1>5, <1>7
<1> QED
  BY <1>2, <1>3, <1>4, <1>8

\* What is a multiple when s is added is one before.
LEMMA PreviousMultiple ==
  ASSUME NEW a \in Nat, NEW s \in Nat \ {0}, (a + s) % s = 0
  PROVE  a % s = 0
<1>1. PICK b : b = (a \div s) * s
  OBVIOUS
<1>2. b \in Nat /\ b <= a /\ a < b + s /\ b % s = 0
  BY <1>1, MultipleBelow
<1>3. PICK c \in Nat, d \in Nat : c = a + s /\ d = b + s
  BY <1>2
<1>4. d % s = 0 /\ c % s = 0
  <2>1. (b + s) % s = 0
    BY ONLY <1>2, s \in Nat \ {0}, NextMultiple
  <2> QED
    BY <1>3, <2>1
<1>5. d <= c /\ c < d + s
  BY ONLY <1>2, <1>3, s \in Nat \ {0}
<1>6. c = d
  BY ONLY <1>4, <1>5, c \in Nat, d \in Nat, s \in Nat \ {0}, OneMultiple
<1>7. a = b
  BY ONLY <1>2, <1>3, <1>6, s \in Nat \ {0}
<1> QED
  BY <1>2, <1>7

-----------------------------------------------------------------------------
(* Recursion and closure *)

\* The function that begins with x and goes on from k - 1 to k as f says.
Unrolls(g, x, f, N, T) ==
  g \in [0 .. N -> T] /\ g[0] = x /\ \A k \in 1 .. N : g[k] = f[<<k, g[k - 1]>>]

\* A recursion on the natural numbers up to N defines a function, if every turn of it gives
\* a value of T for one.
LEMMA Recursion ==
  ASSUME NEW N \in Nat, NEW T, NEW x \in T, NEW f, f \in [(1 .. N) \X T -> T]
  PROVE  \E g : Unrolls(g, x, f, N, T)
<1> DEFINE Fits(n, g) == g[0] = x /\ \A k \in 1 .. n : g[k] = f[<<k, g[k - 1]>>]
           S == {n \in 0 .. N : \E g \in [0 .. n -> T] : Fits(n, g)}
<1>1. 0 \in S
  <2>1. PICK g \in [0 .. 0 -> T] : g = [k \in 0 .. 0 |-> x]
    OBVIOUS
  <2>2. g[0] = x /\ \A k \in 1 .. 0 : g[k] = f[<<k, g[k - 1]>>]
    BY <2>1
  <2>3. Fits(0, g)
    BY <2>2
  <2> QED
    BY <2>3
<1>2. ASSUME NEW n \in 0 .. N - 1, n \in S
      PROVE  n + 1 \in S
  <2>1. PICK e \in [0 .. n -> T] : Fits(n, e)
    BY <1>2
  <2>2. n + 1 \in 1 .. N /\ n \in 0 .. n /\ (n + 1) - 1 = n
    OBVIOUS
  <2>3. PICK y \in T : y = f[<<n + 1, e[n]>>]
    BY <2>2
  <2>4. PICK g : g = [k \in 0 .. n + 1 |-> IF k = n + 1 THEN y ELSE e[k]]
    OBVIOUS
  <2>5. g \in [0 .. n + 1 -> T]
    BY <2>4
  <2>6. ASSUME NEW k \in 1 .. n + 1
        PROVE  g[k] = f[<<k, g[k - 1]>>]
    <3>1. CASE k = n + 1
      <4>1. g[k] = y /\ g[k - 1] = e[n]
        BY <2>4, <3>1
      <4> QED
        BY <2>3, <3>1, <4>1
    <3>2. CASE k # n + 1
      <4>1. k \in 1 .. n /\ g[k] = e[k] /\ g[k - 1] = e[k - 1]
        BY <2>4, <3>2
      <4> QED
        BY <2>1, <4>1
    <3> QED
      BY <3>1, <3>2
  <2>7. g[0] = x
    BY <2>1, <2>4
  <2> QED
    BY <2>2, <2>5, <2>6, <2>7
<1>3. \A n \in 0 .. N : n \in S
  <2> HIDE DEF S
  <2> QED
    BY <1>1, <1>2, BoundedInduction
<1>4. N \in S
  <2> HIDE DEF S
  <2> QED
    BY <1>3
<1> QED
  BY <1>4 DEF Unrolls

\* The function that the recursion "x at 0, then what f makes of the value before" defines.
Iterated(x, f, N) == CHOOSE g : g = [k \in 0 .. N |-> IF k = 0 THEN x ELSE f[g[k - 1]]]

\* There is such a function, and it is as the recursion says.
LEMMA Iteration ==
  ASSUME NEW x, NEW f, NEW N \in Nat, NEW g, g = Iterated(x, f, N)
  PROVE  /\ g = [k \in 0 .. N |-> g[k]] /\ g[0] = x
         /\ \A k \in 0 .. N - 1 : g[k + 1] = f[g[k]]
<1> DEFINE Fits(n, h) == h = [k \in 0 .. n |-> IF k = 0 THEN x ELSE f[h[k - 1]]]
           S == {n \in Nat : \E h : Fits(n, h)}
<1>1. 0 \in S
  <2>1. PICK h : h = [k \in 0 .. 0 |-> x]
    OBVIOUS
  <2>2. Fits(0, h)
    BY <2>1
  <2> QED
    BY <2>2
<1>2. ASSUME NEW n \in Nat, n \in S
      PROVE  n + 1 \in S
  <2>1. PICK e : Fits(n, e)
    BY <1>2
  <2>2. PICK h : h = [k \in 0 .. n + 1 |-> IF k = n + 1 THEN f[e[n]] ELSE e[k]]
    OBVIOUS
  <2>3. \A k \in 0 .. n : e[k] = IF k = 0 THEN x ELSE f[e[k - 1]]
    BY <2>1
  <2>4. ASSUME NEW k \in 0 .. n + 1
        PROVE  h[k] = IF k = 0 THEN x ELSE f[h[k - 1]]
    <3>1. CASE k = n + 1
      <4>1. n # n + 1 /\ n \in 0 .. n + 1 /\ k - 1 = n /\ k # 0
        BY <3>1
      <4>2. h[n] = e[n]
        BY <2>2, <4>1
      <4> QED
        BY <2>2, <3>1, <4>1, <4>2
    <3>2. CASE k # n + 1
      <4>1. k \in 0 .. n /\ h[k] = e[k]
        BY <2>2, <3>2
      <4>2. k # 0 => k - 1 \in 0 .. n /\ h[k - 1] = e[k - 1]
        BY <2>2, <4>1
      <4> QED
        BY <2>3, <4>1, <4>2
    <3> QED
      BY <3>1, <3>2
  <2>5. Fits(n + 1, h)
    BY <2>2, <2>4
  <2> QED
    BY <2>5
<1>3. \A n \in Nat : n \in S
  <2> HIDE DEF S
  <2> QED
    BY <1>1, <1>2, SetInduction
<1>4. \E h : Fits(N, h)
  BY <1>3
<1>5. Fits(N, g)
  BY <1>4, Zenon DEF Iterated
<1>6. g = [k \in 0 .. N |-> IF k = 0 THEN x ELSE f[g[k - 1]]]
  BY <1>5
<1>7. g = [k \in 0 .. N |-> g[k]] /\ g[0] = x
  BY <1>6
<1>8. ASSUME NEW k \in 0 .. N - 1
      PROVE  g[k + 1] = f[g[k]]
  <2>1. k + 1 \in 0 .. N /\ k + 1 # 0 /\ (k + 1) - 1 = k
    OBVIOUS
  <2> QED
    BY <1>6, <2>1
<1> QED
  BY <1>7, <1>8

\* Longer recursions begin as shorter ones.
LEMMA IterationExtends ==
  ASSUME NEW x, NEW f, NEW N \in Nat, NEW M \in Nat, NEW n \in 0 .. N, n <= M
  PROVE  Iterated(x, f, N)[n] = Iterated(x, f, M)[n]
<1> PICK g, h : g = Iterated(x, f, N) /\ h = Iterated(x, f, M)
  OBVIOUS
<1>1. g[0] = x /\ \A k \in 0 .. N - 1 : g[k + 1] = f[g[k]]
  BY Iteration
<1>2. h[0] = x /\ \A k \in 0 .. M - 1 : h[k + 1] = f[h[k]]
  BY Iteration
<1> DEFINE S == {k \in 0 .. n : g[k] = h[k]}
<1>3. 0 \in S
  BY <1>1, <1>2
<1>4. ASSUME NEW k \in 0 .. n - 1, k \in S
      PROVE  k + 1 \in S
  <2>1. k \in 0 .. N - 1 /\ k \in 0 .. M - 1 /\ k + 1 \in 0 .. n
    OBVIOUS
  <2>2. g[k + 1] = f[g[k]] /\ h[k + 1] = f[h[k]]
    BY <1>1, <1>2, <2>1
  <2> QED
    BY <1>4, <2>1, <2>2
<1>5. \A k \in 0 .. n : k \in S
  <2>1. n \in Nat
    OBVIOUS
  <2> HIDE DEF S
  <2> QED
    BY <1>3, <1>4, <2>1, BoundedInduction
<1> QED
  BY <1>5

\* The first turn can be taken beforehand.
LEMMA IterationShift ==
  ASSUME NEW x, NEW f, NEW N \in Nat, NEW M \in Nat, M = N + 1, NEW y, y = f[x]
  PROVE  Iterated(x, f, M)[M] = Iterated(y, f, N)[N]
<1> PICK g, h : g = Iterated(x, f, M) /\ h = Iterated(y, f, N)
  OBVIOUS
<1>1. g[0] = x /\ \A k \in 0 .. M - 1 : g[k + 1] = f[g[k]]
  BY Iteration
<1>2. h[0] = y /\ \A k \in 0 .. N - 1 : h[k + 1] = f[h[k]]
  BY Iteration
<1> DEFINE S == {k \in 0 .. N : g[k + 1] = h[k]}
<1>3. 0 \in S
  <2>1. g[0 + 1] = f[g[0]]
    BY <1>1
  <2> QED
    BY <1>1, <1>2, <2>1
<1>4. ASSUME NEW k \in 0 .. N - 1, k \in S
      PROVE  k + 1 \in S
  <2>1. g[(k + 1) + 1] = f[g[k + 1]] /\ h[k + 1] = f[h[k]]
    BY <1>1, <1>2
  <2> QED
    BY <1>4, <2>1
<1>5. \A k \in 0 .. N : k \in S
  <2> HIDE DEF S
  <2> QED
    BY <1>3, <1>4, BoundedInduction
<1>6. g[N + 1] = h[N]
  BY <1>5
<1> QED
  BY <1>6

\* A function that makes subsets of U larger, if it changes them.
Grows(f, U) == f \in [SUBSET U -> SUBSET U] /\ \A s \in SUBSET U : s \subseteq f[s]

\* The least subset of U that has x in it and that f does not change.
IsClosure(c, x, f, U) ==
  /\ c \in SUBSET U /\ x \subseteq c /\ f[c] = c
  /\ \A T \in SUBSET U : x \subseteq T /\ (\A s \in SUBSET T : f[s] \subseteq T) => c \subseteq T

\* Where U has at most N elements, the closure is what f has made of x after N times.
LEMMA Closing ==
  ASSUME NEW U, IsFiniteSet(U), NEW N \in Nat, Cardinality(U) <= N,
         NEW x, x \subseteq U, NEW f, Grows(f, U), NEW c, c = Iterated(x, f, N)[N]
  PROVE  IsClosure(c, x, f, U)
<1>0. x \in SUBSET U /\ f \in [SUBSET U -> SUBSET U] /\ \A s \in SUBSET U : s \subseteq f[s]
  BY DEF Grows
<1> PICK L : L = Iterated(x, f, N + 1)
  OBVIOUS
<1>1. /\ L = [k \in 0 .. N + 1 |-> L[k]] /\ L[0] = x
      /\ \A k \in 0 .. N : L[k + 1] = f[L[k]]
  <2>1. PICK M \in Nat : M = N + 1
    OBVIOUS
  <2>2. L = Iterated(x, f, M) /\ M - 1 = N
    BY <2>1
  <2>3. L = [k \in 0 .. M |-> L[k]] /\ L[0] = x /\ \A k \in 0 .. M - 1 : L[k + 1] = f[L[k]]
    BY ONLY M \in Nat, <2>2, Iteration
  <2> QED
    BY <2>1, <2>2, <2>3
<1>2. c = L[N]
  <2>1. PICK M \in Nat : M = N + 1
    OBVIOUS
  <2>2. N \in 0 .. N /\ N <= M /\ L = Iterated(x, f, M)
    BY <2>1
  <2>3. Iterated(x, f, N)[N] = Iterated(x, f, M)[N]
    BY ONLY N \in Nat, M \in Nat, <2>2, IterationExtends
  <2> QED
    BY <2>2, <2>3
<1>3. ASSUME NEW T \in SUBSET U, x \subseteq T, \A s \in SUBSET T : f[s] \subseteq T
      PROVE  \A k \in 0 .. N + 1 : L[k] \in SUBSET T
  <2> DEFINE S == {k \in 0 .. N + 1 : L[k] \in SUBSET T}
  <2>1. 0 \in S
    BY <1>0, <1>1, <1>3
  <2>2. ASSUME NEW k \in 0 .. N, k \in S
        PROVE  k + 1 \in S
    BY <1>0, <1>1, <1>3, <2>2
  <2>3. \A k \in 0 .. N + 1 : k \in S
    <3>1. N + 1 \in Nat /\ (N + 1) - 1 = N
      OBVIOUS
    <3> HIDE DEF S
    <3> QED
      BY <2>1, <2>2, <3>1, BoundedInduction
  <2> QED
    BY <2>3
<1>4. \A k \in 0 .. N + 1 : L[k] \in SUBSET U
  <2>1. U \in SUBSET U /\ x \subseteq U /\ \A s \in SUBSET U : f[s] \subseteq U
    BY <1>0
  <2> QED
    BY <1>3, <2>1
<1>5. L \in [0 .. N + 1 -> SUBSET U]
  BY <1>1, <1>4
<1>6. \A k \in 0 .. N : L[k] \subseteq L[k + 1]
  BY <1>0, <1>1, <1>4
<1>7. \A k \in 0 .. N - 1 : L[k + 1] = L[k] => L[k + 2] = L[k + 1]
  <2> SUFFICES ASSUME NEW k \in 0 .. N - 1, L[k + 1] = L[k]
               PROVE  L[k + 2] = L[k + 1]
    OBVIOUS
  <2>1. k \in 0 .. N /\ k + 1 \in 0 .. N /\ (k + 1) + 1 = k + 2
    OBVIOUS
  <2>2. L[k + 1] = f[L[k]] /\ L[(k + 1) + 1] = f[L[k + 1]]
    BY <1>1, <2>1
  <2> QED
    BY <2>1, <2>2
<1>8. L[N + 1] = L[N]
  BY <1>5, <1>6, <1>7, ChainStops
<1>9. f[L[N]] = L[N]
  BY <1>1, <1>8
<1>10. x \subseteq L[N]
  <2> DEFINE S == {k \in 0 .. N : x \subseteq L[k]}
  <2>1. 0 \in S
    BY <1>1
  <2>2. ASSUME NEW k \in 0 .. N - 1, k \in S
        PROVE  k + 1 \in S
    BY <1>6, <2>2
  <2>3. \A k \in 0 .. N : k \in S
    <3> HIDE DEF S
    <3> QED
      BY <2>1, <2>2, BoundedInduction
  <2> QED
    BY <2>3
<1>11. N \in 0 .. N + 1
  OBVIOUS
<1>12. c \in SUBSET U /\ x \subseteq c /\ f[c] = c
  BY <1>2, <1>4, <1>9, <1>10, <1>11
<1>13. \A T \in SUBSET U : x \subseteq T /\ (\A s \in SUBSET T : f[s] \subseteq T) => c \subseteq T
  <2> SUFFICES ASSUME NEW T \in SUBSET U, x \subseteq T, \A s \in SUBSET T : f[s] \subseteq T
               PROVE  c \subseteq T
    OBVIOUS
  <2>1. L[N] \in SUBSET T
    BY <1>3, <1>11
  <2> QED
    BY <1>2, <2>1
<1> QED
  BY <1>12, <1>13 DEF IsClosure

\* RemoveAt takes one place out and moves the places behind it up.
LEMMA RemoveAtPlaces ==
  ASSUME NEW S, NEW s \in Seq(S), NEW i \in 1 .. Len(s)
  PROVE  /\ RemoveAt(s, i) \in Seq(S)
         /\ Len(RemoveAt(s, i)) = Len(s) - 1
         /\ \A j \in 1 .. Len(s) - 1 :
              RemoveAt(s, i)[j] = IF j < i THEN s[j] ELSE s[j + 1]
<1> DEFINE front == SubSeq(s, 1, i - 1)
           back == SubSeq(s, i + 1, Len(s))
<1>1. Len(s) \in Nat /\ \A j \in 1 .. Len(s) : s[j] \in S
  OBVIOUS
<1>2. /\ front \in Seq(S) /\ Len(front) = i - 1
      /\ \A j \in 1 .. i - 1 : front[j] = s[j]
  <2>1. \A j \in 1 .. i - 1 : s[j] \in S
    BY <1>1
  <2>2. /\ front \in Seq(S)
        /\ Len(front) = IF 1 <= i - 1 THEN (i - 1) - 1 + 1 ELSE 0
        /\ \A j \in 1 .. (i - 1) - 1 + 1 : front[j] = s[1 + j - 1]
    BY <1>1, <2>1, SubSeqProperties
  <2> HIDE DEF front
  <2>3. (i - 1) - 1 + 1 = i - 1 /\ \A j \in 1 .. i - 1 : 1 + j - 1 = j
    BY <1>1
  <2> QED
    BY <1>1, <2>2, <2>3
<1>3. /\ back \in Seq(S) /\ Len(back) = Len(s) - i
      /\ \A j \in 1 .. Len(s) - i : back[j] = s[i + j]
  <2>1. \A j \in i + 1 .. Len(s) : s[j] \in S
    BY <1>1
  <2>2. /\ back \in Seq(S)
        /\ Len(back) = IF i + 1 <= Len(s) THEN Len(s) - (i + 1) + 1 ELSE 0
        /\ \A j \in 1 .. Len(s) - (i + 1) + 1 : back[j] = s[(i + 1) + j - 1]
    BY <1>1, <2>1, SubSeqProperties
  <2> HIDE DEF back
  <2>3. Len(back) = Len(s) - i
    BY <1>1, <2>2
  <2>4. ASSUME NEW j \in 1 .. Len(s) - i
        PROVE  back[j] = s[i + j]
    <3>1. j \in 1 .. Len(s) - (i + 1) + 1 /\ (i + 1) + j - 1 = i + j
      BY <1>1
    <3> QED
      BY <2>2, <3>1
  <2> QED
    BY <2>2, <2>3, <2>4
<1> HIDE DEF front, back
<1>4. /\ front \o back \in Seq(S)
      /\ Len(front \o back) = Len(front) + Len(back)
      /\ \A j \in 1 .. Len(front) + Len(back) :
           (front \o back)[j] = IF j <= Len(front) THEN front[j] ELSE back[j - Len(front)]
  BY <1>2, <1>3, ConcatProperties
<1>5. RemoveAt(s, i) = front \o back
  BY DEF RemoveAt, front, back
<1>6. ASSUME NEW j \in 1 .. Len(s) - 1
      PROVE  (front \o back)[j] = IF j < i THEN s[j] ELSE s[j + 1]
  <2>1. Len(front) + Len(back) = Len(s) - 1
    BY <1>1, <1>2, <1>3
  <2>2. CASE j < i
    BY <1>2, <1>4, <2>1, <2>2
  <2>3. CASE ~(j < i)
    <3>1. j - (i - 1) \in 1 .. Len(s) - i /\ i + (j - (i - 1)) = j + 1
      BY <1>1, <2>3
    <3>2. (front \o back)[j] = back[j - (i - 1)]
      BY <1>2, <1>4, <2>1, <2>3
    <3>3. back[j - (i - 1)] = s[i + (j - (i - 1))]
      BY <1>3, <3>1
    <3> QED
      BY <2>3, <3>1, <3>2, <3>3
  <2> QED
    BY <2>2, <2>3
<1>7. Len(front) + Len(back) = Len(s) - 1
  BY <1>1, <1>2, <1>3
<1> QED
  BY <1>4, <1>5, <1>6, <1>7

\* What RemoveAt leaves is what the other places held.
LEMMA RemoveAtContains ==
  ASSUME NEW S, NEW s \in Seq(S), NEW i \in 1 .. Len(s), NEW x
  PROVE  Contains(RemoveAt(s, i), x) <=> \E j \in 1 .. Len(s) : j # i /\ s[j] = x
<1> DEFINE r == RemoveAt(s, i)
<1>1. /\ Len(r) = Len(s) - 1 /\ Len(s) \in Nat
      /\ \A j \in 1 .. Len(s) - 1 : r[j] = IF j < i THEN s[j] ELSE s[j + 1]
  BY RemoveAtPlaces
<1> HIDE DEF r
<1>2. ASSUME NEW j \in 1 .. Len(r), r[j] = x
      PROVE  \E k \in 1 .. Len(s) : k # i /\ s[k] = x
  <2>1. CASE j < i
    BY <1>1, <1>2, <2>1
  <2>2. CASE ~(j < i)
    <3>1. j + 1 \in 1 .. Len(s) /\ j + 1 # i
      BY <1>1, <2>2
    <3> QED
      BY <1>1, <1>2, <2>2, <3>1
  <2> QED
    BY <2>1, <2>2
<1>3. ASSUME NEW k \in 1 .. Len(s), k # i, s[k] = x
      PROVE  \E j \in 1 .. Len(r) : r[j] = x
  <2>1. CASE k < i
    BY <1>1, <1>3, <2>1
  <2>2. CASE ~(k < i)
    <3>1. k - 1 \in 1 .. Len(r) /\ k - 1 + 1 = k /\ ~(k - 1 < i)
      BY <1>1, <1>3, <2>2
    <3> QED
      BY <1>1, <1>3, <3>1
  <2> QED
    BY <2>1, <2>2
<1> QED
  BY <1>2, <1>3 DEF Contains, r

\* Without one place, a sequence that repeats nothing still repeats nothing.
LEMMA RemoveAtInjective ==
  ASSUME NEW S, NEW s \in Seq(S), NEW i \in 1 .. Len(s), IsInjective(s)
  PROVE  IsInjective(RemoveAt(s, i))
<1> DEFINE r == RemoveAt(s, i)
           old(j) == IF j < i THEN j ELSE j + 1
<1>1. /\ Len(r) = Len(s) - 1 /\ Len(s) \in Nat /\ r \in Seq(S)
      /\ \A j \in 1 .. Len(s) - 1 : r[j] = IF j < i THEN s[j] ELSE s[j + 1]
  BY RemoveAtPlaces
<1> HIDE DEF r
<1>2. \A j \in 1 .. Len(r) : old(j) \in 1 .. Len(s) /\ r[j] = s[old(j)]
  BY <1>1
<1>3. \A j, k \in 1 .. Len(r) : old(j) = old(k) => j = k
  BY <1>1
<1> HIDE DEF old
<1>4. \A j, k \in 1 .. Len(r) : r[j] = r[k] => j = k
  BY <1>2, <1>3 DEF IsInjective
<1> QED
  BY <1>1, <1>4 DEF IsInjective, r

\* RemoveFirst takes out one place that holds the element.
LEMMA RemoveFirstPlace ==
  ASSUME NEW S, NEW s \in Seq(S), NEW x, Contains(s, x)
  PROVE  \E i \in 1 .. Len(s) : s[i] = x /\ RemoveFirst(s, x) = RemoveAt(s, i)
<1> DEFINE I == {i \in 1 .. Len(s) : s[i] = x}
<1>1. I \in SUBSET Nat /\ I # {}
  BY DEF Contains
<1>2. Min(I) \in I
  <2>1. \E i \in I : \A j \in I : i <= j
    <3> HIDE DEF I
    <3> QED
      BY <1>1, LeastNumber
  <2> QED
    BY <2>1 DEF Min
<1>3. SelectInSeq(s, LAMBDA v : v = x) = Min(I)
  BY <1>1 DEF SelectInSeq
<1>4. RemoveFirst(s, x) = RemoveAt(s, Min(I))
  BY <1>3 DEF RemoveFirst, Contains
<1> QED
  BY <1>2, <1>4

\* Append adds a place at the end.
LEMMA AppendContains ==
  ASSUME NEW S, NEW s \in Seq(S), NEW e \in S, NEW x
  PROVE  Contains(Append(s, e), x) <=> Contains(s, x) \/ e = x
<1>1. /\ Len(Append(s, e)) = Len(s) + 1 /\ Len(s) \in Nat
      /\ \A i \in 1 .. Len(s) : Append(s, e)[i] = s[i]
      /\ Append(s, e)[Len(s) + 1] = e
  BY AppendProperties
<1> DEFINE r == Append(s, e)
<1> HIDE DEF r
<1>2. Contains(r, x) <=> Contains(s, x) \/ e = x
  BY <1>1 DEF Contains, r
<1> QED
  BY <1>2 DEF r

\* A new element at the end of a sequence that repeats nothing repeats nothing.
LEMMA AppendInjectiveSeq ==
  ASSUME NEW S, NEW s \in Seq(S), NEW e \in S, IsInjective(s), ~Contains(s, e)
  PROVE  IsInjective(Append(s, e))
<1>1. /\ Len(Append(s, e)) = Len(s) + 1 /\ Len(s) \in Nat
      /\ \A i \in 1 .. Len(s) : Append(s, e)[i] = s[i]
      /\ Append(s, e)[Len(s) + 1] = e /\ Append(s, e) \in Seq(S)
  BY AppendProperties
<1>2. \A i, j \in 1 .. Len(s) + 1 : Append(s, e)[i] = Append(s, e)[j] => i = j
  BY <1>1 DEF IsInjective, Contains
<1> QED
  BY <1>1, <1>2 DEF IsInjective

\* How many places of a sequence hold an element.
Places(s, x) == {i \in DOMAIN s : s[i] = x}

\* They are finitely many.
LEMMA PlacesFinite ==
  ASSUME NEW S, NEW s \in Seq(S), NEW x
  PROVE  IsFiniteSet(Places(s, x)) /\ Cardinality(Places(s, x)) \in Nat
<1>1. IsFiniteSet(1 .. Len(s))
  BY FS_Interval
<1>2. Places(s, x) \subseteq 1 .. Len(s)
  BY DEF Places
<1> QED
  BY <1>1, <1>2, FS_Subset, FS_CardinalityType

\* Append adds one place for the element that it appends, and none for another.
LEMMA AppendCounts ==
  ASSUME NEW S, NEW s \in Seq(S), NEW e \in S, NEW x
  PROVE  Cardinality(Places(Append(s, e), x)) =
           Cardinality(Places(s, x)) + IF e = x THEN 1 ELSE 0
<1> DEFINE r == Append(s, e)
<1>1. /\ Len(r) = Len(s) + 1 /\ Len(s) \in Nat /\ DOMAIN r = 1 .. Len(s) + 1
      /\ \A i \in 1 .. Len(s) : r[i] = s[i]
      /\ r[Len(s) + 1] = e /\ DOMAIN s = 1 .. Len(s)
  BY AppendProperties
<1> HIDE DEF r
<1>2. Places(r, x) = Places(s, x) \cup IF e = x THEN {Len(s) + 1} ELSE {}
  BY <1>1 DEF Places
<1>3. Len(s) + 1 \notin Places(s, x)
  BY <1>1 DEF Places
<1>4. IsFiniteSet(Places(s, x)) /\ Cardinality(Places(s, x)) \in Nat
  BY PlacesFinite
<1>5. CASE e = x
  <2>1. Cardinality(Places(s, x) \cup {Len(s) + 1}) = Cardinality(Places(s, x)) + 1
    BY <1>3, <1>4, FS_AddElement
  <2> QED
    BY <1>2, <1>5, <2>1 DEF r
<1>6. CASE e # x
  <2>1. Places(r, x) = Places(s, x)
    BY <1>2, <1>6
  <2> QED
    BY <1>4, <1>6, <2>1 DEF r
<1> QED
  BY <1>5, <1>6

\* RemoveAt takes one place away from the element that it removes.
LEMMA RemoveAtCounts ==
  ASSUME NEW S, NEW s \in Seq(S), NEW i \in 1 .. Len(s), NEW x
  PROVE  Cardinality(Places(RemoveAt(s, i), x)) =
           Cardinality(Places(s, x)) - IF s[i] = x THEN 1 ELSE 0
<1> DEFINE r == RemoveAt(s, i)
           others == Places(s, x) \ {i}
           new(k) == IF k < i THEN k ELSE k - 1
           f == [k \in others |-> new(k)]
<1>1. /\ Len(r) = Len(s) - 1 /\ Len(s) \in Nat /\ DOMAIN r = 1 .. Len(s) - 1
      /\ DOMAIN s = 1 .. Len(s)
      /\ \A j \in 1 .. Len(s) - 1 : r[j] = IF j < i THEN s[j] ELSE s[j + 1]
  BY RemoveAtPlaces
<1> HIDE DEF r
<1>2. f \in Bijection(others, Places(r, x))
  <2>1. ASSUME NEW k \in others
        PROVE  new(k) \in Places(r, x)
    <3>1. k \in 1 .. Len(s) /\ k # i /\ s[k] = x
      BY <1>1 DEF Places
    <3>2. CASE k < i
      BY <1>1, <3>1, <3>2 DEF Places
    <3>3. CASE ~(k < i)
      <4>1. k - 1 \in 1 .. Len(s) - 1 /\ ~(k - 1 < i) /\ k - 1 + 1 = k
        BY <1>1, <3>1, <3>3
      <4> QED
        BY <1>1, <3>1, <3>3, <4>1 DEF Places
    <3> QED
      BY <3>2, <3>3
  <2>2. ASSUME NEW k \in others, NEW m \in others, new(k) = new(m)
        PROVE  k = m
    BY <1>1, <2>2 DEF Places
  <2>3. ASSUME NEW j \in Places(r, x)
        PROVE  \E k \in others : new(k) = j
    <3>1. j \in 1 .. Len(s) - 1 /\ r[j] = x
      BY <1>1 DEF Places
    <3>2. CASE j < i
      BY <1>1, <3>1, <3>2 DEF Places
    <3>3. CASE ~(j < i)
      <4>1. j + 1 \in others
        BY <1>1, <3>1, <3>3 DEF Places
      <4>2. new(j + 1) = j
        BY <1>1, <3>1, <3>3
      <4> QED
        BY <4>1, <4>2
    <3> QED
      BY <3>2, <3>3
  <2> HIDE DEF new, others
  <2> QED
    BY <2>1, <2>2, <2>3 DEF Bijection, Injection, Surjection, IsInjective
<1>3. IsFiniteSet(Places(s, x)) /\ Cardinality(Places(s, x)) \in Nat
  BY PlacesFinite
<1>4. Cardinality(others) = Cardinality(Places(s, x)) - IF s[i] = x THEN 1 ELSE 0
  <2>1. CASE s[i] = x
    <3>1. i \in Places(s, x)
      BY <1>1, <2>1 DEF Places
    <3>2. Cardinality(others) = Cardinality(Places(s, x)) - 1
      BY <1>3, <3>1, FS_RemoveElement
    <3> QED
      BY <2>1, <3>2
  <2>2. CASE s[i] # x
    <3>1. others = Places(s, x)
      BY <2>2 DEF Places
    <3> HIDE DEF others
    <3> QED
      BY <1>3, <2>2, <3>1
  <2> QED
    BY <2>1, <2>2
<1>5. Cardinality(Places(r, x)) = Cardinality(others)
  <2>1. IsFiniteSet(others)
    BY <1>3, FS_Subset
  <2> HIDE DEF f, others
  <2> QED
    BY <1>2, <2>1, FS_Bijection DEF ExistsBijection
<1> QED
  BY <1>4, <1>5 DEF r

\* A sequence over a finite set that holds no element more than m times has at most
\* m times as many places as the set has elements.
LEMMA LengthBounded ==
  ASSUME NEW S, IsFiniteSet(S), NEW s \in Seq(S), NEW m \in Nat,
         \A x \in S : Cardinality(Places(s, x)) <= m
  PROVE  Cardinality(S) \in Nat /\ m * Cardinality(S) \in Nat /\ Len(s) <= m * Cardinality(S)
<1> DEFINE upTo(i) == {j \in Places(s, s[i]) : j <= i}
           copy(i) == Cardinality(upTo(i))
           f == [i \in 1 .. Len(s) |-> <<s[i], copy(i)>>]
           T == S \X (1 .. m)
<1>1. Len(s) \in Nat /\ DOMAIN s = 1 .. Len(s) /\ \A i \in 1 .. Len(s) : s[i] \in S
  OBVIOUS
<1>2. ASSUME NEW i \in 1 .. Len(s)
      PROVE  /\ IsFiniteSet(upTo(i)) /\ copy(i) \in 1 .. m
             /\ i \in upTo(i)
  <2>1. IsFiniteSet(Places(s, s[i])) /\ upTo(i) \subseteq Places(s, s[i]) /\ i \in upTo(i)
    <3>1. IsFiniteSet(Places(s, s[i]))
      BY PlacesFinite
    <3>2. i \in Places(s, s[i]) /\ i <= i
      BY <1>1 DEF Places
    <3> QED
      BY <3>1, <3>2
  <2>2. Cardinality(Places(s, s[i])) <= m /\ Cardinality(Places(s, s[i])) \in Nat
    BY <1>1, PlacesFinite
  <2> HIDE DEF upTo
  <2>3. IsFiniteSet(upTo(i)) /\ Cardinality(upTo(i)) <= Cardinality(Places(s, s[i]))
    BY <2>1, FS_Subset
  <2>4. Cardinality(upTo(i)) \in Nat /\ Cardinality(upTo(i)) # 0
    BY <2>1, <2>3, FS_CardinalityType, FS_EmptySet
  <2> QED
    BY <2>1, <2>2, <2>3, <2>4
<1>3. ASSUME NEW i \in 1 .. Len(s), NEW j \in 1 .. Len(s), s[i] = s[j], i < j
      PROVE  copy(i) # copy(j)
  <2>1. upTo(i) \subseteq upTo(j) /\ upTo(i) # upTo(j)
    <3>1. \A k \in Places(s, s[i]) : k \in 1 .. Len(s)
      BY <1>1 DEF Places
    <3>2. \A k \in upTo(i) : k \in upTo(j)
      BY <1>1, <1>3, <3>1
    <3>3. j \in upTo(j)
      BY <1>2
    <3>4. j \notin upTo(i)
      BY <1>1, <1>3
    <3> HIDE DEF upTo
    <3> QED
      BY <3>2, <3>3, <3>4
  <2>2. IsFiniteSet(upTo(i)) /\ IsFiniteSet(upTo(j))
    BY <1>2
  <2> HIDE DEF upTo
  <2>3. Cardinality(upTo(i)) = Cardinality(upTo(j)) => upTo(i) = upTo(j)
    BY <2>1, <2>2, FS_Subset
  <2> QED
    BY <2>1, <2>3
<1>4. f \in Injection(1 .. Len(s), T)
  <2>1. \A i \in 1 .. Len(s) : copy(i) \in 1 .. m
    BY <1>2
  <2>2. \A i, j \in 1 .. Len(s) : s[i] = s[j] /\ copy(i) = copy(j) => i = j
    BY <1>1, <1>3
  <2> HIDE DEF copy
  <2>3. f \in [1 .. Len(s) -> T]
    BY <1>1, <2>1
  <2>4. \A i, j \in 1 .. Len(s) : f[i] = f[j] => i = j
    BY <2>2
  <2> HIDE DEF f, T
  <2> QED
    BY <2>3, <2>4 DEF Injection, IsInjective
<1>5. Cardinality(1 .. Len(s)) = Len(s)
  <2> DEFINE k == Len(s)
  <2>1. k \in Nat
    BY <1>1
  <2> HIDE DEF k
  <2>2. Cardinality(1 .. k) = k
    BY <2>1, FS_Interval
  <2> QED
    BY <2>2 DEF k
<1>6. IsFiniteSet(1 .. m) /\ Cardinality(1 .. m) = m
  BY FS_Interval
<1>7. Cardinality(S) \in Nat
  BY FS_CardinalityType
<1>8. IsFiniteSet(T) /\ Cardinality(T) = Cardinality(S) * m
  BY <1>6, FS_Product
<1>9. Cardinality(1 .. Len(s)) <= Cardinality(T)
  <2> HIDE DEF f, T
  <2> QED
    BY <1>4, <1>8, FS_Injection
<1>10. m * Cardinality(S) \in Nat /\ Cardinality(S) * m = m * Cardinality(S)
  BY <1>7
<1> QED
  BY <1>5, <1>7, <1>8, <1>9, <1>10
=============================================================================
