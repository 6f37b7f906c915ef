-------------------------- MODULE ExportersProofs --------------------------
(***************************************************************************)
(* Proofs about the exporters, for any images and any annotations: what a  *)
(* reader of each format gets back.  The formats number, order and         *)
(* concatenate, so their lemmas are inductions.  The induction theorems of *)
(* the library take an operator; LeastNat and Induct, which rest on the    *)
(* well-foundedness of <, take a set.                                      *)
(***************************************************************************)
EXTENDS Exporters, TLAPS, SequenceTheorems, FunctionTheorems, FiniteSetTheorems,
        WellFoundedInduction

-----------------------------------------------------------------------------
(* Induction.                                                              *)

LEMMA LeastNat ==
    ASSUME NEW T, T \subseteq Nat, T # {}
    PROVE  \E m \in T : \A n \in T : m <= n
<1>1. IsWellFoundedOn(OpToRel(<, Nat), Nat)
  BY NatLessThanWellFounded
<1>2. PICK m \in T : \A n \in T : ~(<<n, m>> \in OpToRel(<, Nat))
  BY <1>1, WFMin
<1>3. \A n \in T : ~(n < m)
  BY <1>2 DEF OpToRel
<1> QED
  BY <1>3

LEMMA Induct ==
    ASSUME NEW S, 0 \in S, \A n \in Nat : n \in S => n + 1 \in S
    PROVE  Nat \subseteq S
<1> SUFFICES ASSUME ~(Nat \subseteq S) PROVE FALSE
  OBVIOUS
<1> DEFINE T == Nat \ S
<1>1. PICK m \in T : \A n \in T : m <= n
  <2>1. T \subseteq Nat /\ T # {}
    OBVIOUS
  <2> HIDE DEF T
  <2> QED
    BY <2>1, LeastNat
<1>2. m # 0 /\ m \in Nat
  BY <1>1
<1>3. m - 1 \in Nat /\ m - 1 \notin T
  BY <1>1, <1>2
<1> QED
  BY <1>1, <1>2, <1>3

-----------------------------------------------------------------------------
(* Every finite set with a strict total order R has an enumeration in that *)
(* order: an element's place is one more than the number of those before.  *)

LEMMA Enumerate ==
    ASSUME NEW S, IsFiniteSet(S), NEW R,
           \A x \in S : <<x, x>> \notin R,
           \A x, y, z \in S : <<x, y>> \in R /\ <<y, z>> \in R => <<x, z>> \in R,
           \A x, y \in S : x # y => <<x, y>> \in R \/ <<y, x>> \in R
    PROVE  \E s \in [1 .. Cardinality(S) -> S] :
               \A p, q \in 1 .. Cardinality(S) : p < q => <<s[p], s[q]>> \in R
<1> DEFINE n == Cardinality(S)
           Below(x) == {y \in S : <<y, x>> \in R}
           rank == [x \in S |-> Cardinality(Below(x)) + 1]
<1>1. n \in Nat
  BY FS_CardinalityType
<1>2. ASSUME NEW x \in S
      PROVE  IsFiniteSet(Below(x)) /\ Cardinality(Below(x)) \in Nat /\ Cardinality(Below(x)) < n
  <2>1. Below(x) \in SUBSET S /\ Below(x) # S
    OBVIOUS
  <2> HIDE DEF Below
  <2>2. IsFiniteSet(Below(x)) /\ Cardinality(Below(x)) <= n /\ Cardinality(Below(x)) # n
    BY <2>1, FS_Subset
  <2>3. Cardinality(Below(x)) \in Nat
    BY <2>2, FS_CardinalityType
  <2> QED
    BY <1>1, <2>2, <2>3
<1>3. ASSUME NEW x \in S, NEW y \in S, <<x, y>> \in R
      PROVE  Cardinality(Below(x)) < Cardinality(Below(y))
  <2>1. Below(x) \in SUBSET Below(y) /\ Below(x) # Below(y)
    BY <1>3
  <2> HIDE DEF Below
  <2>2. Cardinality(Below(x)) <= Cardinality(Below(y)) /\ Cardinality(Below(x)) # Cardinality(Below(y))
    BY <1>2, <2>1, FS_Subset
  <2> QED
    BY <1>2, <2>2
<1>4. rank \in [S -> 1 .. n]
  <2> HIDE DEF Below, n
  <2>1. \A x \in S : Cardinality(Below(x)) + 1 \in 1 .. n
    BY <1>1, <1>2
  <2> QED
    BY <2>1
<1>5. \A x, y \in S : <<x, y>> \in R => rank[x] < rank[y]
  <2> HIDE DEF Below, n
  <2> QED
    BY <1>2, <1>3
<1>6. rank \in Injection(S, 1 .. n)
  <2> HIDE DEF rank, n
  <2>1. \A x, y \in S : rank[x] = rank[y] => x = y
    <3> SUFFICES ASSUME NEW x \in S, NEW y \in S, x # y PROVE rank[x] # rank[y]
      OBVIOUS
    <3>1. rank[x] \in Int /\ rank[y] \in Int
      BY <1>1, <1>4
    <3>2. rank[x] < rank[y] \/ rank[y] < rank[x]
      BY <1>5
    <3> QED
      BY <3>1, <3>2
  <2> QED
    BY <1>4, <2>1, Fun_IsInj
<1>7. rank \in Surjection(S, 1 .. n)
  <2>1. IsFiniteSet(1 .. n) /\ Cardinality(1 .. n) = n
    BY <1>1, FS_Interval
  <2> HIDE DEF rank
  <2> QED
    BY <1>6, <2>1, FS_Injection
<1> DEFINE s == [p \in 1 .. n |-> CHOOSE x \in S : rank[x] = p]
<1>8. \A p \in 1 .. n : s[p] \in S /\ rank[s[p]] = p
  <2> HIDE DEF rank, n
  <2>1. \A p \in 1 .. n : \E x \in S : rank[x] = p
    BY <1>7, Fun_SurjectionProperties
  <2> QED
    BY <2>1
<1>9. s \in [1 .. n -> S]
  <2> HIDE DEF rank, n
  <2> QED
    BY <1>8
<1>10. \A p, q \in 1 .. n : p < q => <<s[p], s[q]>> \in R
  <2> HIDE DEF rank, n, s
  <2> SUFFICES ASSUME NEW p \in 1 .. n, NEW q \in 1 .. n, p < q, <<s[p], s[q]>> \notin R
               PROVE  FALSE
    OBVIOUS
  <2>1. s[p] # s[q]
    BY <1>8
  <2>2. <<s[q], s[p]>> \in R
    BY <1>8, <2>1
  <2>3. q < p
    BY <1>5, <1>8, <2>2
  <2> QED
    BY <1>1, <2>3
<1> QED
  BY <1>9, <1>10

(* InOrder enumerates a finite set of numbers.                             *)
LEMMA InOrderAscends ==
    ASSUME NEW S, IsFiniteSet(S), S \subseteq Int
    PROVE  /\ Cardinality(S) \in Nat
           /\ InOrder(S) \in [1 .. Cardinality(S) -> S]
           /\ \A p, q \in 1 .. Cardinality(S) : p < q => InOrder(S)[p] < InOrder(S)[q]
<1> DEFINE R == {r \in S \X S : r[1] < r[2]}
           n == Cardinality(S)
<1>1. \A x, y \in S : <<x, y>> \in R <=> x < y
  OBVIOUS
<1>2. \E s \in [1 .. n -> S] : \A p, q \in 1 .. n : p < q => <<s[p], s[q]>> \in R
  <2>1. /\ \A x \in S : <<x, x>> \notin R
        /\ \A x, y, z \in S : <<x, y>> \in R /\ <<y, z>> \in R => <<x, z>> \in R
        /\ \A x, y \in S : x # y => <<x, y>> \in R \/ <<y, x>> \in R
    <3> HIDE DEF R
    <3> QED
      BY <1>1
  <2> HIDE DEF R
  <2> QED
    BY <2>1, Enumerate
<1> HIDE DEF R
<1>3. \E s \in [1 .. n -> S] : \A p, q \in DOMAIN s : p < q => s[p] < s[q]
  <2>1. PICK s \in [1 .. n -> S] : \A p, q \in 1 .. n : p < q => <<s[p], s[q]>> \in R
    BY <1>2
  <2> QED
    BY <1>1, <2>1
<1>4. /\ InOrder(S) \in [1 .. n -> S]
      /\ \A p, q \in DOMAIN InOrder(S) : p < q => InOrder(S)[p] < InOrder(S)[q]
  BY <1>3 DEF InOrder
<1> QED
  BY <1>4, FS_CardinalityType

(* In an enumeration in order, an element's place is its rank.             *)
LEMMA InOrderPlaces ==
    ASSUME NEW S, IsFiniteSet(S), S \subseteq Int, NEW x \in S
    PROVE  /\ ClassIndex(S, x) + 1 \in 1 .. Cardinality(S)
           /\ InOrder(S)[ClassIndex(S, x) + 1] = x
<1> DEFINE n == Cardinality(S)
           s == InOrder(S)
<1>1. n \in Nat /\ s \in [1 .. n -> S] /\ \A p, q \in 1 .. n : p < q => s[p] < s[q]
  BY InOrderAscends
<1> HIDE DEF s, n
<1>2. \A p, q \in 1 .. n : s[p] = s[q] => p = q
  <2>1. \A p \in 1 .. n : s[p] \in Int
    BY <1>1
  <2> QED
    BY <1>1, <2>1
<1>3. \A m \in S : \E k \in 1 .. n : s[k] = m
  <2>1. s \in Injection(1 .. n, S)
    BY <1>1, <1>2, Fun_IsInj
  <2>2. IsFiniteSet(1 .. n) /\ Cardinality(1 .. n) = n
    BY <1>1, FS_Interval
  <2>3. Cardinality(1 .. n) = Cardinality(S)
    BY <2>2 DEF n
  <2> DEFINE D == 1 .. n
  <2>4. s \in Surjection(D, S)
    <3>1. s \in Injection(D, S) /\ Cardinality(D) = Cardinality(S)
      BY <2>1, <2>3
    <3> HIDE DEF D
    <3> QED
      BY <3>1, FS_Injection
  <2> QED
    BY <2>4 DEF Surjection
<1>4. PICK k \in 1 .. n : s[k] = x
  BY <1>3
<1>5. ClassIndex(S, x) = k - 1
  <2> DEFINE D == 1 .. k - 1
             T == {m \in S : m < x}
             f == [p \in D |-> s[p]]
  <2>1. k \in Nat /\ k >= 1 /\ D \subseteq 1 .. n
    BY <1>1, <1>4
  <2>2. \A p \in D : p < k /\ p \in 1 .. n
    BY <2>1
  <2>3. f \in [D -> T]
    BY <1>1, <1>4, <2>2
  <2>4. \A p, q \in D : f[p] = f[q] => p = q
    BY <1>2, <2>2
  <2>5. \A m \in T : \E p \in D : f[p] = m
    <3> SUFFICES ASSUME NEW m \in T PROVE \E p \in D : s[p] = m
      OBVIOUS
    <3>1. PICK p \in 1 .. n : s[p] = m
      BY <1>3
    <3>2. ~(k < p) /\ p # k
      BY <1>1, <1>4, <3>1
    <3> QED
      BY <2>1, <3>1, <3>2
  <2>6. f \in Bijection(D, T)
    <3> HIDE DEF D, T, f
    <3> QED
      BY <2>3, <2>4, <2>5, Fun_IsBij
  <2>7. IsFiniteSet(D) /\ Cardinality(D) = k - 1
    BY <2>1, FS_Interval
  <2>8. Cardinality(T) = Cardinality(D)
    <3>1. ExistsBijection(D, T)
      <4> HIDE DEF D, T, f
      <4> QED
        BY <2>6, Fun_ExistsBij
    <3> HIDE DEF D, T
    <3> QED
      BY <2>7, <3>1, FS_Bijection
  <2> QED
    BY <2>7, <2>8 DEF ClassIndex
<1> QED
  BY <1>1, <1>4, <1>5 DEF s, n

-----------------------------------------------------------------------------
(* Recursion over 0 .. n has a solution: the equation with which TLA+      *)
(* defines a recursive function is satisfied by some function.             *)

Solves(f, n, V, base, step) ==
    /\ f \in [0 .. n -> V]
    /\ f[0] = base
    /\ \A m \in 1 .. n : f[m] = step[<<m, f[m - 1]>>]

LEMMA Recursion ==
    ASSUME NEW n \in Nat, NEW V, NEW base \in V, NEW step \in [(1 .. n) \X V -> V]
    PROVE  \E f : Solves(f, n, V, base, step)
<1> DEFINE Good(k) == \E f \in [0 .. k -> V] :
                        f[0] = base /\ \A m \in 1 .. k : f[m] = step[<<m, f[m - 1]>>]
           S == {k \in Nat : k <= n => Good(k)}
<1>1. Good(0)
  <2> DEFINE f == [m \in 0 .. 0 |-> base]
  <2>1. f \in [0 .. 0 -> V] /\ f[0] = base /\ \A m \in 1 .. 0 : f[m] = step[<<m, f[m - 1]>>]
    OBVIOUS
  <2> HIDE DEF f
  <2> QED
    BY <2>1
<1>2. ASSUME NEW k \in Nat, k + 1 <= n, Good(k)
      PROVE  Good(k + 1)
  <2>1. PICK f \in [0 .. k -> V] :
            f[0] = base /\ \A m \in 1 .. k : f[m] = step[<<m, f[m - 1]>>]
    BY <1>2
  <2> DEFINE v == step[<<k + 1, f[k]>>]
             g == [m \in 0 .. k + 1 |-> IF m = k + 1 THEN v ELSE f[m]]
  <2>2. v \in V
    <3>1. k + 1 \in 1 .. n /\ f[k] \in V
      BY <1>2, <2>1
    <3> QED
      BY <3>1
  <2>3. g \in [0 .. k + 1 -> V]
    <3> HIDE DEF v
    <3>1. \A m \in 0 .. k + 1 : m # k + 1 => m \in 0 .. k
      BY <1>2
    <3> QED
      BY <2>1, <2>2, <3>1
  <2>4. g[0] = base
    BY <1>2, <2>1
  <2>5. ASSUME NEW m \in 1 .. k + 1
        PROVE  g[m] = step[<<m, g[m - 1]>>]
    <3>1. CASE m = k + 1
      <4>1. g[k + 1] = v /\ g[k] = f[k] /\ (k + 1) - 1 = k
        BY <1>2
      <4> QED
        BY <3>1, <4>1
    <3>2. CASE m # k + 1
      <4>1. m \in 1 .. k /\ m - 1 \in 0 .. k + 1 /\ m - 1 # k + 1 /\ m \in 0 .. k + 1
        BY <1>2, <3>2
      <4>2. g[m] = f[m] /\ g[m - 1] = f[m - 1]
        BY <3>2, <4>1
      <4> QED
        BY <2>1, <4>1, <4>2
    <3> QED
      BY <3>1, <3>2
  <2> HIDE DEF g
  <2> QED
    BY <2>3, <2>4, <2>5
<1>3. Nat \subseteq S
  <2> HIDE DEF Good
  <2>1. 0 \in S
    BY <1>1
  <2>2. \A k \in Nat : k \in S => k + 1 \in S
    BY <1>2
  <2> HIDE DEF S
  <2> QED
    BY <2>1, <2>2, Induct
<1> HIDE DEF Good
<1>4. Good(n)
  BY <1>3
<1> QED
  BY <1>4 DEF Good, Solves

(* What holds at 0 and passes from each number to the next holds up to n.  *)
LEMMA InductTo ==
    ASSUME NEW n \in Nat, NEW S, 0 \in S, \A k \in 0 .. n - 1 : k \in S => k + 1 \in S
    PROVE  \A k \in 0 .. n : k \in S
<1> DEFINE T == {k \in Nat : k <= n => k \in S}
<1>1. 0 \in T /\ \A k \in Nat : k \in T => k + 1 \in T
  OBVIOUS
<1>2. Nat \subseteq T
  <2> HIDE DEF T
  <2> QED
    BY <1>1, Induct
<1> QED
  BY <1>2

(* The sums of the first 0, 1, ..., n of n numbers.                        *)
PartialSums(b, n, f) ==
    /\ b \in [0 .. n -> Nat]
    /\ b[0] = 0
    /\ \A m \in 1 .. n : b[m] = b[m - 1] + f[m]

LEMMA PartialSumsExist ==
    ASSUME NEW n \in Nat, NEW f, \A m \in 1 .. n : f[m] \in Nat
    PROVE  \E b : PartialSums(b, n, f)
<1> DEFINE step == [x \in (1 .. n) \X Nat |-> x[2] + f[x[1]]]
<1>1. step \in [(1 .. n) \X Nat -> Nat]
  <2>1. \A x \in (1 .. n) \X Nat : x[1] \in 1 .. n /\ x[2] \in Nat
    OBVIOUS
  <2>2. \A x \in (1 .. n) \X Nat : x[2] + f[x[1]] \in Nat
    BY <2>1
  <2> QED
    BY <2>2
<1>2. \A m \in 1 .. n, v \in Nat : step[<<m, v>>] = v + f[m]
  <2> TAKE m \in 1 .. n, v \in Nat
  <2> DEFINE x == <<m, v>>
  <2>1. x \in (1 .. n) \X Nat /\ x[1] = m /\ x[2] = v
    OBVIOUS
  <2> HIDE DEF x
  <2>2. step[x] = x[2] + f[x[1]]
    BY <2>1
  <2>3. step[x] = v + f[m]
    BY <2>1, <2>2
  <2> HIDE DEF step
  <2> QED
    BY <2>3 DEF x
<1> HIDE DEF step
<1>3. PICK b : Solves(b, n, Nat, 0, step)
  <2>1. 0 \in Nat
    OBVIOUS
  <2> QED
    BY <1>1, <2>1, Recursion
<1>4. \A m \in 1 .. n : b[m] = b[m - 1] + f[m]
  <2> TAKE m \in 1 .. n
  <2>1. m - 1 \in 0 .. n
    OBVIOUS
  <2>2. b[m - 1] \in Nat
    BY <1>3, <2>1 DEF Solves
  <2> QED
    BY <1>2, <1>3, <2>2 DEF Solves
<1> QED
  BY <1>3, <1>4 DEF PartialSums, Solves

(* The function of the definition of AnnotationsBefore is those sums.      *)
LEMMA BeforeSums ==
    ASSUME NEW images, Len(images) \in Nat,
           \A m \in 1 .. Len(images) : Len(images[m].anns) \in Nat
    PROVE  PartialSums([m \in 0 .. Len(images) |-> AnnotationsBefore(images, m + 1)],
                       Len(images), [m \in 1 .. Len(images) |-> Len(images[m].anns)])
<1> DEFINE n == Len(images)
           f == [m \in 1 .. n |-> Len(images[m].anns)]
           Eq(b) == b = [m \in 0 .. n |-> IF m = 0 THEN 0 ELSE b[m - 1] + Len(images[m].anns)]
           c == CHOOSE b : Eq(b)
<1>1. n \in Nat /\ \A m \in 1 .. n : f[m] \in Nat
  OBVIOUS
<1>2. \E b : Eq(b)
  <2>1. PICK b : PartialSums(b, n, f)
    <3> HIDE DEF n, f
    <3> QED
      BY <1>1, PartialSumsExist
  <2>2. b = [m \in 0 .. n |-> b[m]] /\ b[0] = 0
    BY <2>1 DEF PartialSums
  <2>3. \A m \in 0 .. n : m # 0 => b[m] = b[m - 1] + Len(images[m].anns)
    <3>1. \A m \in 0 .. n : m # 0 => m \in 1 .. n
      BY <1>1
    <3> QED
      BY <2>1, <3>1 DEF PartialSums
  <2>4. b = [m \in 0 .. n |-> IF m = 0 THEN 0 ELSE b[m - 1] + Len(images[m].anns)]
    <3> HIDE DEF n
    <3>1. \A m \in 0 .. n : b[m] = IF m = 0 THEN 0 ELSE b[m - 1] + Len(images[m].anns)
      BY <2>2, <2>3
    <3> QED
      BY <2>2, <3>1
  <2> QED
    BY <2>4
<1>3. Eq(c)
  <2> HIDE DEF Eq
  <2> QED
    BY <1>2
<1>4. \A k \in 0 .. n : AnnotationsBefore(images, k + 1) = c[k]
  <2>1. \A k \in 0 .. n : AnnotationsBefore(images, k + 1) = c[(k + 1) - 1]
    BY DEF AnnotationsBefore
  <2>2. \A k \in 0 .. n : (k + 1) - 1 = k
    BY <1>1
  <2> HIDE DEF c, n
  <2> QED
    BY <2>1, <2>2
<1> HIDE DEF c
<1>5. c[0] = 0 /\ \A m \in 1 .. n : c[m] = c[m - 1] + f[m]
  <2>1. 0 \in 0 .. n /\ \A m \in 1 .. n : m \in 0 .. n /\ m # 0
    BY <1>1
  <2>2. c = [m \in 0 .. n |-> IF m = 0 THEN 0 ELSE c[m - 1] + Len(images[m].anns)]
    BY <1>3
  <2>3. \A m \in 0 .. n : c[m] = IF m = 0 THEN 0 ELSE c[m - 1] + Len(images[m].anns)
    <3> HIDE DEF n
    <3> QED
      BY <2>2
  <2> HIDE DEF n
  <2> QED
    BY <2>1, <2>3
<1>6. \A k \in 0 .. n : c[k] \in Nat
  <2> DEFINE S == {k \in Nat : c[k] \in Nat}
  <2> HIDE DEF n, f
  <2>1. 0 \in S
    BY <1>5
  <2>2. \A k \in 0 .. n - 1 : k \in S => k + 1 \in S
    <3> TAKE k \in 0 .. n - 1
    <3>1. k + 1 \in 1 .. n /\ (k + 1) - 1 = k /\ k + 1 \in Nat
      BY <1>1
    <3>2. c[k + 1] = c[k] + f[k + 1]
      BY <1>5, <3>1
    <3> QED
      BY <1>1, <3>1, <3>2
  <2> HIDE DEF S
  <2>3. \A k \in 0 .. n : k \in S
    BY <1>1, <2>1, <2>2, InductTo
  <2> QED
    BY <2>3 DEF S
<1> DEFINE b == [m \in 0 .. n |-> AnnotationsBefore(images, m + 1)]
<1>7. \A m \in 0 .. n : b[m] = c[m]
  BY <1>4
<1>8. b \in [0 .. n -> Nat]
  BY <1>6, <1>7
<1>9. b[0] = 0 /\ \A m \in 1 .. n : b[m] = b[m - 1] + f[m]
  <2>1. 0 \in 0 .. n /\ \A m \in 1 .. n : m \in 0 .. n /\ m - 1 \in 0 .. n
    BY <1>1
  <2> HIDE DEF b, f, n
  <2> QED
    BY <1>5, <1>7, <2>1
<1>10. PartialSums(b, n, f)
  <2> HIDE DEF b, f, n
  <2> QED
    BY <1>8, <1>9 DEF PartialSums
<1> QED
  BY <1>10

-----------------------------------------------------------------------------
(* FlattenSeq: where the p-th element of the m-th sequence comes to lie.   *)

Lengths(ss) == [m \in 1 .. Len(ss) |-> Len(ss[m])]

(* s is the concatenation of the first k of ss, each in a block of its own *)
(* that starts after b[m - 1] elements.                                    *)
Blocks(s, k, ss, b, T) ==
    /\ s \in Seq(T)
    /\ Len(s) = b[k]
    /\ \A m \in 1 .. k : \A p \in 1 .. Len(ss[m]) :
        b[m - 1] + p \in 1 .. b[k] /\ s[b[m - 1] + p] = ss[m][p]
    /\ \A q \in 1 .. b[k] : \E m \in 1 .. k : \E p \in 1 .. Len(ss[m]) : q = b[m - 1] + p

LEMMA BlockAppended ==
    ASSUME NEW T, NEW ss \in Seq(Seq(T)), NEW b, PartialSums(b, Len(ss), Lengths(ss)),
           NEW k \in Nat, k + 1 <= Len(ss), NEW s, Blocks(s, k, ss, b, T)
    PROVE  Blocks(s \o ss[k + 1], k + 1, ss, b, T)
<1> DEFINE t == ss[k + 1]
           l == b[k]
           u == s \o t
<1>1. Len(ss) \in Nat /\ k \in 0 .. Len(ss) /\ k + 1 \in 1 .. Len(ss)
  BY LenProperties
<1>2. t \in Seq(T) /\ Len(t) \in Nat /\ s \in Seq(T) /\ Len(s) = l /\ l \in Nat
  <2>1. t \in Seq(T)
    BY <1>1, ElementOfSeq
  <2> QED
    BY <1>1, <2>1, LenProperties DEF Blocks, PartialSums
<1>3. b[k + 1] = l + Len(t)
  <2>1. b[k + 1] = b[(k + 1) - 1] + Lengths(ss)[k + 1]
    BY <1>1 DEF PartialSums
  <2>2. (k + 1) - 1 = k /\ Lengths(ss)[k + 1] = Len(t)
    BY <1>1 DEF Lengths
  <2> HIDE DEF t
  <2> QED
    BY <2>1, <2>2
<1>4. /\ u \in Seq(T) /\ Len(u) = l + Len(t)
      /\ \A q \in 1 .. l + Len(t) : u[q] = IF q <= l THEN s[q] ELSE t[q - l]
  <2> HIDE DEF t, l
  <2> QED
    BY <1>2, ConcatProperties
<1> HIDE DEF u
<1>5. ASSUME NEW m \in 1 .. k + 1, NEW p \in 1 .. Len(ss[m])
      PROVE  b[m - 1] + p \in 1 .. b[k + 1] /\ u[b[m - 1] + p] = ss[m][p]
  <2>1. CASE m = k + 1
    <3>1. b[m - 1] = l /\ p \in 1 .. Len(t) /\ ss[m][p] = t[p]
      BY <1>1, <2>1
    <3> HIDE DEF l, t
    <3>2. l + p \in 1 .. l + Len(t) /\ ~(l + p <= l) /\ (l + p) - l = p
      BY <1>2, <3>1
    <3> QED
      BY <1>3, <1>4, <3>1, <3>2
  <2>2. CASE m # k + 1
    <3>1. m \in 1 .. k
      BY <1>1, <2>2
    <3>2. b[m - 1] + p \in 1 .. l /\ s[b[m - 1] + p] = ss[m][p]
      BY <3>1 DEF Blocks
    <3> DEFINE q == b[m - 1] + p
    <3> HIDE DEF l, t, q
    <3>3. q \in 1 .. l + Len(t) /\ q <= l
      BY <1>2, <3>2 DEF q
    <3> QED
      BY <1>3, <1>4, <3>2, <3>3 DEF q
  <2> QED
    BY <2>1, <2>2
<1>6. ASSUME NEW q \in 1 .. b[k + 1]
      PROVE  \E m \in 1 .. k + 1 : \E p \in 1 .. Len(ss[m]) : q = b[m - 1] + p
  <2>1. CASE q <= l
    <3>1. q \in 1 .. b[k]
      BY <1>2, <1>3, <2>1
    <3>2. PICK m \in 1 .. k : \E p \in 1 .. Len(ss[m]) : q = b[m - 1] + p
      BY <3>1 DEF Blocks
    <3>3. m \in 1 .. k + 1
      BY <1>1
    <3> QED
      BY <3>2, <3>3
  <2>2. CASE ~(q <= l)
    <3>1. q - l \in 1 .. Len(t) /\ q = l + (q - l)
      <4> HIDE DEF l, t
      <4> QED
        BY <1>2, <1>3, <2>2
    <3>2. k + 1 \in 1 .. k + 1 /\ b[(k + 1) - 1] = l
      BY <1>1
    <3> QED
      BY <3>1, <3>2
  <2> QED
    BY <2>1, <2>2
<1> QED
  BY <1>2, <1>3, <1>4, <1>5, <1>6 DEF Blocks, u

LEMMA FlattenBlocks ==
    ASSUME NEW T, NEW ss \in Seq(Seq(T)), NEW b, PartialSums(b, Len(ss), Lengths(ss))
    PROVE  Blocks(FlattenSeq(ss), Len(ss), ss, b, T)
<1> DEFINE n == Len(ss)
           Eq(f) == f = [i \in 1 .. n |-> IF i = 1 THEN ss[i] ELSE f[i - 1] \o ss[i]]
           c == CHOOSE f : Eq(f)
<1>1. n \in Nat /\ \A m \in 1 .. n : ss[m] \in Seq(T)
  BY LenProperties, ElementOfSeq
<1>2. Blocks(<<>>, 0, ss, b, T)
  <2>1. <<>> \in Seq(T) /\ Len(<<>>) = 0 /\ b[0] = 0
    BY EmptySeq DEF PartialSums
  <2> QED
    BY <2>1 DEF Blocks
<1>3. CASE n = 0
  <2>1. FlattenSeq(ss) = ss
    BY <1>3 DEF FlattenSeq
  <2>2. ss = <<>>
    BY <1>3, EmptySeq
  <2> QED
    BY <1>2, <1>3, <2>1, <2>2
<1>4. CASE n # 0
  <2>1. FlattenSeq(ss) = c[n]
    BY <1>4 DEF FlattenSeq
  <2>2. \E f : Eq(f)
    <3> DEFINE step == [x \in (1 .. n) \X Seq(T) |-> x[2] \o ss[x[1]]]
    <3>1. step \in [(1 .. n) \X Seq(T) -> Seq(T)]
      <4> HIDE DEF n
      <4>1. \A x \in (1 .. n) \X Seq(T) : x[1] \in 1 .. n /\ x[2] \in Seq(T)
        OBVIOUS
      <4>2. \A x \in (1 .. n) \X Seq(T) : x[2] \o ss[x[1]] \in Seq(T)
        BY <1>1, <4>1, ConcatProperties
      <4> QED
        BY <4>2
    <3>2. \A m \in 1 .. n, v \in Seq(T) : step[<<m, v>>] = v \o ss[m]
      <4> HIDE DEF n
      <4> TAKE m \in 1 .. n, v \in Seq(T)
      <4> DEFINE x == <<m, v>>
      <4>1. x \in (1 .. n) \X Seq(T) /\ x[1] = m /\ x[2] = v
        OBVIOUS
      <4> HIDE DEF x
      <4>2. step[x] = v \o ss[m]
        BY <4>1
      <4> HIDE DEF step
      <4> QED
        BY <4>2 DEF x
    <3> HIDE DEF step
    <3>3. PICK f : Solves(f, n, Seq(T), <<>>, step)
      <4>1. <<>> \in Seq(T)
        BY EmptySeq
      <4> HIDE DEF n
      <4> QED
        BY <1>1, <3>1, <4>1, Recursion
    <3> DEFINE g == [i \in 1 .. n |-> f[i]]
    <3>4. \A i \in 1 .. n : g[i] = IF i = 1 THEN ss[i] ELSE g[i - 1] \o ss[i]
      <4> HIDE DEF n
      <4> SUFFICES ASSUME NEW i \in 1 .. n
                   PROVE  f[i] = IF i = 1 THEN ss[i] ELSE g[i - 1] \o ss[i]
        OBVIOUS
      <4>1. i - 1 \in 0 .. n
        BY <1>1
      <4>2. f[i - 1] \in Seq(T) /\ f[i] = step[<<i, f[i - 1]>>]
        BY <3>3, <4>1 DEF Solves
      <4>3. f[i] = f[i - 1] \o ss[i]
        BY <3>2, <4>2
      <4>4. CASE i = 1
        <5>1. f[0] = <<>> /\ i - 1 = 0
          BY <3>3, <4>4 DEF Solves
        <5>2. <<>> \o ss[i] = ss[i]
          BY <1>1, ConcatEmptySeq
        <5> QED
          BY <4>3, <4>4, <5>1, <5>2
      <4>5. CASE i # 1
        <5>1. i - 1 \in 1 .. n
          BY <1>1, <4>5
        <5>2. g[i - 1] = f[i - 1]
          BY <5>1
        <5> QED
          BY <4>3, <4>5, <5>2
      <4> QED
        BY <4>4, <4>5
    <3>5. Eq(g)
      <4>1. g = [i \in 1 .. n |-> g[i]]
        OBVIOUS
      <4> HIDE DEF g, n
      <4> QED
        BY <3>4, <4>1
    <3> HIDE DEF Eq
    <3> QED
      BY <3>5
  <2>3. Eq(c)
    <3> HIDE DEF Eq
    <3> QED
      BY <2>2
  <2> HIDE DEF c
  <2>4. \A i \in 1 .. n : c[i] = IF i = 1 THEN ss[i] ELSE c[i - 1] \o ss[i]
    <3> HIDE DEF n
    <3>1. c = [i \in 1 .. n |-> IF i = 1 THEN ss[i] ELSE c[i - 1] \o ss[i]]
      BY <2>3
    <3> QED
      BY <3>1
  <2> DEFINE d == [k \in 0 .. n |-> IF k = 0 THEN <<>> ELSE c[k]]
             S == {k \in Nat : Blocks(d[k], k, ss, b, T)}
  <2>5. 0 \in S
    <3>1. d[0] = <<>>
      BY <1>1
    <3> HIDE DEF d
    <3> QED
      BY <1>2, <3>1
  <2>6. \A k \in 0 .. n - 1 : k \in S => k + 1 \in S
    <3> TAKE k \in 0 .. n - 1
    <3> HAVE k \in S
    <3>1. k \in Nat /\ k + 1 \in 1 .. n /\ k + 1 <= n /\ k \in 0 .. n /\ k + 1 \in 0 .. n /\ k + 1 # 0
      BY <1>1
    <3>2. d[k + 1] = d[k] \o ss[k + 1]
      <4>1. d[k + 1] = c[k + 1] /\ d[k] = IF k = 0 THEN <<>> ELSE c[k]
        BY <3>1
      <4> HIDE DEF d, n
      <4>2. CASE k = 0
        <5>1. c[k + 1] = ss[k + 1] /\ ss[k + 1] \in Seq(T)
          BY <1>1, <2>4, <3>1, <4>2
        <5>2. <<>> \o ss[k + 1] = ss[k + 1]
          BY <5>1, ConcatEmptySeq
        <5> QED
          BY <4>1, <4>2, <5>1, <5>2
      <4>3. CASE k # 0
        <5>1. k + 1 # 1 /\ (k + 1) - 1 = k
          BY <3>1, <4>3
        <5> QED
          BY <2>4, <3>1, <4>1, <4>3, <5>1
      <4> QED
        BY <4>2, <4>3
    <3>3. Blocks(d[k], k, ss, b, T)
      OBVIOUS
    <3> HIDE DEF d
    <3>4. Blocks(d[k] \o ss[k + 1], k + 1, ss, b, T)
      BY <3>1, <3>3, BlockAppended
    <3>5. Blocks(d[k + 1], k + 1, ss, b, T)
      BY <3>2, <3>4
    <3> QED
      BY <3>1, <3>5
  <2>7. n \in S
    <3> HIDE DEF S, n
    <3>1. \A k \in 0 .. n : k \in S
      BY <1>1, <2>5, <2>6, InductTo
    <3> QED
      BY <1>1, <3>1
  <2>8. d[n] = c[n]
    BY <1>1, <1>4
  <2> HIDE DEF d
  <2> QED
    BY <2>1, <2>7, <2>8
<1> QED
  BY <1>3, <1>4

-----------------------------------------------------------------------------
(* A listing is what an exporter is given: images with their annotations;  *)
(* names must hold the labels of all of them.                              *)
Listing(images) ==
    /\ Len(images) \in Nat
    /\ DOMAIN images = 1 .. Len(images)
    /\ \A k \in DOMAIN images : images[k].anns \in Seq(LabelledBox)

Named(images, names) ==
    /\ IsFiniteSet(names)
    /\ names \subseteq Nat
    /\ \A k \in DOMAIN images : \A p \in DOMAIN images[k].anns :
        images[k].anns[p].label \in names

LEMMA ListedAnnotations ==
    ASSUME NEW images, Listing(images), NEW k \in DOMAIN images
    PROVE  /\ Len(images[k].anns) \in Nat
           /\ DOMAIN images[k].anns = 1 .. Len(images[k].anns)
           /\ \A p \in DOMAIN images[k].anns : images[k].anns[p] \in LabelledBox
           /\ images[k].anns = [p \in DOMAIN images[k].anns |-> images[k].anns[p]]
<1>1. images[k].anns \in Seq(LabelledBox)
  BY DEF Listing
<1> QED
  BY <1>1, LenProperties, ElementOfSeq

(* The sides of a box in grains, from its corners in thousandths.          *)
LEMMA CornersKnown ==
    ASSUME NEW a \in LabelledBox
    PROVE  \A c \in 1 .. 4 : Corners(a.box)[c] \in Int /\ Sides(a.box)[c] = 2000 * Corners(a.box)[c]
<1>1. a.box[1] \in Int /\ a.box[2] \in Int /\ a.box[3] \in Int /\ a.box[4] \in Int
  BY DEF LabelledBox
<1>2. \A c \in 1 .. 4 : Corners(a.box)[c] \in Int
  BY <1>1 DEF Corners
<1>3. \A c \in 1 .. 4 : Sides(a.box)[c] = 2000 * Corners(a.box)[c]
  BY DEF Sides, Grains
<1> QED
  BY <1>2, <1>3

-----------------------------------------------------------------------------
(* Rounding: by how much it moves a number.                                *)

LEMMA RoundHalfMoves ==
    ASSUME NEW n \in Int, NEW d \in Nat, d > 0
    PROVE  /\ RoundHalf(n, d) \in Int
           /\ 2 * (d * RoundHalf(n, d)) - 2 * n <= d
           /\ 2 * n - 2 * (d * RoundHalf(n, d)) <= d
<1> DEFINE m == 2 * n + d
           e == 2 * d
           q == m \div e
           r == m % e
<1>1. m \in Int /\ e \in Nat /\ e > 0
  OBVIOUS
<1>2. q \in Int /\ r \in Int /\ 0 <= r /\ r < e /\ m = e * q + r
  <2> HIDE DEF m, e
  <2> QED
    BY <1>1
<1>3. RoundHalf(n, d) = q
  BY DEF RoundHalf
<1> HIDE DEF q, r
<1>4. e * q = 2 * (d * q)
  BY <1>2
<1> QED
  BY <1>2, <1>3, <1>4

LEMMA TruncateMoves ==
    ASSUME NEW n \in Int
    PROVE  /\ Truncate(n) \in Int
           /\ 1000 * Truncate(n) - n < 1000
           /\ n - 1000 * Truncate(n) < 1000
<1>1. CASE n >= 0
  BY <1>1 DEF Truncate
<1>2. CASE ~(n >= 0)
  <2> DEFINE m == -n
             q == m \div 1000
  <2>1. m \in Nat /\ Truncate(n) = -q
    BY <1>2 DEF Truncate
  <2>2. q \in Int /\ m - 1000 * q < 1000 /\ 0 <= m - 1000 * q
    <3> HIDE DEF m
    <3> QED
      BY <2>1
  <2> HIDE DEF q
  <2> QED
    BY <2>1, <2>2
<1> QED
  BY <1>1, <1>2

(* A side in whole pixels, and one in hundredths.                          *)
LEMMA TruncatedSide ==
    ASSUME NEW n \in Int
    PROVE  Near(GrainsPerPixel * Truncate(n), 2000 * n, GrainsPerPixel - 1)
<1>1. /\ Truncate(n) \in Int
      /\ 1000 * Truncate(n) - n < 1000 /\ n - 1000 * Truncate(n) < 1000
  BY TruncateMoves
<1> QED
  BY <1>1 DEF Near, GrainsPerPixel

LEMMA RoundedSide ==
    ASSUME NEW n \in Int
    PROVE  Near((GrainsPerPixel \div 100) * RoundHalf(n, 10), 2000 * n, GrainsPerPixel \div 200)
<1> DEFINE r == RoundHalf(n, 10)
<1>1. 10 \in Nat /\ 10 > 0
  OBVIOUS
<1>2. r \in Int /\ 2 * (10 * r) - 2 * n <= 10 /\ 2 * n - 2 * (10 * r) <= 10
  BY <1>1, RoundHalfMoves
<1>3. GrainsPerPixel \div 100 = 20000 /\ GrainsPerPixel \div 200 = 10000
  BY DEF GrainsPerPixel
<1> HIDE DEF r
<1> QED
  BY <1>2, <1>3 DEF Near, r

-----------------------------------------------------------------------------
(* Archives: the last entry of its name is the one a reader gets.          *)

LEMMA EntryOfImage ==
    ASSUME NEW format \in Archives, NEW images, Listing(images), NEW k \in DOMAIN images,
           ~Hidden(format, [m \in DOMAIN images |-> images[m].file], k),
           NEW file, DOMAIN file.entries = DOMAIN images,
           \A m \in DOMAIN images : file.entries[m].name = images[m].file.stem
    PROVE  EntryNamed(file, images[k].file.stem) = file.entries[k]
<1> DEFINE names == [m \in DOMAIN images |-> images[m].file]
           S == {m \in DOMAIN file.entries : file.entries[m].name = images[k].file.stem}
<1>1. k \in S /\ S \subseteq Int
  BY DEF Listing
<1>2. \A m \in DOMAIN images : ~(m > k /\ images[m].file.stem = images[k].file.stem)
  <2>1. DOMAIN names = DOMAIN images /\ \A m \in DOMAIN images : names[m] = images[m].file
    OBVIOUS
  <2> HIDE DEF names
  <2>2. ~Hidden(format, names, k)
    BY DEF names
  <2> QED
    BY <2>1, <2>2 DEF Hidden
<1>3. \A m \in S : k >= m
  BY <1>1, <1>2 DEF Listing
<1> HIDE DEF S
<1>4. Max(S) = k
  <2>1. /\ Max(S) \in S
        /\ \A m \in S : Max(S) >= m
    BY <1>1, <1>3 DEF Max
  <2>2. Max(S) >= k /\ k >= Max(S) /\ Max(S) \in Int /\ k \in Int
    BY <1>1, <1>3, <2>1
  <2> QED
    BY <2>2
<1> QED
  BY <1>4 DEF EntryNamed, S

-----------------------------------------------------------------------------
(* Pascal VOC and CVAT: corners, truncated and rounded.                    *)

LEMMA VOCReadsBack ==
    ASSUME NEW images, Listing(images), NEW k \in DOMAIN images,
           ~Hidden("pascal_voc", [m \in DOMAIN images |-> images[m].file], k)
    PROVE  ReadsAs("pascal_voc", images[k].size, DecodedVOC(PascalVOC(images), images[k]),
                   images[k].anns)
<1> DEFINE anns == images[k].anns
           file == PascalVOC(images)
           objects == [p \in DOMAIN anns |->
                        [name |-> anns[p].label, bndbox |-> WholePixels(anns[p].box)]]
           decoded == DecodedVOC(file, images[k])
<1>1. /\ DOMAIN file.entries = DOMAIN images
      /\ \A m \in DOMAIN images : file.entries[m].name = images[m].file.stem
      /\ file.entries[k].objects = objects
  BY DEF PascalVOC
<1>2. EntryNamed(file, images[k].file.stem).objects = objects
  <2>1. "pascal_voc" \in Archives
    BY DEF Archives
  <2> HIDE DEF file, objects
  <2> QED
    BY <1>1, <2>1, EntryOfImage
<1>3. decoded = [p \in DOMAIN objects |->
                    [label |-> objects[p].name,
                     sides |-> [c \in 1 .. 4 |-> GrainsPerPixel * objects[p].bndbox[c]]]]
  <2> HIDE DEF file, objects
  <2> QED
    BY <1>2 DEF DecodedVOC
<1>4. DOMAIN decoded = DOMAIN anns
  <2>1. DOMAIN objects = DOMAIN anns
    OBVIOUS
  <2> HIDE DEF decoded, objects
  <2> QED
    BY <1>3, <2>1
<1>5. ASSUME NEW p \in DOMAIN anns
      PROVE  /\ decoded[p].label = anns[p].label
             /\ \A c \in 1 .. 4 :
                    decoded[p].sides[c] = GrainsPerPixel * WholePixels(anns[p].box)[c]
  <2>1. /\ DOMAIN objects = DOMAIN anns
        /\ objects[p].name = anns[p].label /\ objects[p].bndbox = WholePixels(anns[p].box)
    OBVIOUS
  <2> HIDE DEF decoded, anns, objects
  <2>2. /\ decoded[p].label = objects[p].name
        /\ decoded[p].sides = [c \in 1 .. 4 |-> GrainsPerPixel * objects[p].bndbox[c]]
    BY <1>3, <2>1
  <2> QED
    BY <2>1, <2>2
<1>6. ASSUME NEW p \in DOMAIN anns, NEW c \in 1 .. 4
      PROVE  Near(decoded[p].sides[c], Sides(anns[p].box)[c],
                  Precision("pascal_voc", images[k].size, c))
  <2>1. anns[p] \in LabelledBox
    BY ListedAnnotations
  <2> DEFINE n == Corners(anns[p].box)[c]
  <2>2. n \in Int /\ Sides(anns[p].box)[c] = 2000 * n
    BY <2>1, CornersKnown
  <2>3. decoded[p].sides[c] = GrainsPerPixel * Truncate(n)
    <3>1. WholePixels(anns[p].box)[c] = Truncate(n)
      BY DEF WholePixels
    <3> HIDE DEF decoded, n, anns
    <3> QED
      BY <1>5, <3>1
  <2>4. Precision("pascal_voc", images[k].size, c) = GrainsPerPixel - 1
    BY DEF Precision
  <2> HIDE DEF decoded, n, anns
  <2>5. Near(GrainsPerPixel * Truncate(n), 2000 * n, GrainsPerPixel - 1)
    BY <2>2, TruncatedSide
  <2> QED
    BY <2>2, <2>3, <2>4, <2>5
<1>7. \A p \in DOMAIN anns : decoded[p].label = anns[p].label
  <2> HIDE DEF decoded, anns
  <2> QED
    BY <1>5
<1> HIDE DEF decoded, anns
<1> QED
  BY <1>4, <1>6, <1>7 DEF ReadsAs, decoded, anns, file

LEMMA CVATReadsBack ==
    ASSUME NEW images, NEW names, Listing(images), NEW k \in DOMAIN images
    PROVE  ReadsAs("cvat_xml", images[k].size, DecodedCVAT(CVAT(images, names), k), images[k].anns)
<1> DEFINE anns == images[k].anns
           file == CVAT(images, names)
           boxes == [p \in DOMAIN anns |->
                        [label |-> anns[p].label, corners |-> Hundredths(anns[p].box)]]
           decoded == DecodedCVAT(file, k)
<1>1. file.images[k].boxes = boxes
  BY DEF CVAT
<1>2. decoded = [p \in DOMAIN boxes |->
                    [label |-> boxes[p].label,
                     sides |-> [c \in 1 .. 4 |-> (GrainsPerPixel \div 100) * boxes[p].corners[c]]]]
  <2> HIDE DEF boxes, file
  <2> QED
    BY <1>1 DEF DecodedCVAT
<1>3. DOMAIN decoded = DOMAIN anns
  <2>1. DOMAIN boxes = DOMAIN anns
    OBVIOUS
  <2> HIDE DEF decoded, boxes
  <2> QED
    BY <1>2, <2>1
<1>4. ASSUME NEW p \in DOMAIN anns
      PROVE  /\ decoded[p].label = anns[p].label
             /\ \A c \in 1 .. 4 :
                    decoded[p].sides[c] = (GrainsPerPixel \div 100) * Hundredths(anns[p].box)[c]
  <2>1. /\ DOMAIN boxes = DOMAIN anns
        /\ boxes[p].label = anns[p].label /\ boxes[p].corners = Hundredths(anns[p].box)
    OBVIOUS
  <2> HIDE DEF decoded, anns, boxes
  <2>2. /\ decoded[p].label = boxes[p].label
        /\ decoded[p].sides = [c \in 1 .. 4 |-> (GrainsPerPixel \div 100) * boxes[p].corners[c]]
    BY <1>2, <2>1
  <2> QED
    BY <2>1, <2>2
<1>5. ASSUME NEW p \in DOMAIN anns, NEW c \in 1 .. 4
      PROVE  Near(decoded[p].sides[c], Sides(anns[p].box)[c],
                  Precision("cvat_xml", images[k].size, c))
  <2>1. anns[p] \in LabelledBox
    BY ListedAnnotations
  <2> DEFINE n == Corners(anns[p].box)[c]
             r == RoundHalf(n, 10)
  <2>2. n \in Int /\ Sides(anns[p].box)[c] = 2000 * n
    BY <2>1, CornersKnown
  <2>3. decoded[p].sides[c] = (GrainsPerPixel \div 100) * r
    <3>1. Hundredths(anns[p].box)[c] = r
      BY DEF Hundredths
    <3> HIDE DEF decoded, r, anns
    <3> QED
      BY <1>4, <3>1
  <2>4. Precision("cvat_xml", images[k].size, c) = GrainsPerPixel \div 200
    BY DEF Precision
  <2> HIDE DEF decoded, n, anns
  <2>5. Near((GrainsPerPixel \div 100) * r, 2000 * n, GrainsPerPixel \div 200)
    BY <2>2, RoundedSide
  <2> HIDE DEF r
  <2> QED
    BY <2>2, <2>3, <2>4, <2>5
<1>6. \A p \in DOMAIN anns : decoded[p].label = anns[p].label
  <2> HIDE DEF decoded, anns
  <2> QED
    BY <1>4
<1> HIDE DEF decoded, anns
<1> QED
  BY <1>3, <1>5, <1>6 DEF ReadsAs, decoded, anns, file

-----------------------------------------------------------------------------
(* YOLO and Label Studio: fractions of a size that is known, and back.     *)

LEMMA QuotientOfProduct ==
    ASSUME NEW a \in Int, NEW m \in Nat, m > 0
    PROVE  (a * m) \div m = a
<1> DEFINE q == (a * m) \div m
           r == (a * m) % m
<1>1. a * m \in Int
  OBVIOUS
<1>2. q \in Int /\ r \in Int /\ 0 <= r /\ r < m /\ a * m = m * q + r
  BY <1>1
<1> HIDE DEF q, r
<1>3. m * (a - q) = r
  BY <1>2
<1>4. a - q \in Int
  BY <1>2
<1>5. ~(a - q >= 1)
  <2> SUFFICES ASSUME a - q >= 1 PROVE FALSE
    OBVIOUS
  <2>1. m * (a - q) >= m
    BY <1>4
  <2> QED
    BY <1>2, <1>3, <2>1
<1>6. ~(a - q <= -1)
  <2> SUFFICES ASSUME a - q <= -1 PROVE FALSE
    OBVIOUS
  <2>1. m * (a - q) <= -m
    BY <1>4
  <2> QED
    BY <1>2, <1>3, <2>1
<1> QED
  BY <1>2, <1>4, <1>5, <1>6 DEF q

LEMMA SizesKnown ==
    ASSUME NEW format \in {"yolo", "label_studio"}, NEW images, ~Raises(format, images),
           NEW k \in DOMAIN images, images[k].anns # <<>>, images[k].size \in Nat \X Nat
    PROVE  images[k].size[1] > 0 /\ images[k].size[2] > 0
<1> DEFINE size == images[k].size
<1>1. 0 \notin ToSet(size)
  BY DEF Raises
<1> HIDE DEF size
<1>2. size \in Nat \X Nat
  BY DEF size
<1>3. size[1] \in ToSet(size) /\ size[2] \in ToSet(size)
  BY <1>2 DEF ToSet
<1>4. size[1] # 0 /\ size[2] # 0
  BY <1>1, <1>3
<1>5. size[1] > 0 /\ size[2] > 0
  BY <1>2, <1>4
<1> QED
  BY <1>5 DEF size

(* The arithmetic of one dimension of a YOLO line: near and far side.      *)
LEMMA YoloBack ==
    ASSUME NEW x \in Int, NEW w \in Int, NEW W \in Nat, W > 0,
           NEW u, u = RoundHalf(500 * (2 * x + w), W), NEW v, v = RoundHalf(1000 * w, W)
    PROVE  /\ Near((2 * u - v) * W, 2000 * x, 2 * W)
           /\ Near((2 * u + v) * W, 2000 * (x + w), 2 * W)
<1> DEFINE n == 500 * (2 * x + w)
           P == W * u
           Q == W * v
<1>1. n \in Int /\ n = 1000 * x + 500 * w
  OBVIOUS
<1>2. u \in Int /\ 2 * P - 2 * n <= W /\ 2 * n - 2 * P <= W
  <2> HIDE DEF n
  <2>1. n \in Int /\ u = RoundHalf(n, W)
    BY <1>1 DEF n
  <2> QED
    BY <2>1, RoundHalfMoves
<1>3. v \in Int /\ 2 * Q - 2 * (1000 * w) <= W /\ 2 * (1000 * w) - 2 * Q <= W
  <2> DEFINE t == 1000 * w
  <2>1. t \in Int /\ v = RoundHalf(t, W)
    OBVIOUS
  <2> HIDE DEF t
  <2>2. v \in Int /\ 2 * Q - 2 * t <= W /\ 2 * t - 2 * Q <= W
    BY <2>1, RoundHalfMoves
  <2> QED
    BY <2>2 DEF t
<1>4. (2 * u - v) * W = 2 * P - Q /\ (2 * u + v) * W = 2 * P + Q
  BY <1>2, <1>3
<1>5. P \in Int /\ Q \in Int
  BY <1>2, <1>3
<1> HIDE DEF n, P, Q
<1> QED
  BY <1>1, <1>2, <1>3, <1>4, <1>5 DEF Near

LEMMA YoloLineBack ==
    ASSUME NEW a \in LabelledBox, NEW names, NEW size \in Nat \X Nat,
           size[1] > 0, size[2] > 0, NEW c \in 1 .. 4
    PROVE  Near(YoloSides(YoloLine(names, size, a), size)[c], Sides(a.box)[c],
                Precision("yolo", size, c))
<1> DEFINE l == YoloLine(names, size, a)
           x == a.box[1]  y == a.box[2]  w == a.box[3]  h == a.box[4]
           W == size[1]  H == size[2]
<1>1. x \in Int /\ y \in Int /\ w \in Int /\ h \in Int
  BY DEF LabelledBox
<1>2. W \in Nat /\ H \in Nat /\ W > 0 /\ H > 0
  OBVIOUS
<1>3. /\ l.cx = RoundHalf(500 * (2 * x + w), W) /\ l.w = RoundHalf(1000 * w, W)
      /\ l.cy = RoundHalf(500 * (2 * y + h), H) /\ l.h = RoundHalf(1000 * h, H)
  BY DEF YoloLine
<1>4. /\ Sides(a.box)[1] = 2000 * x /\ Sides(a.box)[3] = 2000 * (x + w)
      /\ Sides(a.box)[2] = 2000 * y /\ Sides(a.box)[4] = 2000 * (y + h)
  BY DEF Sides, Grains, Corners
<1>5. /\ YoloSides(l, size)[1] = (2 * l.cx - l.w) * W
      /\ YoloSides(l, size)[2] = (2 * l.cy - l.h) * H
      /\ YoloSides(l, size)[3] = (2 * l.cx + l.w) * W
      /\ YoloSides(l, size)[4] = (2 * l.cy + l.h) * H
  BY DEF YoloSides
<1>6. \A d \in 1 .. 4 : Precision("yolo", size, d) = 2 * (IF d \in {1, 3} THEN W ELSE H)
  BY DEF Precision, Extent
<1> HIDE DEF l, x, y, w, h, W, H
<1>7. /\ Near((2 * l.cx - l.w) * W, 2000 * x, 2 * W)
      /\ Near((2 * l.cx + l.w) * W, 2000 * (x + w), 2 * W)
  BY <1>1, <1>2, <1>3, YoloBack
<1>8. /\ Near((2 * l.cy - l.h) * H, 2000 * y, 2 * H)
      /\ Near((2 * l.cy + l.h) * H, 2000 * (y + h), 2 * H)
  BY <1>1, <1>2, <1>3, YoloBack
<1>9. c = 1 \/ c = 2 \/ c = 3 \/ c = 4
  OBVIOUS
<1>10. \A d \in 1 .. 4 : Near(YoloSides(l, size)[d], Sides(a.box)[d], Precision("yolo", size, d))
  <2>1. /\ Precision("yolo", size, 1) = 2 * W /\ Precision("yolo", size, 2) = 2 * H
        /\ Precision("yolo", size, 3) = 2 * W /\ Precision("yolo", size, 4) = 2 * H
    BY <1>6
  <2>2. /\ Near(YoloSides(l, size)[1], Sides(a.box)[1], Precision("yolo", size, 1))
        /\ Near(YoloSides(l, size)[2], Sides(a.box)[2], Precision("yolo", size, 2))
        /\ Near(YoloSides(l, size)[3], Sides(a.box)[3], Precision("yolo", size, 3))
        /\ Near(YoloSides(l, size)[4], Sides(a.box)[4], Precision("yolo", size, 4))
    BY <1>4, <1>5, <1>7, <1>8, <2>1
  <2>3. \A d \in 1 .. 4 : d = 1 \/ d = 2 \/ d = 3 \/ d = 4
    OBVIOUS
  <2> QED
    BY <2>2, <2>3
<1> QED
  BY <1>10 DEF l

LEMMA YoloReadsBack ==
    ASSUME NEW images, NEW names, Listing(images), Named(images, names),
           ~Raises("yolo", images), NEW k \in DOMAIN images, images[k].size \in Nat \X Nat,
           ~Hidden("yolo", [m \in DOMAIN images |-> images[m].file], k)
    PROVE  ReadsAs("yolo", images[k].size, DecodedYolo(Yolo(images, names), images[k]),
                   images[k].anns)
<1> DEFINE anns == images[k].anns
           size == images[k].size
           lines == [p \in DOMAIN anns |-> YoloLine(names, size, anns[p])]
           file == Yolo(images, names)
           decoded == DecodedYolo(file, images[k])
<1>1. /\ DOMAIN file.entries = DOMAIN images
      /\ \A m \in DOMAIN images : file.entries[m].name = images[m].file.stem
      /\ file.entries[k].lines = lines
      /\ file.classes = InOrder(names)
  BY DEF Yolo
<1>2. EntryNamed(file, images[k].file.stem).lines = lines
  <2>1. "yolo" \in Archives
    BY DEF Archives
  <2> HIDE DEF file, lines
  <2> QED
    BY <1>1, <2>1, EntryOfImage
<1>3. decoded = [p \in DOMAIN lines |->
                    [label |-> file.classes[lines[p].class + 1], sides |-> YoloSides(lines[p], size)]]
  <2> HIDE DEF lines, file
  <2> QED
    BY <1>2 DEF DecodedYolo
<1>4. DOMAIN lines = DOMAIN anns
  OBVIOUS
<1>5. ASSUME NEW p \in DOMAIN anns
      PROVE  /\ decoded[p].label = anns[p].label
             /\ decoded[p].sides = YoloSides(YoloLine(names, size, anns[p]), size)
  <2>1. lines[p] = YoloLine(names, size, anns[p])
    OBVIOUS
  <2>2. anns[p].label \in names /\ IsFiniteSet(names) /\ names \subseteq Int
    BY DEF Named
  <2> HIDE DEF file, lines, anns, size, decoded
  <2>3. lines[p].class = ClassIndex(names, anns[p].label)
    BY <2>1 DEF YoloLine
  <2> DEFINE label == anns[p].label
  <2>4. InOrder(names)[ClassIndex(names, label) + 1] = label
    <3> HIDE DEF label
    <3>1. label \in names /\ IsFiniteSet(names) /\ names \subseteq Int
      BY <2>2 DEF label
    <3> QED
      BY <3>1, InOrderPlaces
  <2>5. file.classes[lines[p].class + 1] = anns[p].label
    <3>1. file.classes = InOrder(names)
      BY <1>1
    <3> QED
      BY <2>3, <2>4, <3>1
  <2> QED
    BY <1>3, <1>4, <2>1, <2>5
<1>6. ASSUME NEW p \in DOMAIN anns, NEW c \in 1 .. 4
      PROVE  Near(decoded[p].sides[c], Sides(anns[p].box)[c], Precision("yolo", size, c))
  <2>1. anns[p] \in LabelledBox
    BY ListedAnnotations
  <2>2. size[1] > 0 /\ size[2] > 0
    <3>1. anns # <<>>
      BY <1>6
    <3> QED
      BY <3>1, SizesKnown
  <2>3. size \in Nat \X Nat
    OBVIOUS
  <2> HIDE DEF anns, size, decoded
  <2>4. Near(YoloSides(YoloLine(names, size, anns[p]), size)[c], Sides(anns[p].box)[c],
             Precision("yolo", size, c))
    BY <2>1, <2>2, <2>3, YoloLineBack
  <2> QED
    BY <1>5, <2>4
<1>7. DOMAIN decoded = DOMAIN anns
  <2> HIDE DEF decoded, lines, anns
  <2> QED
    BY <1>3, <1>4
<1> HIDE DEF decoded, anns, size
<1> QED
  BY <1>5, <1>6, <1>7 DEF ReadsAs, decoded, anns, file, size

(* What the formats without rounding decode: every box where it was.       *)
Exactly(anns) == [p \in DOMAIN anns |-> [label |-> anns[p].label, sides |-> Sides(anns[p].box)]]

LEMMA ExactReadsAs ==
    ASSUME NEW format \in {"coco", "label_studio"}, NEW size, NEW images, Listing(images),
           NEW k \in DOMAIN images
    PROVE  ReadsAs(format, size, Exactly(images[k].anns), images[k].anns)
<1> DEFINE anns == images[k].anns
<1>1. ASSUME NEW p \in DOMAIN anns, NEW c \in 1 .. 4
      PROVE  Near(Sides(anns[p].box)[c], Sides(anns[p].box)[c], Precision(format, size, c))
  <2>1. anns[p] \in LabelledBox
    BY ListedAnnotations
  <2> DEFINE n == Sides(anns[p].box)[c]
  <2>2. n \in Int
    <3>1. Corners(anns[p].box)[c] \in Int /\ n = 2000 * Corners(anns[p].box)[c]
      BY <2>1, CornersKnown
    <3> HIDE DEF n
    <3> QED
      BY <3>1
  <2>3. Precision(format, size, c) = 0
    BY DEF Precision
  <2> HIDE DEF n
  <2> QED
    BY <2>2, <2>3 DEF Near, n
<1> HIDE DEF anns
<1>2. /\ DOMAIN Exactly(anns) = DOMAIN anns
      /\ \A p \in DOMAIN anns : /\ Exactly(anns)[p].label = anns[p].label
                                /\ Exactly(anns)[p].sides = Sides(anns[p].box)
  BY DEF Exactly
<1> QED
  BY <1>1, <1>2 DEF ReadsAs, anns

LEMMA LabelStudioReadsBack ==
    ASSUME NEW images, Listing(images), ~Raises("label_studio", images),
           NEW k \in DOMAIN images, images[k].size \in Nat \X Nat
    PROVE  DecodedLabelStudio(LabelStudio(images), images[k], k) = Exactly(images[k].anns)
<1> DEFINE anns == images[k].anns
           size == images[k].size
           Value(p) == [c \in 1 .. 4 |-> <<100 * anns[p].box[c], Extent(size, c)>>]
           result == [p \in DOMAIN anns |-> [label |-> anns[p].label, value |-> Value(p)]]
<1>1. LabelStudio(images).tasks[k].result = result
  BY DEF LabelStudio
<1>2. DecodedLabelStudio(LabelStudio(images), images[k], k) =
        [p \in DOMAIN result |->
            [label |-> result[p].label, sides |-> Sides(PercentBox(result[p].value, size))]]
  <2> HIDE DEF result
  <2> QED
    BY <1>1 DEF DecodedLabelStudio
<1>3. ASSUME NEW p \in DOMAIN anns
      PROVE  PercentBox(Value(p), size) = anns[p].box
  <2>1. anns[p] \in LabelledBox
    BY ListedAnnotations
  <2>2. size[1] > 0 /\ size[2] > 0
    <3>1. anns # <<>>
      BY <1>3
    <3> QED
      BY <3>1, SizesKnown
  <2> DEFINE box == anns[p].box
             value == Value(p)
  <2>3. box \in Int \X Int \X Int \X Int
    BY <2>1 DEF LabelledBox
  <2>4. \A c \in 1 .. 4 : value[c] = <<100 * box[c], Extent(size, c)>>
    OBVIOUS
  <2>5. \A c \in 1 .. 4 : Extent(size, c) \in Nat /\ Extent(size, c) > 0
    BY <2>2 DEF Extent
  <2> HIDE DEF value, anns, size, box
  <2>6. \A c \in 1 .. 4 : box[c] \in Int
    BY <2>3
  <2>7. ASSUME NEW c \in 1 .. 4
        PROVE  (value[c][1] * Extent(size, c)) \div (100 * value[c][2]) = box[c]
    <3> DEFINE b == box[c]  e == Extent(size, c)  m == 100 * e
    <3>1. value[c][1] = 100 * b /\ value[c][2] = e
      BY <2>4
    <3>2. b \in Int /\ e \in Nat /\ e > 0
      BY <2>5, <2>6
    <3> HIDE DEF b, e
    <3>3. m \in Nat /\ m > 0 /\ (100 * b) * e = b * m
      BY <3>2
    <3> HIDE DEF m
    <3>4. (b * m) \div m = b
      BY <3>2, <3>3, QuotientOfProduct
    <3> QED
      BY <3>1, <3>3, <3>4 DEF m, b, e
  <2>8. box = [c \in 1 .. 4 |-> box[c]]
    BY <2>3
  <2>9. PercentBox(value, size) = box
    BY <2>7, <2>8 DEF PercentBox
  <2> QED
    BY <2>9 DEF box, value
<1>4. DOMAIN result = DOMAIN anns
      /\ \A p \in DOMAIN anns : result[p].label = anns[p].label /\ result[p].value = Value(p)
  OBVIOUS
<1> HIDE DEF anns, result, Value, size
<1>5. DecodedLabelStudio(LabelStudio(images), images[k], k) = Exactly(anns)
  BY <1>2, <1>3, <1>4 DEF Exactly
<1> QED
  BY <1>5 DEF anns

-----------------------------------------------------------------------------
(* COCO: the annotations of all images in one sequence, told apart by the  *)
(* ids of their images and categories.                                     *)

CocoRow == [id : Nat, image_id : Nat, category_id : Nat, bbox : Int \X Int \X Int \X Int]

(* The annotations of image m lie behind b[m - 1] others.                  *)
CocoBefore(images) == [m \in 0 .. Len(images) |-> AnnotationsBefore(images, m + 1)]

Consecutive(s, a, n) == DOMAIN s = 1 .. n /\ \A p \in 1 .. n : s[p] = a + p

LEMMA InOrderOfInterval ==
    ASSUME NEW a \in Int, NEW n \in Nat, NEW M, M = a + 1 .. a + n
    PROVE  Consecutive(InOrder(M), a, n)
<1>1. IsFiniteSet(M) /\ Cardinality(M) = n
  BY FS_Interval
<1>2. M \subseteq Int
  OBVIOUS
<1>3. DOMAIN InOrder(M) = 1 .. n
  BY <1>1, <1>2, InOrderAscends
<1>4. ASSUME NEW p \in 1 .. n
      PROVE  InOrder(M)[p] = a + p
  <2>1. a + p \in M
    OBVIOUS
  <2>2. {m \in M : m < a + p} = a + 1 .. a + (p - 1)
    OBVIOUS
  <2>3. Cardinality(a + 1 .. a + (p - 1)) = p - 1
    BY FS_Interval
  <2>4. ClassIndex(M, a + p) = p - 1
    BY <2>2, <2>3 DEF ClassIndex
  <2> DEFINE x == a + p
  <2>5. x \in M /\ ClassIndex(M, x) = p - 1
    BY <2>1, <2>4
  <2> HIDE DEF x
  <2>6. InOrder(M)[ClassIndex(M, x) + 1] = x
    BY <1>1, <1>2, <2>5, InOrderPlaces
  <2>7. (p - 1) + 1 = p
    OBVIOUS
  <2> QED
    BY <2>5, <2>6, <2>7 DEF x
<1> QED
  BY <1>3, <1>4 DEF Consecutive

LEMMA ClassIndexNat ==
    ASSUME NEW names, IsFiniteSet(names), NEW label
    PROVE  ClassIndex(names, label) \in Nat
<1>1. {n \in names : n < label} \in SUBSET names
  OBVIOUS
<1> QED
  BY <1>1, FS_Subset, FS_CardinalityType DEF ClassIndex

LEMMA ClassIndexInjective ==
    ASSUME NEW names, IsFiniteSet(names), names \subseteq Nat,
           NEW x \in names, NEW y \in names, ClassIndex(names, x) = ClassIndex(names, y)
    PROVE  x = y
<1>1. names \subseteq Int
  OBVIOUS
<1>2. /\ InOrder(names)[ClassIndex(names, x) + 1] = x
      /\ InOrder(names)[ClassIndex(names, y) + 1] = y
  BY <1>1, InOrderPlaces
<1> QED
  BY <1>2

LEMMA CocoBlocks ==
    ASSUME NEW images, NEW names, Listing(images), Named(images, names)
    PROVE  LET anns == Coco(images, names).annotations
               b == CocoBefore(images)
           IN  /\ anns \in Seq(CocoRow)
               /\ b \in [0 .. Len(images) -> Nat]
               /\ \A k \in DOMAIN images : \A p \in DOMAIN images[k].anns :
                    /\ b[k - 1] + p \in DOMAIN anns
                    /\ anns[b[k - 1] + p] = CocoAnnotation(images, names, k, p)
                    /\ CocoAnnotation(images, names, k, p).id = b[k - 1] + p
               /\ \A q \in DOMAIN anns : \E k \in DOMAIN images :
                    \E p \in DOMAIN images[k].anns : q = b[k - 1] + p
<1> DEFINE n == Len(images)
           b == CocoBefore(images)
           ss == [k \in DOMAIN images |->
                    [p \in DOMAIN images[k].anns |-> CocoAnnotation(images, names, k, p)]]
           anns == Coco(images, names).annotations
<1>1. n \in Nat /\ DOMAIN images = 1 .. n
  BY DEF Listing
<1>2. \A k \in DOMAIN images : /\ Len(images[k].anns) \in Nat
                               /\ DOMAIN images[k].anns = 1 .. Len(images[k].anns)
  BY ListedAnnotations
<1>3. PartialSums(b, n, [m \in 1 .. n |-> Len(images[m].anns)])
  BY <1>1, <1>2, BeforeSums DEF CocoBefore
<1>4. ASSUME NEW k \in DOMAIN images
      PROVE  AnnotationsBefore(images, k) = b[k - 1] /\ b[k - 1] \in Nat
  <2>1. k - 1 \in 0 .. n /\ (k - 1) + 1 = k
    BY <1>1
  <2>2. b[k - 1] = AnnotationsBefore(images, (k - 1) + 1)
    BY <2>1 DEF CocoBefore
  <2> QED
    BY <1>3, <2>1, <2>2 DEF PartialSums
<1>5. ASSUME NEW k \in DOMAIN images, NEW p \in DOMAIN images[k].anns
      PROVE  /\ CocoAnnotation(images, names, k, p) \in CocoRow
             /\ CocoAnnotation(images, names, k, p).id = b[k - 1] + p
  <2> DEFINE a == images[k].anns[p]
  <2>1. a \in LabelledBox /\ a.label \in Nat /\ a.box \in Int \X Int \X Int \X Int
    BY ListedAnnotations DEF LabelledBox
  <2>2. ClassIndex(names, a.label) + 1 \in Nat
    BY ClassIndexNat DEF Named
  <2>3. k \in Nat /\ p \in Nat
    BY <1>1, <1>2
  <2> HIDE DEF a, b
  <2>4. b[k - 1] + p \in Nat
    BY <1>4, <2>3
  <2> QED
    BY <1>4, <2>1, <2>2, <2>3, <2>4 DEF CocoAnnotation, CocoRow, a
<1>6. \A k \in 1 .. n : ss[k] \in Seq(CocoRow) /\ Len(ss[k]) = Len(images[k].anns)
  <2> TAKE k \in 1 .. n
  <2> DEFINE l == Len(images[k].anns)
  <2>1. k \in DOMAIN images /\ l \in Nat /\ DOMAIN images[k].anns = 1 .. l
    BY <1>1, <1>2
  <2>2. ss[k] = [p \in 1 .. l |-> CocoAnnotation(images, names, k, p)]
    BY <2>1
  <2>3. \A p \in 1 .. l : CocoAnnotation(images, names, k, p) \in CocoRow
    BY <1>5, <2>1
  <2> HIDE DEF l, ss
  <2> QED
    BY <2>1, <2>2, <2>3 DEF l
<1>7. ss \in Seq(Seq(CocoRow)) /\ Len(ss) = n
  <2>1. DOMAIN ss = 1 .. n /\ ss = [k \in 1 .. n |-> ss[k]]
    BY <1>1
  <2> HIDE DEF ss, n
  <2> QED
    BY <1>1, <1>6, <2>1
<1>8. anns = FlattenSeq(ss)
  BY DEF Coco
<1>9. Lengths(ss) = [m \in 1 .. n |-> Len(images[m].anns)]
  <2> HIDE DEF ss, n
  <2> QED
    BY <1>6, <1>7 DEF Lengths
<1>10. Blocks(anns, n, ss, b, CocoRow)
  <2> HIDE DEF ss, n, b, anns
  <2>1. PartialSums(b, Len(ss), Lengths(ss))
    BY <1>3, <1>7, <1>9
  <2>2. Blocks(FlattenSeq(ss), Len(ss), ss, b, CocoRow)
    BY <1>7, <2>1, FlattenBlocks
  <2> QED
    BY <1>7, <1>8, <2>2
<1>11. \A k \in DOMAIN images : \A p \in DOMAIN images[k].anns :
          k \in 1 .. n /\ p \in 1 .. Len(ss[k]) /\ ss[k][p] = CocoAnnotation(images, names, k, p)
  BY <1>1, <1>2, <1>6
<1>12. \A k \in 1 .. n : k \in DOMAIN images /\ DOMAIN images[k].anns = 1 .. Len(ss[k])
  BY <1>1, <1>2, <1>6
<1> HIDE DEF ss, n, b, anns
<1>13. anns \in Seq(CocoRow) /\ DOMAIN anns = 1 .. b[n]
  BY <1>10, LenProperties DEF Blocks
<1>14. ASSUME NEW k \in DOMAIN images, NEW p \in DOMAIN images[k].anns
       PROVE  b[k - 1] + p \in DOMAIN anns
              /\ anns[b[k - 1] + p] = CocoAnnotation(images, names, k, p)
  BY <1>10, <1>11, <1>13 DEF Blocks
<1>15. ASSUME NEW q \in DOMAIN anns
       PROVE  \E k \in DOMAIN images : \E p \in DOMAIN images[k].anns : q = b[k - 1] + p
  BY <1>10, <1>12, <1>13 DEF Blocks
<1>16. b \in [0 .. n -> Nat]
  BY <1>3 DEF PartialSums
<1> QED
  BY <1>5, <1>13, <1>14, <1>15, <1>16 DEF anns, b, n

(* The category of a label is the only one with its id.                    *)
LEMMA CocoCategory ==
    ASSUME NEW images, NEW names, IsFiniteSet(names), names \subseteq Nat, NEW label \in names
    PROVE  {c \in Coco(images, names).categories : c.id = ClassIndex(names, label) + 1} =
               {[id |-> ClassIndex(names, label) + 1, name |-> label]}
<1> DEFINE C == {[id |-> ClassIndex(names, n) + 1, name |-> n] : n \in names}
<1>1. Coco(images, names).categories = C
  BY DEF Coco
<1>2. \A n \in names : ClassIndex(names, n) + 1 = ClassIndex(names, label) + 1 => n = label
  <2> TAKE n \in names
  <2>1. ClassIndex(names, n) \in Nat /\ ClassIndex(names, label) \in Nat
    BY ClassIndexNat
  <2> HAVE ClassIndex(names, n) + 1 = ClassIndex(names, label) + 1
  <2>2. ClassIndex(names, n) = ClassIndex(names, label)
    BY <2>1
  <2> QED
    BY <2>2, ClassIndexInjective
<1> QED
  BY <1>1, <1>2

LEMMA CocoReadsBack ==
    ASSUME NEW images, NEW names, Listing(images), Named(images, names), NEW k \in DOMAIN images
    PROVE  DecodedCoco(Coco(images, names), k) = Exactly(images[k].anns)
<1> DEFINE file == Coco(images, names)
           rows == file.annotations
           b == CocoBefore(images)
           a == b[k - 1]
           anns == images[k].anns
           n == Len(anns)
           M == {q \in DOMAIN rows : rows[q].image_id = file.images[k].id}
           Category(id) == OnlyMember({c \in file.categories : c.id = id})
<1>1. n \in Nat /\ DOMAIN anns = 1 .. n /\ anns = [p \in 1 .. n |-> anns[p]]
      /\ \A p \in 1 .. n : anns[p] \in LabelledBox
  BY ListedAnnotations
<1>2. /\ \A m \in DOMAIN images : \A p \in DOMAIN images[m].anns :
            /\ b[m - 1] + p \in DOMAIN rows
            /\ rows[b[m - 1] + p] = CocoAnnotation(images, names, m, p)
      /\ \A q \in DOMAIN rows : \E m \in DOMAIN images :
            \E p \in DOMAIN images[m].anns : q = b[m - 1] + p
  BY CocoBlocks
<1>3. a \in Nat
  <2>1. k - 1 \in 0 .. Len(images)
    BY DEF Listing
  <2>2. b \in [0 .. Len(images) -> Nat]
    BY CocoBlocks
  <2> HIDE DEF b
  <2> QED
    BY <2>1, <2>2
<1>4. file.images[k].id = k
  BY DEF Coco
<1>5. \A m \in DOMAIN images : \A p \in DOMAIN images[m].anns :
        CocoAnnotation(images, names, m, p).image_id = m
  BY DEF CocoAnnotation
<1>6. M = a + 1 .. a + n
  <2> HIDE DEF rows, file, b, anns
  <2>1. ASSUME NEW q \in M
        PROVE  q \in a + 1 .. a + n
    <3>1. q \in DOMAIN rows /\ rows[q].image_id = k
      BY <1>4
    <3>2. PICK m \in DOMAIN images : \E p \in DOMAIN images[m].anns : q = b[m - 1] + p
      BY <1>2, <3>1
    <3>3. PICK p \in DOMAIN images[m].anns : q = b[m - 1] + p
      BY <3>2
    <3>4. rows[q].image_id = m
      BY <1>2, <1>5, <3>3
    <3>5. m = k /\ p \in 1 .. n
      BY <1>1, <3>1, <3>3, <3>4 DEF anns
    <3>6. q = a + p
      BY <3>3, <3>5
    <3> HIDE DEF a, n
    <3> QED
      BY <1>1, <1>3, <3>5, <3>6
  <2>2. ASSUME NEW q \in a + 1 .. a + n
        PROVE  q \in M
    <3> DEFINE p == q - a
    <3>1. p \in 1 .. n /\ q = a + p
      <4> HIDE DEF a, n
      <4> QED
        BY <1>1, <1>3
    <3> HIDE DEF p
    <3>2. p \in DOMAIN images[k].anns
      BY <1>1, <3>1 DEF anns
    <3>3. q \in DOMAIN rows /\ rows[q] = CocoAnnotation(images, names, k, p)
      BY <1>2, <3>1, <3>2
    <3> QED
      BY <1>4, <1>5, <3>2, <3>3
  <2> HIDE DEF M, a, n
  <2> QED
    BY <2>1, <2>2
<1> DEFINE mine == InOrder(M)
<1>7. DOMAIN mine = 1 .. n /\ \A p \in 1 .. n : mine[p] = a + p
  <2> HIDE DEF a, n, M
  <2>1. a \in Int /\ n \in Nat
    BY <1>1, <1>3
  <2>2. Consecutive(InOrder(M), a, n)
    BY <2>1, <1>6, InOrderOfInterval
  <2> QED
    BY <2>2 DEF Consecutive
<1>8. DecodedCoco(file, k) =
        [p \in DOMAIN mine |->
            [label |-> Category(rows[mine[p]].category_id).name,
             sides |-> Sides(rows[mine[p]].bbox)]]
  BY DEF DecodedCoco
<1>9. ASSUME NEW p \in 1 .. n
      PROVE  /\ Category(rows[mine[p]].category_id).name = anns[p].label
             /\ rows[mine[p]].bbox = anns[p].box
  <2>1. rows[mine[p]] = CocoAnnotation(images, names, k, p)
    BY <1>1, <1>2, <1>7
  <2>2. /\ rows[mine[p]].category_id = ClassIndex(names, anns[p].label) + 1
        /\ rows[mine[p]].bbox = anns[p].box
    <3> HIDE DEF rows, mine
    <3> QED
      BY <2>1 DEF CocoAnnotation
  <2>3. anns[p].label \in names /\ IsFiniteSet(names) /\ names \subseteq Nat
    BY <1>1 DEF Named
  <2> DEFINE label == anns[p].label
             category == [id |-> ClassIndex(names, label) + 1, name |-> label]
  <2>4. {c \in file.categories : c.id = ClassIndex(names, label) + 1} = {category}
    <3>1. label \in names
      BY <2>3
    <3> HIDE DEF label
    <3> QED
      BY <2>3, <3>1, CocoCategory
  <2>5. \A x : OnlyMember({x}) = x
    BY DEF OnlyMember
  <2>6. Category(rows[mine[p]].category_id) = category
    <3> HIDE DEF rows, mine, file, category, anns
    <3> QED
      BY <2>2, <2>4, <2>5
  <2>7. category.name = label
    OBVIOUS
  <2> HIDE DEF rows, mine, file, category, Category
  <2> QED
    BY <2>2, <2>6, <2>7
<1>10. DOMAIN anns = 1 .. n
  BY <1>1
<1> HIDE DEF mine, rows, file, anns, n, Category
<1>11. DecodedCoco(file, k) = Exactly(anns)
  BY <1>7, <1>8, <1>9, <1>10 DEF Exactly
<1> QED
  BY <1>11 DEF file, anns

-----------------------------------------------------------------------------
(* Every format.                                                           *)

(* A set that a function enumerates is finite where its domain is.         *)
LEMMA FiniteImage ==
    ASSUME NEW D, IsFiniteSet(D), NEW f, DOMAIN f = D
    PROVE  IsFiniteSet({f[x] : x \in D})
<1> DEFINE T == {f[x] : x \in D}
           g == [x \in D |-> f[x]]
<1>1. g \in [D -> T]
  OBVIOUS
<1>2. \A t \in T : \E x \in D : g[x] = t
  OBVIOUS
<1>3. g \in Surjection(D, T)
  BY <1>1, <1>2 DEF Surjection
<1> HIDE DEF g, T
<1>4. IsFiniteSet(T)
  BY <1>3, FS_Surjection
<1> QED
  BY <1>4 DEF T

(* The labels of what was listed name the classes of a file.               *)
LEMMA LabelsName ==
    ASSUME NEW images, Listing(images), NEW names,
           names = UNION {{a.label : a \in ToSet(images[k].anns)} : k \in DOMAIN images}
    PROVE  Named(images, names)
<1> DEFINE labels == [k \in DOMAIN images |-> {a.label : a \in ToSet(images[k].anns)}]
<1>1. ASSUME NEW k \in DOMAIN images
      PROVE  /\ IsFiniteSet(labels[k])
             /\ labels[k] \subseteq Nat
             /\ \A p \in DOMAIN images[k].anns : images[k].anns[p].label \in labels[k]
  <2> DEFINE anns == images[k].anns
             f == [p \in DOMAIN anns |-> anns[p].label]
  <2>1. /\ Len(anns) \in Nat /\ DOMAIN anns = 1 .. Len(anns)
        /\ \A p \in DOMAIN anns : anns[p].label \in Nat
    BY ListedAnnotations DEF LabelledBox
  <2>2. labels[k] = {f[p] : p \in DOMAIN anns}
    BY DEF ToSet
  <2>3. IsFiniteSet(DOMAIN anns)
    BY <2>1, FS_Interval
  <2>4. DOMAIN f = DOMAIN anns
    OBVIOUS
  <2>5. IsFiniteSet({f[p] : p \in DOMAIN anns})
    <3> HIDE DEF f, anns
    <3> QED
      BY <2>3, <2>4, FiniteImage
  <2> QED
    BY <2>1, <2>2, <2>5
<1>2. names = UNION {labels[k] : k \in DOMAIN images}
  OBVIOUS
<1>3. IsFiniteSet({labels[k] : k \in DOMAIN images})
  <2>1. IsFiniteSet(DOMAIN images)
    BY FS_Interval DEF Listing
  <2>2. DOMAIN labels = DOMAIN images
    OBVIOUS
  <2> HIDE DEF labels
  <2> QED
    BY <2>1, <2>2, FiniteImage
<1> HIDE DEF labels
<1>4. IsFiniteSet(names)
  <2>1. \A T \in {labels[k] : k \in DOMAIN images} : IsFiniteSet(T)
    BY <1>1
  <2> QED
    BY <1>2, <1>3, <2>1, FS_UNION
<1> QED
  BY <1>1, <1>2, <1>4 DEF Named

(* In every format, the file of any listed images, read as its readers     *)
(* read it, gives back the annotations of each image: their labels, in     *)
(* their order, and their boxes within the precision of the format, for    *)
(* any boxes, fractions of pixels included; unless the exporter raises, or *)
(* a later image of an archive takes the image's name (coco.py:13-54,      *)
(* yolo.py:15-36, voc.py:22-44, cvat.py:14-54, labelstudio.py:13-42).      *)
THEOREM FormatsReadBack ==
    ASSUME NEW format \in Formats, NEW images, NEW names,
           Listing(images), Named(images, names), ~Raises(format, images),
           NEW k \in DOMAIN images, images[k].size \in Nat \X Nat,
           ~Hidden(format, [m \in DOMAIN images |-> images[m].file], k)
    PROVE  ReadsAs(format, images[k].size,
                   Decoded(format, Export(format, images, names), images[k], k),
                   images[k].anns)
<1>1. CASE format = "coco"
  BY <1>1, CocoReadsBack, ExactReadsAs DEF Decoded, Export
<1>2. CASE format = "yolo"
  BY <1>2, YoloReadsBack DEF Decoded, Export
<1>3. CASE format = "pascal_voc"
  BY <1>3, VOCReadsBack DEF Decoded, Export
<1>4. CASE format = "cvat_xml"
  BY <1>4, CVATReadsBack DEF Decoded, Export
<1>5. CASE format = "label_studio"
  BY <1>5, LabelStudioReadsBack, ExactReadsAs DEF Decoded, Export
<1> QED
  BY <1>1, <1>2, <1>3, <1>4, <1>5 DEF Formats

(* Of an image a reader needs to know its file name and its size only.     *)
LEMMA DecodedByFile ==
    ASSUME NEW format \in Formats, NEW file, NEW k, NEW x, NEW y,
           x.file = y.file, x.size = y.size
    PROVE  Decoded(format, file, x, k) = Decoded(format, file, y, k)
<1>1. /\ DecodedYolo(file, x) = DecodedYolo(file, y)
      /\ DecodedVOC(file, x) = DecodedVOC(file, y)
      /\ DecodedLabelStudio(file, x, k) = DecodedLabelStudio(file, y, k)
  BY DEF DecodedYolo, DecodedVOC, DecodedLabelStudio
<1> QED
  BY <1>1 DEF Decoded, Formats

(* In the archives two images with one stem share one name: a reader who   *)
(* asks for either gets the entry of the last of them, so that the         *)
(* annotations of the others are lost to every reader (yolo.py:34-35,      *)
(* voc.py:42-43).                                                          *)
THEOREM LastStemWins ==
    ASSUME NEW format \in Archives, NEW images, NEW names, Listing(images),
           NEW k \in DOMAIN images, NEW m \in DOMAIN images,
           images[m].file.stem = images[k].file.stem,
           ~Hidden(format, [p \in DOMAIN images |-> images[p].file], m)
    PROVE  EntryNamed(Export(format, images, names), images[k].file.stem) =
               Export(format, images, names).entries[m]
<1> DEFINE file == Export(format, images, names)
<1>1. /\ DOMAIN file.entries = DOMAIN images
      /\ \A p \in DOMAIN images : file.entries[p].name = images[p].file.stem
  <2>1. CASE format = "yolo"
    <3>1. file = Yolo(images, names)
      BY <2>1 DEF Export
    <3> HIDE DEF file
    <3> QED
      BY <3>1 DEF Yolo
  <2>2. CASE format = "pascal_voc"
    <3>1. file = PascalVOC(images)
      BY <2>2 DEF Export
    <3> HIDE DEF file
    <3> QED
      BY <3>1 DEF PascalVOC
  <2> QED
    BY <2>1, <2>2 DEF Archives
<1> HIDE DEF file
<1>2. EntryNamed(file, images[m].file.stem) = file.entries[m]
  BY <1>1, EntryOfImage
<1> QED
  BY <1>2 DEF file

(* The ids of a COCO file number its annotations 1, 2, ..., and its        *)
(* image_ids and category_ids each name one image and one category, for    *)
(* any images (coco.py:13-54).                                             *)
THEOREM CocoKeys ==
    ASSUME NEW images, NEW names, Listing(images), Named(images, names)
    PROVE  LET body == Coco(images, names)
               anns == body.annotations
           IN  \A q \in DOMAIN anns :
                /\ anns[q].id = q
                /\ \E k \in DOMAIN body.images : anns[q].image_id = body.images[k].id
                /\ Cardinality({c \in body.categories : c.id = anns[q].category_id}) = 1
<1> DEFINE body == Coco(images, names)
           anns == body.annotations
           b == CocoBefore(images)
<1>1. /\ \A k \in DOMAIN images : \A p \in DOMAIN images[k].anns :
            /\ anns[b[k - 1] + p] = CocoAnnotation(images, names, k, p)
            /\ CocoAnnotation(images, names, k, p).id = b[k - 1] + p
      /\ \A q \in DOMAIN anns : \E k \in DOMAIN images :
            \E p \in DOMAIN images[k].anns : q = b[k - 1] + p
  BY CocoBlocks
<1>2. \A k \in DOMAIN images : k \in DOMAIN body.images /\ body.images[k].id = k
  BY DEF Coco
<1> SUFFICES ASSUME NEW q \in DOMAIN anns
             PROVE  /\ anns[q].id = q
                    /\ \E k \in DOMAIN body.images : anns[q].image_id = body.images[k].id
                    /\ Cardinality({c \in body.categories : c.id = anns[q].category_id}) = 1
  OBVIOUS
<1> HIDE DEF anns, b
<1>3. PICK k \in DOMAIN images : \E p \in DOMAIN images[k].anns : q = b[k - 1] + p
  BY <1>1
<1>4. PICK p \in DOMAIN images[k].anns : q = b[k - 1] + p
  BY <1>3
<1> DEFINE label == images[k].anns[p].label
<1>5. anns[q] = CocoAnnotation(images, names, k, p) /\ anns[q].id = q
  BY <1>1, <1>4
<1>6. anns[q].image_id = k /\ anns[q].category_id = ClassIndex(names, label) + 1
  BY <1>5 DEF CocoAnnotation
<1>7. label \in names /\ IsFiniteSet(names) /\ names \subseteq Nat
  BY DEF Named
<1> DEFINE category == [id |-> ClassIndex(names, label) + 1, name |-> label]
<1> HIDE DEF label
<1>8. {c \in body.categories : c.id = ClassIndex(names, label) + 1} = {category}
  BY <1>7, CocoCategory
<1> HIDE DEF category, body
<1>9. Cardinality({c \in body.categories : c.id = anns[q].category_id}) = 1
  <2>1. Cardinality({category}) = 1
    BY FS_Singleton
  <2> QED
    BY <1>6, <1>8, <2>1
<1> QED
  BY <1>2, <1>5, <1>6, <1>9

=============================================================================
