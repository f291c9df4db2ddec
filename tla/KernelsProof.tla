---------------------------- MODULE KernelsProof ----------------------------
(***************************************************************************)
(* What the kernels read and write, for all shapes, all widths of the       *)
(* integers and all limits of the devices: each thread of a launch stays    *)
(* within its arrays, no two store to one element, and device 0's limits    *)
(* hold all that they say.  The recursive definitions of Shape and Kernels  *)
(* come first: that the functions they define exist, and what they are.     *)
(***************************************************************************)
EXTENDS Kernels, TLAPS, WellFoundedInduction

LEMMA LeastElement ==
  ASSUME NEW T \in SUBSET Nat, T # {}
  PROVE  \E x \in T : \A y \in T : x <= y
<1> DEFINE Less == {ss \in Nat \X Nat : ss[1] < ss[2]}
<1>1. IsWellFoundedOn(Less, Nat)
  BY ONLY NatLessThanWellFounded DEF OpToRel
<1> HIDE DEF Less
<1>2. PICK x \in T : \A y \in T : ~(<<y, x>> \in Less)
  BY <1>1, WFMin
<1>3. \A y \in T : ~(y < x)
  BY <1>2 DEF Less
<1> QED BY <1>2, <1>3

\* Upwards from 0.
LEMMA Upwards ==
  ASSUME NEW n \in Nat, NEW T, 0 \in T, \A i \in 0 .. n - 1 : i \in T => i + 1 \in T
  PROVE  0 .. n \subseteq T
<1> SUFFICES ASSUME (0 .. n) \ T # {} PROVE FALSE
  OBVIOUS
<1> DEFINE U == (0 .. n) \ T
<1>0. U \in SUBSET Nat /\ U # {}
  OBVIOUS
<1> HIDE DEF U
<1>1. PICK x \in U : \A y \in U : x <= y
  BY <1>0, LeastElement
<1> USE DEF U
<1>2. x - 1 \in 0 .. n - 1
  BY <1>1
<1>3. x - 1 \in T
  BY <1>1, <1>2
<1> QED BY <1>1, <1>2, <1>3

\* Downwards from n.
LEMMA Downwards ==
  ASSUME NEW n \in Nat, NEW T, n \in T, \A i \in 1 .. n - 1 : i + 1 \in T => i \in T
  PROVE  1 .. n \subseteq T
<1> DEFINE U == {j \in 0 .. n : n - j \in T \/ j = n}
<1>1. \A j \in 0 .. n - 1 : j \in U => j + 1 \in U
  <2> SUFFICES ASSUME NEW j \in 0 .. n - 1, j \in U, j + 1 # n
               PROVE  n - (j + 1) \in T
    OBVIOUS
  <2>1. n - (j + 1) \in 1 .. n - 1 /\ (n - (j + 1)) + 1 = n - j /\ n - j \in T
    OBVIOUS
  <2> QED BY <2>1
<1>2. 0 \in U
  OBVIOUS
<1> HIDE DEF U
<1>3. 0 .. n \subseteq U
  BY <1>1, <1>2, Upwards
<1> SUFFICES ASSUME NEW i \in 1 .. n PROVE i \in T
  OBVIOUS
<1>4. n - i \in 0 .. n /\ n - (n - i) = i /\ n - i # n
  OBVIOUS
<1>5. n - i \in U
  BY <1>3, <1>4
<1> QED BY <1>4, <1>5 DEF U

\* What a function on 0 .. n or on 1 .. n is when it is defined by recursion.
IsUp(g, n, base, step) ==
  g = [i \in 0 .. n |-> IF i = 0 THEN base ELSE step[i][g[i - 1]]]

IsDown(g, n, base, step) ==
  g = [i \in 1 .. n |-> IF i = n THEN base ELSE step[i][g[i + 1]]]

\* Such functions exist.
LEMMA UpRecursion ==
  ASSUME NEW n \in Nat, NEW S, NEW base \in S, NEW step \in [1 .. n -> [S -> S]]
  PROVE  \E g \in [0 .. n -> S] : IsUp(g, n, base, step)
<1> DEFINE Upto(m, g) == \A i \in 0 .. m : g[i] = IF i = 0 THEN base ELSE step[i][g[i - 1]]
           T == {m \in 0 .. n : \E g \in [0 .. m -> S] : Upto(m, g)}
<1>1. 0 \in T
  <2>1. [i \in 0 .. 0 |-> base] \in [0 .. 0 -> S] /\ Upto(0, [i \in 0 .. 0 |-> base])
    OBVIOUS
  <2>2. \E g \in [0 .. 0 -> S] : Upto(0, g)
    BY <2>1
  <2> QED BY <2>2
<1>2. ASSUME NEW m \in 0 .. n - 1, m \in T PROVE m + 1 \in T
  <2>1. PICK g \in [0 .. m -> S] : Upto(m, g)
    BY <1>2
  <2> DEFINE h == [i \in 0 .. m + 1 |-> IF i = m + 1 THEN step[m + 1][g[m]] ELSE g[i]]
  <2>2. m + 1 \in 1 .. n /\ g[m] \in S
    OBVIOUS
  <2>3. step[m + 1] \in [S -> S] /\ step[m + 1][g[m]] \in S
    BY <2>2
  <2>4. h \in [0 .. m + 1 -> S]
    BY <2>3
  <2>5. \A i \in 0 .. m : h[i] = g[i]
    OBVIOUS
  <2>6. h[m + 1] = step[m + 1][h[m]]
    OBVIOUS
  <2> HIDE DEF h
  <2>7. Upto(m + 1, h)
    <3> SUFFICES ASSUME NEW i \in 0 .. m + 1
                 PROVE  h[i] = IF i = 0 THEN base ELSE step[i][h[i - 1]]
      OBVIOUS
    <3>1. CASE i = m + 1
      BY <3>1, <2>6
    <3>2. CASE i \in 0 .. m /\ i # 0
      <4>1. i - 1 \in 0 .. m
        BY <3>2
      <4> QED BY <2>1, <2>5, <3>2, <4>1
    <3>3. CASE i = 0
      BY <2>1, <2>5, <3>3
    <3> QED BY <3>1, <3>2, <3>3
  <2> QED BY <2>4, <2>7
<1> HIDE DEF T
<1>3. n \in T
  <2>1. 0 .. n \subseteq T
    BY <1>1, <1>2, Upwards
  <2> QED BY <2>1
<1>4. PICK g \in [0 .. n -> S] : Upto(n, g)
  BY <1>3 DEF T
<1> QED BY <1>4 DEF IsUp

LEMMA DownRecursion ==
  ASSUME NEW n \in Nat, NEW S, NEW base \in S, NEW step \in [1 .. n -> [S -> S]]
  PROVE  \E g \in [1 .. n -> S] : IsDown(g, n, base, step)
<1>1. CASE n = 0
  <2> DEFINE g == [i \in 1 .. n |-> base]
  <2>1. g \in [1 .. n -> S]
    OBVIOUS
  <2>2. g = [i \in 1 .. n |-> IF i = n THEN base ELSE step[i][g[i + 1]]]
    BY <1>1
  <2> HIDE DEF g
  <2> QED BY <2>1, <2>2 DEF IsDown
<1>2. CASE n # 0
  <2> DEFINE m == n - 1
             up == [j \in 1 .. m |-> step[n - j]]
  <2>1. m \in Nat /\ up \in [1 .. m -> [S -> S]]
    BY <1>2
  <2> HIDE DEF up, m
  <2>0. PICK f \in [0 .. m -> S] : IsUp(f, m, base, up)
    BY <2>1, UpRecursion
  <2> USE DEF m
  <2>2. f = [j \in 0 .. m |-> IF j = 0 THEN base ELSE up[j][f[j - 1]]]
    BY <2>0 DEF IsUp
  <2> DEFINE g == [i \in 1 .. n |-> f[n - i]]
  <2>3. g \in [1 .. n -> S]
    OBVIOUS
  <2>4. \A i \in 1 .. n : g[i] = IF i = n THEN base ELSE step[i][g[i + 1]]
    <3> SUFFICES ASSUME NEW i \in 1 .. n
                 PROVE  g[i] = IF i = n THEN base ELSE step[i][g[i + 1]]
      OBVIOUS
    <3>1. CASE i = n
      BY <2>2, <3>1
    <3>2. CASE i # n
      <4>1. n - i \in 1 .. n - 1 /\ n - i # 0 /\ n - i \in 0 .. n - 1
            /\ (n - i) - 1 = n - (i + 1) /\ n - (n - i) = i /\ i + 1 \in 1 .. n
        BY <3>2
      <4>2. f[n - i] = up[n - i][f[n - (i + 1)]]
        BY <2>2, <4>1
      <4>3. up[n - i] = step[i]
        BY <4>1 DEF up
      <4>4. g[i] = f[n - i] /\ g[i + 1] = f[n - (i + 1)]
        BY <4>1
      <4> QED BY <3>2, <4>2, <4>3, <4>4
    <3> QED BY <3>1, <3>2
  <2>5. g = [i \in 1 .. n |-> IF i = n THEN base ELSE step[i][g[i + 1]]]
    BY <2>4
  <2> HIDE DEF g
  <2> QED BY <2>3, <2>5 DEF IsDown
<1> QED BY <1>1, <1>2

\* The values of one stay in S if each step does.
LEMMA UpTyped ==
  ASSUME NEW n \in Nat, NEW S, NEW f, f[0] \in S,
         \A i \in 1 .. n : f[i - 1] \in S => f[i] \in S
  PROVE  \A i \in 0 .. n : f[i] \in S
<1> DEFINE T == {i \in 0 .. n : f[i] \in S}
<1>1. ASSUME NEW i \in 0 .. n - 1, i \in T PROVE i + 1 \in T
  <2>1. i + 1 \in 1 .. n /\ (i + 1) - 1 = i
    OBVIOUS
  <2> QED BY <1>1, <2>1
<1>2. 0 \in T
  OBVIOUS
<1> HIDE DEF T
<1>3. 0 .. n \subseteq T
  BY <1>1, <1>2, Upwards
<1> QED BY <1>3 DEF T

LEMMA DownTyped ==
  ASSUME NEW n \in Nat, NEW S, NEW f, n # 0 => f[n] \in S,
         \A i \in 1 .. n - 1 : f[i + 1] \in S => f[i] \in S
  PROVE  \A i \in 1 .. n : f[i] \in S
<1> DEFINE T == {i \in 1 .. n : f[i] \in S}
<1>1. CASE n = 0
  BY <1>1
<1>2. CASE n # 0
  <2>1. ASSUME NEW i \in 1 .. n - 1, i + 1 \in T PROVE i \in T
    BY <2>1
  <2>2. n \in T
    BY <1>2
  <2> HIDE DEF T
  <2>3. 1 .. n \subseteq T
    BY <2>1, <2>2, Downwards
  <2> QED BY <2>3 DEF T
<1> QED BY <1>1, <1>2
-----------------------------------------------------------------------------
(* Sizes and strides.                                                      *)

LEMMA Words ==
  ASSUME NEW x \in Nat
  PROVE  /\ Word32(x) \in Nat /\ Word32(x) <= x
         /\ Word64(x) \in Nat /\ Word64(x) <= x /\ Word64(x) < 2^Bits64
         /\ x < 2^Bits64 => Word64(x) = x
         /\ x < 2^Bits32 => Word32(x) = x
BY ShapeAssumption DEF Word32, Word64

LEMMA SizesAre ==
  ASSUME NEW dims \in Seq(Nat)
  PROVE  /\ Sizes(dims) \in [0 .. Len(dims) -> Nat]
         /\ Sizes(dims)[0] = 1
         /\ \A i \in 1 .. Len(dims) :
              Sizes(dims)[i] = Word64(Sizes(dims)[i - 1] * dims[i])
<1> DEFINE n == Len(dims)
           step == [i \in 1 .. n |-> [s \in Nat |-> Word64(s * dims[i])]]
           Is(g) == g = [i \in 0 .. n |-> IF i = 0 THEN 1
                                          ELSE Word64(g[i - 1] * dims[i])]
           f == CHOOSE g : Is(g)
<1>1. n \in Nat /\ \A i \in 1 .. n : dims[i] \in Nat
  OBVIOUS
<1>2. \A i \in 1 .. n, s \in Nat : Word64(s * dims[i]) \in Nat
  <2>1. \A i \in 1 .. n, s \in Nat : s * dims[i] \in Nat
    BY <1>1
  <2> QED BY <2>1, Words
<1>3. step \in [1 .. n -> [Nat -> Nat]]
  BY <1>2
<1>4. \A i \in 1 .. n, s \in Nat : step[i][s] = Word64(s * dims[i])
  OBVIOUS
<1>5. Sizes(dims) = f
  BY DEF Sizes
<1> HIDE DEF n, step
<1>6. \A i \in 0 .. n : i # 0 => i \in 1 .. n /\ i - 1 \in 0 .. n
  BY <1>1
<1>7. PICK g \in [0 .. n -> Nat] : IsUp(g, n, 1, step)
  BY <1>1, <1>3, UpRecursion
<1>8. Is(g)
  BY <1>4, <1>6, <1>7 DEF IsUp
<1>9. Is(f)
  BY <1>8
<1> HIDE DEF f
<1>10. f[0] = 1 /\ \A i \in 1 .. n : f[i] = Word64(f[i - 1] * dims[i])
  BY <1>1, <1>9
<1>11. \A i \in 1 .. n : f[i - 1] \in Nat => f[i] \in Nat
  BY <1>2, <1>10
<1>12. \A i \in 0 .. n : f[i] \in Nat
  <2>1. f[0] \in Nat
    BY <1>10
  <2> QED BY <1>1, <1>11, <2>1, UpTyped, Zenon
<1>13. f \in [0 .. n -> Nat]
  BY <1>9, <1>12
<1> QED BY <1>5, <1>10, <1>13 DEF n

LEMMA ProductsAre ==
  ASSUME NEW dims \in Seq(Nat)
  PROVE  /\ Products(dims) \in [0 .. Len(dims) -> Nat]
         /\ Products(dims)[0] = 1
         /\ \A i \in 1 .. Len(dims) :
              Products(dims)[i] = Products(dims)[i - 1] * dims[i]
<1> DEFINE n == Len(dims)
           step == [i \in 1 .. n |-> [s \in Nat |-> s * dims[i]]]
           Is(g) == g = [i \in 0 .. n |-> IF i = 0 THEN 1 ELSE g[i - 1] * dims[i]]
           f == CHOOSE g : Is(g)
<1>1. n \in Nat /\ \A i \in 1 .. n : dims[i] \in Nat
  OBVIOUS
<1>2. \A i \in 1 .. n, s \in Nat : s * dims[i] \in Nat
  BY <1>1
<1>3. step \in [1 .. n -> [Nat -> Nat]]
  BY <1>2
<1>4. \A i \in 1 .. n, s \in Nat : step[i][s] = s * dims[i]
  OBVIOUS
<1>5. Products(dims) = f
  BY DEF Products
<1> HIDE DEF n, step
<1>6. \A i \in 0 .. n : i # 0 => i \in 1 .. n /\ i - 1 \in 0 .. n
  BY <1>1
<1>7. PICK g \in [0 .. n -> Nat] : IsUp(g, n, 1, step)
  BY <1>1, <1>3, UpRecursion
<1>8. Is(g)
  BY <1>4, <1>6, <1>7 DEF IsUp
<1>9. Is(f)
  BY <1>8
<1> HIDE DEF f
<1>10. f[0] = 1 /\ \A i \in 1 .. n : f[i] = f[i - 1] * dims[i]
  BY <1>1, <1>9
<1>11. \A i \in 1 .. n : f[i - 1] \in Nat => f[i] \in Nat
  BY <1>2, <1>10
<1>12. \A i \in 0 .. n : f[i] \in Nat
  <2>1. f[0] \in Nat
    BY <1>10
  <2> QED BY <1>1, <1>11, <2>1, UpTyped, Zenon
<1>13. f \in [0 .. n -> Nat]
  BY <1>9, <1>12
<1> QED BY <1>5, <1>10, <1>13 DEF n

LEMMA StridesAre ==
  ASSUME NEW dims \in Seq(Nat)
  PROVE  /\ Strides(dims) \in [1 .. Len(dims) -> Nat]
         /\ dims # <<>> => Strides(dims)[Len(dims)] = 1
         /\ \A i \in 1 .. Len(dims) - 1 :
              Strides(dims)[i] = Word64(Strides(dims)[i + 1] * dims[i + 1])
<1> DEFINE n == Len(dims)
           step == [i \in 1 .. n |-> [s \in Nat |-> IF i = n THEN 1
                                                     ELSE Word64(s * dims[i + 1])]]
           Is(g) == g = [i \in 1 .. n |-> IF i = n THEN 1
                                          ELSE Word64(g[i + 1] * dims[i + 1])]
           f == CHOOSE g : Is(g)
<1>1. n \in Nat /\ \A i \in 1 .. n : dims[i] \in Nat
  OBVIOUS
<1>2. \A i \in 1 .. n, s \in Nat : i # n => Word64(s * dims[i + 1]) \in Nat
  <2>1. \A i \in 1 .. n, s \in Nat : i # n => s * dims[i + 1] \in Nat
    BY <1>1
  <2> QED BY <2>1, Words
<1>3. step \in [1 .. n -> [Nat -> Nat]]
  BY <1>2
<1>4. \A i \in 1 .. n, s \in Nat : i # n => step[i][s] = Word64(s * dims[i + 1])
  OBVIOUS
<1>5. Strides(dims) = f
  BY DEF Strides
<1> HIDE DEF step
<1>6. dims # <<>> => n # 0
  BY <1>1
<1> HIDE DEF n
<1>7. \A i \in 1 .. n : i # n => i + 1 \in 1 .. n
  BY <1>1
<1>8. PICK g \in [1 .. n -> Nat] : IsDown(g, n, 1, step)
  BY <1>1, <1>3, DownRecursion
<1>9. Is(g)
  BY <1>4, <1>7, <1>8 DEF IsDown
<1>10. Is(f)
  BY <1>9
<1> HIDE DEF f
<1>11. /\ n # 0 => f[n] = 1
       /\ \A i \in 1 .. n - 1 : f[i] = Word64(f[i + 1] * dims[i + 1])
  BY <1>1, <1>10
<1>12. \A i \in 1 .. n - 1 : f[i + 1] \in Nat => f[i] \in Nat
  <2> SUFFICES ASSUME NEW i \in 1 .. n - 1, f[i + 1] \in Nat PROVE f[i] \in Nat
    OBVIOUS
  <2>1. i \in 1 .. n /\ i # n
    BY <1>1
  <2>2. Word64(f[i + 1] * dims[i + 1]) \in Nat
    BY <1>2, <2>1
  <2> QED BY <1>11, <2>2
<1>13. \A i \in 1 .. n : f[i] \in Nat
  <2>1. n # 0 => f[n] \in Nat
    BY <1>11
  <2> QED BY <1>1, <1>12, <2>1, DownTyped, Zenon
<1>14. f \in [1 .. n -> Nat]
  BY <1>10, <1>13
<1> QED BY <1>5, <1>6, <1>11, <1>14 DEF n
-----------------------------------------------------------------------------
(* Arithmetic.                                                             *)

LEMMA TimesPositive ==
  ASSUME NEW x \in Nat, NEW y \in Nat
  PROVE  /\ x * y \in Nat
         /\ x # 0 /\ y # 0 <=> x * y # 0
         /\ x # 0 => y <= x * y
         /\ y # 0 => x <= x * y
OBVIOUS

LEMMA Transitive ==
  ASSUME NEW x \in Nat, NEW y \in Nat, NEW z \in Nat, x <= y, y <= z
  PROVE  x <= z
OBVIOUS

LEMMA TimesMonotone ==
  ASSUME NEW x \in Nat, NEW y \in Nat, NEW z \in Nat, x <= y
  PROVE  x * z <= y * z
OBVIOUS

\* A row and a column number an element below the product of their limits.
LEMMA RowColumn ==
  ASSUME NEW m \in Nat, NEW n \in Nat, NEW i \in Nat, NEW j \in Nat, i < m, j < n
  PROVE  i * n + j \in Nat /\ i * n + j < m * n
<1>1. (i + 1) * n <= m * n
  BY TimesMonotone
<1>2. (i + 1) * n = i * n + n
  OBVIOUS
<1> QED BY <1>1, <1>2

\* Division undoes it.
LEMMA Divide ==
  ASSUME NEW x \in Nat, NEW n \in Nat \ {0}
  PROVE  /\ x \div n \in Nat /\ x % n \in 0 .. n - 1
         /\ x = (x \div n) * n + (x % n)
OBVIOUS

LEMMA Remainder ==
  ASSUME NEW x \in Nat, NEW n \in Nat, x < n
  PROVE  x % n = x
OBVIOUS

LEMMA Quotient ==
  ASSUME NEW x \in Nat, NEW m \in Nat, NEW n \in Nat, x < m * n
  PROVE  n # 0 /\ x \div n \in Nat /\ x \div n < m
<1>1. n # 0
  OBVIOUS
<1>2. x \div n \in Nat /\ (x \div n) * n <= x
  BY <1>1, Divide
<1>3. ASSUME m <= x \div n PROVE FALSE
  BY <1>2, <1>3, TimesMonotone
<1> QED BY <1>1, <1>2, <1>3

LEMMA SameRowColumn ==
  ASSUME NEW n \in Nat, NEW i \in Nat, NEW j \in 0 .. n - 1, NEW k \in Nat,
         NEW l \in 0 .. n - 1, i * n + j = k * n + l
  PROVE  i = k /\ j = l
<1>1. ASSUME NEW x \in Nat, NEW y \in Nat, NEW u \in 0 .. n - 1, NEW v \in 0 .. n - 1,
             x < y
      PROVE  x * n + u < y * n + v
  <2>1. x * n + u < y * n
    BY <1>1, RowColumn
  <2> QED BY <2>1
<1>2. ~(i < k) /\ ~(k < i)
  BY <1>1
<1> QED BY <1>2

\* A digit and what is left of the index, each times its stride.
LEMMA DigitStep ==
  ASSUME NEW x \in Nat, NEW q \in Nat \ {0}, NEW s \in Nat
  PROVE  /\ x \div q \in Nat /\ x % q \in Nat
         /\ x * s \in Nat /\ (x \div q) * (s * q) \in Nat
         /\ (x \div q) * (s * q) + (x % q) * s = x * s
         /\ (x \div q) * (s * q) <= x * s
<1>1. ASSUME NEW a \in Nat, NEW r \in Nat, x = a * q + r
      PROVE  /\ x * s \in Nat /\ a * (s * q) \in Nat /\ r * s \in Nat
             /\ a * (s * q) + r * s = x * s
  BY <1>1
<1>2. /\ x \div q \in Nat /\ x % q \in Nat
      /\ x = (x \div q) * q + (x % q)
  BY Divide
<1> DEFINE a == x \div q
           r == x % q
<1> HIDE DEF a, r
<1>3. a \in Nat /\ r \in Nat /\ x = a * q + r
  BY <1>2 DEF a, r
<1>4. /\ x * s \in Nat /\ a * (s * q) \in Nat /\ r * s \in Nat
      /\ a * (s * q) + r * s = x * s
  BY ONLY <1>1, <1>3
<1>5. a * (s * q) <= x * s
  BY ONLY <1>4
<1> QED BY <1>3, <1>4, <1>5 DEF a, r
-----------------------------------------------------------------------------
(* Arrays whose size does not wrap.                                        *)

\* The products of the first dimensions of an array with elements are positive, and
\* its size fits in a word.
LEMMA ExactProducts ==
  ASSUME NEW dims \in Seq(Nat), NoWrap(dims)
  PROVE  /\ Elements(dims) \in Nat /\ Elements(dims) < 2^Bits64
         /\ Elements(dims) # 0 => \A i \in 0 .. Len(dims) : Products(dims)[i] # 0
<1> DEFINE n == Len(dims)
           P == Products(dims)
<1>1. n \in Nat
  OBVIOUS
<1>2. /\ P \in [0 .. n -> Nat] /\ P[0] = 1
      /\ \A i \in 1 .. n : P[i] = P[i - 1] * dims[i]
  BY ProductsAre
<1>3. Elements(dims) = P[n] /\ P[n] \in Nat
  BY <1>1, <1>2 DEF Elements
<1>4. Elements(dims) < 2^Bits64
  <2>1. CASE n = 0
    <3>1. Elements(dims) = 1
      BY <1>2, <1>3, <2>1
    <3> QED BY <3>1, ShapeAssumption
  <2>2. CASE n # 0
    <3>1. n \in 1 .. n /\ n - 1 \in 0 .. n
      BY <1>1, <2>2
    <3>2. Sizes(dims)[n - 1] * dims[n] \in Nat
      <4>1. Sizes(dims)[n - 1] \in Nat
        BY <3>1, SizesAre
      <4> QED BY <3>1, <4>1
    <3>3. Size(dims) = Word64(Sizes(dims)[n - 1] * dims[n])
      BY <3>1, SizesAre DEF Size
    <3> QED BY <3>2, <3>3, Words DEF NoWrap
  <2> QED BY <2>1, <2>2
<1>5. ASSUME Elements(dims) # 0 PROVE \A i \in 0 .. n : P[i] # 0
  <2> DEFINE T == {i \in 0 .. n : P[i] # 0}
  <2> SUFFICES \A i \in 1 .. n : P[i] # 0
    BY <1>2
  <2>1. ASSUME NEW i \in 1 .. n - 1, P[i + 1] # 0 PROVE P[i] # 0
    <3>1. i + 1 \in 1 .. n /\ (i + 1) - 1 = i
      BY <1>1
    <3>2. P[i + 1] = P[i] * dims[i + 1]
      BY <1>2, <3>1
    <3> QED BY <2>1, <3>1, <3>2
  <2> HIDE DEF P, n
  <2>2. 1 .. n \subseteq T
    <3>1. n # 0 => n \in T
      BY <1>1, <1>3, <1>5
    <3>2. ASSUME NEW i \in 1 .. n - 1, i + 1 \in T PROVE i \in T
      BY <1>1, <2>1, <3>2
    <3> HIDE DEF T
    <3>3. CASE n # 0
      BY <1>1, <3>1, <3>2, <3>3, Downwards
    <3>4. CASE n = 0
      BY <3>4
    <3> QED BY <3>3, <3>4
  <2> QED BY <2>2
<1> QED BY <1>3, <1>4, <1>5

\* The strides of such an array do not wrap: an index in the first i dimensions,
\* times the i-th stride, is an index in all of them.
LEMMA ExactStrides ==
  ASSUME NEW dims \in Seq(Nat), NoWrap(dims), Elements(dims) # 0
  PROVE  /\ \A i \in 1 .. Len(dims) :
              /\ Strides(dims)[i] \in Nat
              /\ Products(dims)[i] * Strides(dims)[i] = Elements(dims)
         /\ \A i \in 1 .. Len(dims) - 1 :
              Strides(dims)[i] = Strides(dims)[i + 1] * dims[i + 1]
<1> DEFINE n == Len(dims)
           P == Products(dims)
           s == Strides(dims)
           E == Elements(dims)
           T == {i \in 1 .. n : P[i] * s[i] = E}
<1>1. n \in Nat /\ \A i \in 1 .. n : dims[i] \in Nat
  OBVIOUS
<1>2. /\ P \in [0 .. n -> Nat]
      /\ \A i \in 1 .. n : P[i] = P[i - 1] * dims[i]
  BY ProductsAre
<1>3. /\ s \in [1 .. n -> Nat]
      /\ n # 0 => s[n] = 1
      /\ \A i \in 1 .. n - 1 : s[i] = Word64(s[i + 1] * dims[i + 1])
  BY StridesAre
<1>4. E \in Nat /\ E < 2^Bits64 /\ \A i \in 0 .. n : P[i] # 0
  BY ExactProducts
<1>5. P[n] = E
  BY DEF Elements
<1> HIDE DEF n, P, s, E
<1>6. ASSUME NEW i \in 1 .. n - 1, P[i + 1] * s[i + 1] = E
      PROVE  s[i] = s[i + 1] * dims[i + 1] /\ P[i] * s[i] = E
  <2>1. i + 1 \in 1 .. n /\ (i + 1) - 1 = i /\ i \in 0 .. n
    BY <1>1
  <2>2. s[i + 1] \in Nat /\ dims[i + 1] \in Nat /\ P[i] \in Nat /\ P[i] # 0
    <3>1. s[i + 1] \in Nat
      BY <1>3, <2>1
    <3>2. P[i] \in Nat /\ P[i] # 0
      BY <1>2, <1>4, <2>1
    <3>3. dims[i + 1] \in Nat
      BY <1>1, <2>1
    <3> QED BY <3>1, <3>2, <3>3
  <2>3. P[i + 1] = P[i] * dims[i + 1]
    BY <1>2, <2>1
  <2>4. P[i] * (s[i + 1] * dims[i + 1]) = E
    BY <1>6, <2>2, <2>3
  <2>5. s[i + 1] * dims[i + 1] \in Nat
    BY <2>2
  <2>6. s[i + 1] * dims[i + 1] <= E
    BY <2>2, <2>4, <2>5, TimesPositive
  <2>7. Word64(s[i + 1] * dims[i + 1]) = s[i + 1] * dims[i + 1]
    BY <1>4, <2>5, <2>6, Words, ShapeAssumption
  <2>8. s[i] = s[i + 1] * dims[i + 1]
    BY <1>3, <2>7
  <2> QED BY <2>4, <2>8
<1>7. n # 0 => n \in T
  <2>1. n # 0 => s[n] = 1 /\ n \in 1 .. n
    BY <1>1, <1>3
  <2> QED BY <1>4, <1>5, <2>1
<1>8. ASSUME NEW i \in 1 .. n - 1, i + 1 \in T PROVE i \in T
  BY <1>1, <1>6, <1>8
<1> HIDE DEF T
<1>9. 1 .. n \subseteq T
  <2>1. CASE n # 0
    BY <1>1, <1>7, <1>8, <2>1, Downwards
  <2>2. CASE n = 0
    BY <2>2
  <2> QED BY <2>1, <2>2
<1>10. \A i \in 1 .. n : P[i] * s[i] = E
  BY <1>9 DEF T
<1>11. \A i \in 1 .. n - 1 : s[i] = s[i + 1] * dims[i + 1]
  <2> SUFFICES ASSUME NEW i \in 1 .. n - 1 PROVE s[i] = s[i + 1] * dims[i + 1]
    OBVIOUS
  <2>1. i + 1 \in 1 .. n
    BY <1>1
  <2> QED BY <1>6, <1>10, <2>1
<1>12. \A i \in 1 .. n : s[i] \in Nat
  BY <1>3
<1> QED BY <1>10, <1>11, <1>12 DEF n, P, s, E

\* Arrays that agree in their first dimensions agree in those products.
LEMMA SameProducts ==
  ASSUME NEW dims \in Seq(Nat), NEW ems \in Seq(Nat), NEW n \in Nat,
         n <= Len(dims), n <= Len(ems), \A i \in 1 .. n : dims[i] = ems[i]
  PROVE  \A i \in 0 .. n : Products(dims)[i] = Products(ems)[i]
<1> DEFINE P == Products(dims)
           Q == Products(ems)
           T == {i \in 0 .. n : P[i] = Q[i]}
<1>1. P[0] = Q[0] /\ \A i \in 1 .. n : P[i] = P[i - 1] * dims[i] /\ Q[i] = Q[i - 1] * ems[i]
  BY ProductsAre
<1> HIDE DEF P, Q
<1>2. 0 \in T
  BY <1>1
<1>3. ASSUME NEW i \in 0 .. n - 1, i \in T PROVE i + 1 \in T
  <2>1. i + 1 \in 1 .. n /\ (i + 1) - 1 = i /\ i + 1 \in 0 .. n
    OBVIOUS
  <2> QED BY <1>1, <1>3, <2>1
<1> HIDE DEF T
<1>4. 0 .. n \subseteq T
  BY <1>2, <1>3, Upwards
<1> QED BY <1>4 DEF T, P, Q
-----------------------------------------------------------------------------
(* The batch index of a product.                                           *)

\* What is left of an index when the digits of the dimensions after d are taken.
IsRest(t, n, index, dims) ==
  /\ t \in [1 .. n -> Nat]
  /\ \A d \in 1 .. n : t[d] = IF d = n THEN index ELSE t[d + 1] \div dims[d + 1]

LEMMA BatchRestIs ==
  ASSUME NEW dims \in Seq(Nat), NEW n \in Nat \ {0}, Len(dims) = n + 2,
         \A d \in 1 .. n : dims[d] # 0, NEW batch \in Nat
  PROVE  IsRest(BatchRest(batch, dims), n, batch, dims)
<1> DEFINE step == [d \in 1 .. n |-> [t \in Nat |-> IF d = n THEN 0 ELSE t \div dims[d + 1]]]
           Is(g) == g = [d \in 1 .. n |-> IF d = n THEN batch ELSE g[d + 1] \div dims[d + 1]]
           f == CHOOSE g : Is(g)
<1>1. \A d \in 1 .. n : dims[d] \in Nat \ {0}
  OBVIOUS
<1>2. /\ \A d \in 1 .. n : d # n => d + 1 \in 1 .. n
      /\ \A d \in 1 .. n - 1 : d \in 1 .. n /\ d # n
      /\ n # 0 => n \in 1 .. n
  OBVIOUS
<1>3. \A d \in 1 .. n, t \in Nat : d # n => t \div dims[d + 1] \in Nat
  <2> SUFFICES ASSUME NEW d \in 1 .. n, NEW t \in Nat, d # n
               PROVE  t \div dims[d + 1] \in Nat
    OBVIOUS
  <2>1. dims[d + 1] \in Nat \ {0}
    BY <1>1, <1>2
  <2> QED BY <2>1, Divide
<1>4. step \in [1 .. n -> [Nat -> Nat]]
  BY <1>3
<1>5. \A d \in 1 .. n, t \in Nat : d # n => step[d][t] = t \div dims[d + 1]
  OBVIOUS
<1>6. BatchRest(batch, dims) = f
  BY DEF BatchRest
<1> HIDE DEF step
<1>7. PICK g \in [1 .. n -> Nat] : IsDown(g, n, batch, step)
  BY <1>4, DownRecursion
<1>8. Is(g)
  BY <1>2, <1>5, <1>7 DEF IsDown
<1>9. Is(f)
  BY <1>8
<1> HIDE DEF f
<1>10. \A d \in 1 .. n : f[d] = IF d = n THEN batch ELSE f[d + 1] \div dims[d + 1]
  BY <1>9
<1>11. \A d \in 1 .. n - 1 : f[d + 1] \in Nat => f[d] \in Nat
  <2> SUFFICES ASSUME NEW d \in 1 .. n - 1, f[d + 1] \in Nat PROVE f[d] \in Nat
    OBVIOUS
  <2>1. d \in 1 .. n /\ d # n
    BY <1>2
  <2>2. f[d + 1] \div dims[d + 1] \in Nat
    BY <1>3, <2>1, Zenon
  <2> QED BY <1>10, <2>1, <2>2, Zenon
<1>12. \A d \in 1 .. n : f[d] \in Nat
  <2>1. n # 0 => f[n] \in Nat
    BY <1>10
  <2> QED BY <1>11, <2>1, DownTyped, Zenon
<1>13. f \in [1 .. n -> Nat]
  BY <1>9, <1>12
<1> QED BY <1>6, <1>10, <1>13 DEF IsRest

\* Of an index t[n] in range, each rest t[d] is within the dimensions it is for, and
\* its offset stays below that of the whole index.
LEMMA RestsInRange ==
  ASSUME NEW n \in Nat \ {0},
         NEW q \in [1 .. n -> Nat \ {0}], NEW s \in [1 .. n -> Nat],
         NEW t \in [1 .. n -> Nat], NEW P \in [0 .. n -> Nat],
         P[0] = 1, \A d \in 1 .. n : P[d] = P[d - 1] * q[d], t[n] < P[n],
         \A d \in 1 .. n - 1 : s[d] = s[d + 1] * q[d + 1],
         \A d \in 1 .. n - 1 : t[d] = t[d + 1] \div q[d + 1]
  PROVE  /\ t[1] < q[1]
         /\ \A d \in 1 .. n : t[d] * s[d] \in Nat /\ t[d] * s[d] <= t[n] * s[n]
<1> DEFINE T == {d \in 1 .. n : t[d] < P[d] /\ t[d] * s[d] <= t[n] * s[n]}
<1>0. \A d \in 1 .. n : t[d] \in Nat /\ s[d] \in Nat /\ q[d] \in Nat \ {0}
  OBVIOUS
<1>1. n \in 1 .. n /\ t[n] * s[n] \in Nat
  BY <1>0
<1>2. n \in T
  BY <1>1
<1>3. ASSUME NEW d \in 1 .. n - 1, d + 1 \in T PROVE d \in T
  <2>1. d + 1 \in 1 .. n /\ (d + 1) - 1 = d /\ d \in 1 .. n /\ d \in 0 .. n
    OBVIOUS
  <2>2. /\ t[d + 1] \in Nat /\ s[d + 1] \in Nat /\ q[d + 1] \in Nat \ {0} /\ P[d] \in Nat
        /\ t[d] = t[d + 1] \div q[d + 1] /\ s[d] = s[d + 1] * q[d + 1]
        /\ P[d + 1] = P[d] * q[d + 1]
    BY <1>0, <2>1
  <2>3. t[d + 1] < P[d] * q[d + 1] /\ t[d + 1] * s[d + 1] <= t[n] * s[n]
    BY <1>3, <2>2
  <2> HIDE DEF T
  <2>4. t[d] < P[d]
    <3>1. t[d + 1] \div q[d + 1] < P[d]
      BY ONLY <2>2, <2>3, Quotient
    <3> QED BY <2>2, <3>1
  <2>5. t[d] * s[d] \in Nat /\ t[d] * s[d] <= t[d + 1] * s[d + 1] /\ t[d + 1] * s[d + 1] \in Nat
    <3> DEFINE u == t[d + 1]
               v == s[d + 1]
               w == q[d + 1]
    <3>1. u \in Nat /\ v \in Nat /\ w \in Nat \ {0} /\ t[d] = u \div w /\ s[d] = v * w
      BY <2>2
    <3> HIDE DEF u, v, w
    <3>2. /\ (u \div w) * (v * w) \in Nat /\ u * v \in Nat
          /\ (u \div w) * (v * w) <= u * v
      BY ONLY <3>1, DigitStep
    <3>3. t[d] * s[d] \in Nat /\ t[d] * s[d] <= u * v /\ u * v \in Nat
      BY ONLY <3>1, <3>2, Zenon
    <3> QED BY <3>3 DEF u, v
  <2>6. t[d] * s[d] <= t[n] * s[n]
    BY ONLY <1>1, <2>3, <2>5, Transitive, Zenon
  <2> QED BY <2>1, <2>4, <2>6 DEF T
<1> HIDE DEF T
<1>4. 1 .. n \subseteq T
  BY <1>2, <1>3, Downwards
<1>5. t[1] < q[1]
  <2>1. 1 \in T /\ 1 \in 1 .. n /\ 1 - 1 = 0
    BY <1>4
  <2>2. t[1] < P[1] /\ P[1] = P[0] * q[1]
    BY <2>1 DEF T
  <2> QED BY <1>0, <2>1, <2>2
<1>6. \A d \in 1 .. n : t[d] * s[d] \in Nat
  BY <1>0
<1> QED BY <1>4, <1>5, <1>6 DEF T

\* The digits, each times its stride, add up to the offset of the whole index.
LEMMA SumOfDigits ==
  ASSUME NEW n \in Nat \ {0},
         NEW q \in [1 .. n -> Nat \ {0}], NEW s \in [1 .. n -> Nat],
         NEW t \in [1 .. n -> Nat],
         t[1] < q[1],
         \A d \in 1 .. n : t[d] * s[d] \in Nat /\ t[d] * s[d] <= t[n] * s[n],
         \A d \in 1 .. n - 1 : s[d] = s[d + 1] * q[d + 1],
         \A d \in 1 .. n - 1 : t[d] = t[d + 1] \div q[d + 1],
         t[n] * s[n] < 2^Bits64,
         NEW f, f[0] = 0,
         \A d \in 1 .. n : f[d] = Word64(f[d - 1] + (t[d] % q[d]) * s[d])
  PROVE  f[n] = t[n] * s[n]
<1> DEFINE T == {d \in 0 .. n : d # 0 => f[d] = t[d] * s[d]}
<1>0. \A d \in 1 .. n : t[d] \in Nat /\ s[d] \in Nat /\ q[d] \in Nat \ {0}
  OBVIOUS
<1>1. ASSUME NEW d \in 1 .. n, t[d] * s[d] = f[d - 1] + (t[d] % q[d]) * s[d]
      PROVE  f[d] = t[d] * s[d]
  <2>1. t[n] * s[n] \in Nat /\ t[d] * s[d] \in Nat /\ t[d] * s[d] <= t[n] * s[n]
    BY <1>0
  <2>2. t[d] * s[d] < 2^Bits64
    <3> DEFINE x == t[d] * s[d]
               y == t[n] * s[n]
    <3>1. x \in Nat /\ y \in Nat /\ x <= y /\ y < 2^Bits64 /\ 2^Bits64 \in Nat
      BY <2>1, ShapeAssumption
    <3> HIDE DEF x, y
    <3>2. x < 2^Bits64
      BY ONLY <3>1
    <3> QED BY <3>2 DEF x
  <2>3. f[d] = Word64(t[d] * s[d])
    BY <1>1, Zenon
  <2>4. Word64(t[d] * s[d]) = t[d] * s[d]
    BY <2>1, <2>2, Words, Zenon
  <2> QED BY <2>3, <2>4, Zenon
<1>2. 0 \in T
  OBVIOUS
<1>3. ASSUME NEW d \in 0 .. n - 1, d \in T PROVE d + 1 \in T
  <2>1. d + 1 \in 1 .. n /\ (d + 1) - 1 = d /\ d + 1 \in 0 .. n
    OBVIOUS
  <2>2. t[d + 1] \in Nat /\ s[d + 1] \in Nat /\ q[d + 1] \in Nat \ {0}
    BY <1>0, <2>1
  <2>3. CASE d = 0
    <3>1. 1 \in 1 .. n /\ t[1] \in Nat /\ q[1] \in Nat /\ t[1] < q[1] /\ s[1] \in Nat
      BY <1>0
    <3>2. t[1] % q[1] = t[1]
      BY <3>1, Remainder
    <3>3. f[1 - 1] = 0 /\ t[1] * s[1] \in Nat
      BY <3>1
    <3>5. t[1] * s[1] = f[1 - 1] + t[1] * s[1]
      BY ONLY <3>3
    <3>4. f[1] = t[1] * s[1]
      BY <1>1, <3>1, <3>2, <3>5
    <3> QED BY <2>1, <2>3, <3>4
  <2>4. CASE d # 0
    <3>1. d \in 1 .. n - 1 /\ d \in 1 .. n /\ f[d] = t[d] * s[d]
      BY <1>3, <2>4
    <3>2. t[d] = t[d + 1] \div q[d + 1] /\ s[d] = s[d + 1] * q[d + 1]
      BY <3>1
    <3>3. t[d] * s[d] + (t[d + 1] % q[d + 1]) * s[d + 1] = t[d + 1] * s[d + 1]
      <4>1. (t[d + 1] \div q[d + 1]) * (s[d + 1] * q[d + 1])
              + (t[d + 1] % q[d + 1]) * s[d + 1] = t[d + 1] * s[d + 1]
        BY ONLY <2>2, DigitStep
      <4> QED BY <3>2, <4>1, Zenon
    <3>4. f[d + 1] = t[d + 1] * s[d + 1]
      BY <1>1, <2>1, <3>1, <3>3
    <3> QED BY <2>1, <3>4
  <2> QED BY <2>3, <2>4
<1> HIDE DEF T
<1>4. 0 .. n \subseteq T
  BY <1>2, <1>3, Upwards
<1> QED BY <1>4 DEF T

LEMMA BatchOffsetIs ==
  ASSUME NEW dims \in Seq(Nat), NEW n \in Nat \ {0}, Len(dims) = n + 2,
         \A d \in 1 .. n : dims[d] # 0,
         NEW batch \in Nat, batch < Products(dims)[n],
         NEW strides, \A d \in 1 .. n : strides[d] \in Nat,
         \A d \in 1 .. n - 1 : strides[d] = strides[d + 1] * dims[d + 1],
         batch * strides[n] < 2^Bits64
  PROVE  BatchOffset(batch, dims, strides) = batch * strides[n]
<1> DEFINE t == BatchRest(batch, dims)
           q == [d \in 1 .. n |-> dims[d]]
           s == [d \in 1 .. n |-> strides[d]]
           P == [d \in 0 .. n |-> Products(dims)[d]]
           step == [d \in 1 .. n |-> [x \in Nat |-> Word64(x + (t[d] % q[d]) * s[d])]]
           Is(g) == g = [d \in 0 .. n |-> IF d = 0 THEN 0
                           ELSE Word64(g[d - 1] + (t[d] % dims[d]) * strides[d])]
           f == CHOOSE g : Is(g)
<1>1. /\ q \in [1 .. n -> Nat \ {0}] /\ s \in [1 .. n -> Nat]
      /\ \A d \in 1 .. n : q[d] = dims[d] /\ s[d] = strides[d]
  OBVIOUS
<1>2. /\ \A d \in 1 .. n - 1 : d \in 1 .. n /\ d + 1 \in 1 .. n
      /\ \A d \in 0 .. n : d # 0 => d \in 1 .. n /\ d - 1 \in 0 .. n
      /\ n \in 1 .. n /\ n \in 0 .. n
  OBVIOUS
<1>3. /\ t \in [1 .. n -> Nat] /\ t[n] = batch
      /\ \A d \in 1 .. n - 1 : t[d] = t[d + 1] \div dims[d + 1]
  <2>1. n \in Nat /\ n # 0 /\ \A d \in 1 .. n : dims[d] # 0
    OBVIOUS
  <2> HIDE DEF t, q, s, P
  <2>2. IsRest(t, n, batch, dims)
    BY <2>1, BatchRestIs DEF t
  <2>3. t \in [1 .. n -> Nat]
    BY <2>2 DEF IsRest
  <2>4. \A d \in 1 .. n : t[d] = IF d = n THEN batch ELSE t[d + 1] \div dims[d + 1]
    BY <2>2 DEF IsRest
  <2>5. \A d \in 1 .. n - 1 : d \in 1 .. n /\ d # n
    BY <1>2
  <2> QED BY <1>2, <2>3, <2>4, <2>5
<1>4. P \in [0 .. n -> Nat] /\ P[0] = 1 /\ \A d \in 1 .. n : P[d] = P[d - 1] * dims[d]
  <2>1. /\ Products(dims) \in [0 .. Len(dims) -> Nat] /\ Products(dims)[0] = 1
        /\ \A d \in 1 .. Len(dims) : Products(dims)[d] = Products(dims)[d - 1] * dims[d]
    BY ProductsAre
  <2>2. Len(dims) = n + 2 /\ n \in Nat
    OBVIOUS
  <2>3. \A d \in 0 .. n : P[d] = Products(dims)[d] /\ d \in 0 .. Len(dims)
    BY <2>2
  <2>4. \A d \in 1 .. n : d \in 0 .. n /\ d - 1 \in 0 .. n /\ d \in 1 .. Len(dims)
    BY <2>2
  <2>5. P \in [0 .. n -> Nat]
    BY <2>1, <2>3
  <2>6. 0 \in 0 .. n
    BY <2>2
  <2> HIDE DEF P
  <2> QED BY <2>1, <2>3, <2>4, <2>5, <2>6
<1>5. t[n] < P[n]
  BY <1>2, <1>3
<1>6. BatchOffset(batch, dims, strides) = f[n]
  BY DEF BatchOffset
<1> HIDE DEF t, q, s, P
<1>7. Is(f)
  <2>1. \A d \in 1 .. n, x \in Nat : Word64(x + (t[d] % q[d]) * s[d]) \in Nat
    <3> SUFFICES ASSUME NEW d \in 1 .. n, NEW x \in Nat
                 PROVE  Word64(x + (t[d] % q[d]) * s[d]) \in Nat
      OBVIOUS
    <3>1. t[d] \in Nat /\ q[d] \in Nat \ {0} /\ s[d] \in Nat
      BY <1>1, <1>3
    <3>2. t[d] % q[d] \in Nat
      BY ONLY <3>1, DigitStep
    <3>3. (t[d] % q[d]) * s[d] \in Nat
      BY ONLY <3>1, <3>2, TimesPositive
    <3>4. x + (t[d] % q[d]) * s[d] \in Nat
      BY <3>3
    <3> QED BY <3>4, Words
  <2>2. step \in [1 .. n -> [Nat -> Nat]]
    BY <2>1
  <2>3. \A d \in 1 .. n, x \in Nat :
          step[d][x] = Word64(x + (t[d] % dims[d]) * strides[d])
    BY <1>1
  <2> HIDE DEF step
  <2>4. PICK g \in [0 .. n -> Nat] : IsUp(g, n, 0, step)
    BY <2>2, UpRecursion
  <2>5. \A d \in 0 .. n : g[d] \in Nat
    OBVIOUS
  <2>6. \A d \in 0 .. n :
          g[d] = IF d = 0 THEN 0 ELSE Word64(g[d - 1] + (t[d] % dims[d]) * strides[d])
    BY <1>2, <2>3, <2>4, <2>5 DEF IsUp
  <2>7. Is(g)
    BY <2>6
  <2> QED BY <2>7
<1> HIDE DEF f
<1>8. f[0] = 0 /\ \A d \in 1 .. n : f[d] = Word64(f[d - 1] + (t[d] % q[d]) * s[d])
  <2>1. 0 \in 0 .. n /\ \A d \in 1 .. n : d \in 0 .. n /\ d # 0
    OBVIOUS
  <2>2. \A d \in 0 .. n :
          f[d] = IF d = 0 THEN 0 ELSE Word64(f[d - 1] + (t[d] % dims[d]) * strides[d])
    BY <1>7
  <2> QED BY <1>1, <2>1, <2>2
<1>9. /\ \A d \in 1 .. n - 1 : s[d] = s[d + 1] * q[d + 1]
      /\ \A d \in 1 .. n - 1 : t[d] = t[d + 1] \div q[d + 1]
      /\ \A d \in 1 .. n : P[d] = P[d - 1] * q[d]
  BY <1>1, <1>2, <1>3, <1>4
<1>10. /\ t[1] < q[1]
       /\ \A d \in 1 .. n : t[d] * s[d] \in Nat /\ t[d] * s[d] <= t[n] * s[n]
  BY ONLY n \in Nat \ {0}, <1>1, <1>3, <1>4, <1>5, <1>9, RestsInRange
<1>11. t[n] * s[n] < 2^Bits64 /\ t[n] * s[n] = batch * strides[n]
  BY <1>1, <1>2, <1>3
<1>12. f[n] = t[n] * s[n]
  <2>1. q \in [1 .. n -> Nat \ {0}] /\ s \in [1 .. n -> Nat] /\ t \in [1 .. n -> Nat]
    BY <1>1, <1>3
  <2>2. t[n] * s[n] < 2^Bits64
    BY <1>11
  <2>3. /\ \A d \in 1 .. n - 1 : s[d] = s[d + 1] * q[d + 1]
        /\ \A d \in 1 .. n - 1 : t[d] = t[d + 1] \div q[d + 1]
    BY <1>9
  <2> QED
    BY ONLY n \in Nat \ {0}, <2>1, <2>2, <2>3, <1>8, <1>10, SumOfDigits, ZenonT(60)
<1> QED BY <1>6, <1>11, <1>12

\* A product without batch dimensions.
LEMMA NoBatchOffset ==
  ASSUME NEW dims \in Seq(Nat), Len(dims) = 2, NEW batch, NEW strides
  PROVE  BatchOffset(batch, dims, strides) = 0
<1> DEFINE t == BatchRest(batch, dims)
           Is(n, g) == g = [d \in 0 .. n |-> IF d = 0 THEN 0
                              ELSE Word64(g[d - 1] + (t[d] % dims[d]) * strides[d])]
           f == CHOOSE g : Is(Len(dims) - 2, g)
<1>1. BatchOffset(batch, dims, strides) = f[Len(dims) - 2]
  BY DEF BatchOffset
<1>2. Len(dims) - 2 = 0
  OBVIOUS
<1>3. Is(0, [d \in 0 .. 0 |-> 0])
  OBVIOUS
<1>4. Is(0, f)
  BY <1>2, <1>3
<1>5. f[0] = 0
  BY <1>4
<1> HIDE DEF f
<1> QED BY <1>1, <1>2, <1>5

\* An array is so many matrices.
LEMMA MatrixElements ==
  ASSUME NEW dims \in Seq(Nat), NEW n \in Nat, Len(dims) = n + 2
  PROVE  /\ dims[n + 1] \in Nat /\ dims[n + 2] \in Nat /\ Products(dims)[n] \in Nat
         /\ Elements(dims) = Products(dims)[n] * (dims[n + 1] * dims[n + 2])
<1> DEFINE P == Products(dims)
<1>1. /\ n + 1 \in 1 .. n + 2 /\ n + 2 \in 1 .. n + 2 /\ n \in 0 .. n + 2
      /\ (n + 1) - 1 = n /\ (n + 2) - 1 = n + 1
  OBVIOUS
<1>2. P \in [0 .. n + 2 -> Nat] /\ \A d \in 1 .. n + 2 : P[d] = P[d - 1] * dims[d]
  BY ProductsAre
<1>3. Elements(dims) = P[n + 2]
  BY DEF Elements
<1>4. dims[n + 1] \in Nat /\ dims[n + 2] \in Nat
  BY <1>1
<1> HIDE DEF P
<1>5. P[n + 1] = P[n] * dims[n + 1] /\ P[n + 2] = P[n + 1] * dims[n + 2] /\ P[n] \in Nat
  BY <1>1, <1>2
<1>6. P[n + 2] = P[n] * (dims[n + 1] * dims[n + 2])
  BY <1>4, <1>5
<1> QED BY <1>3, <1>4, <1>5, <1>6 DEF P

IsElement(dims, ems, n, batch, i, j) ==
  LET at == batch * (dims[n + 1] * dims[n + 2]) + (i * dims[n + 2] + j)
  IN  /\ at \in 0 .. Elements(dims) - 1
      /\ Word64(BatchOffset(batch, ems, Strides(dims))
                  + i * Strides(dims)[n + 1] + j * Strides(dims)[n + 2]) = at

\* Where a matrix of a batch has the element in row i and column j.  The digits of the
\* batch index are those of other dimensions that agree.
LEMMA BatchElement ==
  ASSUME NEW dims \in Seq(Nat), NoWrap(dims), Elements(dims) # 0,
         NEW n \in Nat, Len(dims) = n + 2,
         NEW ems \in Seq(Nat), Len(ems) = n + 2, \A d \in 1 .. n : ems[d] = dims[d],
         NEW batch \in Nat, batch < Products(dims)[n],
         NEW i \in Nat, i < dims[n + 1], NEW j \in Nat, j < dims[n + 2]
  PROVE  IsElement(dims, ems, n, batch, i, j)
<1> DEFINE rows == dims[n + 1]
           cols == dims[n + 2]
           s == Strides(dims)
           P == Products(dims)
           E == Elements(dims)
           at == batch * (rows * cols) + (i * cols + j)
<1>1. rows \in Nat /\ cols \in Nat
  BY n + 1 \in 1 .. Len(dims), n + 2 \in 1 .. Len(dims)
<1>2. P \in [0 .. n + 2 -> Nat] /\ \A d \in 1 .. n + 2 : P[d] = P[d - 1] * dims[d]
  BY ProductsAre
<1>3. P[n + 1] = P[n] * rows /\ P[n + 2] = P[n + 1] * cols /\ P[n] \in Nat
  <2>1. /\ n + 1 \in 1 .. n + 2 /\ n + 2 \in 1 .. n + 2 /\ n \in 0 .. n + 2
        /\ (n + 1) - 1 = n /\ (n + 2) - 1 = n + 1
    OBVIOUS
  <2> HIDE DEF P
  <2> QED BY <1>2, <2>1
<1>4. E = P[n] * (rows * cols)
  <2>1. E = P[n + 2]
    BY DEF Elements
  <2> HIDE DEF rows, cols, P, E
  <2> QED BY <1>1, <1>3, <2>1
<1>5. /\ \A d \in 1 .. n + 2 : s[d] \in Nat
      /\ s[n + 2] = 1
      /\ \A d \in 1 .. n + 1 : s[d] = s[d + 1] * dims[d + 1]
  <2>1. dims # <<>> /\ (n + 2) - 1 = n + 1
    OBVIOUS
  <2>2. s[n + 2] = 1
    BY <2>1, StridesAre
  <2> QED BY <2>1, <2>2, ExactStrides
<1>6. E \in Nat /\ E < 2^Bits64 /\ \A d \in 0 .. n + 2 : P[d] # 0
  BY ExactProducts
<1> HIDE DEF rows, cols, s, P, E
<1>7. s[n + 1] = cols
  <2>1. n + 1 \in 1 .. n + 1 /\ (n + 1) + 1 = n + 2
    OBVIOUS
  <2> QED BY <1>1, <1>5, <2>1 DEF cols
<1>8. i * cols + j \in Nat /\ i * cols + j < rows * cols /\ rows * cols \in Nat
  <2>1. i < rows /\ j < cols
    BY DEF rows, cols
  <2> QED BY <1>1, <2>1, RowColumn, TimesPositive
<1>9. at \in Nat /\ at < E /\ batch * (rows * cols) \in Nat /\ batch * (rows * cols) <= at
  <2>1. batch < P[n]
    BY DEF P
  <2>2. at \in Nat /\ at < P[n] * (rows * cols)
    BY <1>3, <1>8, <2>1, RowColumn
  <2>3. batch * (rows * cols) \in Nat
    BY <1>8, TimesPositive
  <2> QED BY <1>4, <1>8, <2>2, <2>3
<1>10. BatchOffset(batch, ems, s) = batch * (rows * cols)
  <2>1. CASE n = 0
    <3>1. batch = 0
      <4>1. P[0] = 1
        BY ProductsAre DEF P
      <4>2. batch < P[0]
        BY <2>1 DEF P
      <4> QED BY ONLY batch \in Nat, <4>1, <4>2
    <3>2. BatchOffset(batch, ems, s) = 0
      BY <2>1, NoBatchOffset
    <3> QED BY <1>8, <3>1, <3>2
  <2>2. CASE n # 0
    <3>1. s[n] = rows * cols
      <4>1. n \in 1 .. n + 1
        BY <2>2
      <4>2. s[n] = s[n + 1] * dims[n + 1]
        BY <1>5, <4>1
      <4>3. s[n + 1] = cols
        BY <1>7
      <4>4. dims[n + 1] = rows
        BY DEF rows
      <4>5. s[n] = cols * rows
        BY <4>2, <4>3, <4>4
      <4> QED BY ONLY <1>1, <4>5
    <3>2. \A d \in 0 .. n : P[d] = Products(ems)[d]
      <4>1. n <= Len(dims) /\ n <= Len(ems) /\ \A d \in 1 .. n : dims[d] = ems[d]
        OBVIOUS
      <4> QED BY <4>1, SameProducts DEF P
    <3>3. batch < Products(ems)[n]
      BY <3>2 DEF P
    <3>4. \A d \in 1 .. n : ems[d] # 0
      <4> SUFFICES ASSUME NEW d \in 1 .. n PROVE dims[d] # 0
        OBVIOUS
      <4>1. d \in 1 .. n + 2 /\ d \in 0 .. n + 2 /\ d - 1 \in 0 .. n + 2
        OBVIOUS
      <4>2. P[d] = P[d - 1] * dims[d] /\ P[d] # 0 /\ P[d - 1] \in Nat
        BY <1>2, <1>6, <4>1
      <4> QED BY <4>2
    <3>5. \A d \in 1 .. n : s[d] \in Nat
      BY <1>5
    <3>6. \A d \in 1 .. n - 1 : s[d] = s[d + 1] * ems[d + 1]
      <4> SUFFICES ASSUME NEW d \in 1 .. n - 1 PROVE s[d] = s[d + 1] * ems[d + 1]
        OBVIOUS
      <4>1. d \in 1 .. n + 1 /\ d + 1 \in 1 .. n
        OBVIOUS
      <4> QED BY <1>5, <4>1
    <3>7. batch * s[n] < 2^Bits64
      <4> DEFINE place == batch * (rows * cols)
      <4>1. place \in Nat /\ place <= at /\ at \in Nat /\ at < E
        BY <1>9
      <4> HIDE DEF place
      <4>2. E \in Nat /\ E < 2^Bits64
        BY <1>6
      <4> HIDE DEF at, E
      <4>3. place < 2^Bits64
        <5>1. 2^Bits64 \in Nat
          BY ShapeAssumption
        <5> QED BY ONLY <4>1, <4>2, <5>1
      <4> QED BY <3>1, <4>3, Zenon DEF place
    <3>8. n \in Nat \ {0}
      BY <2>2
    <3>9. BatchOffset(batch, ems, s) = batch * s[n]
      BY <3>3, <3>4, <3>5, <3>6, <3>7, <3>8, BatchOffsetIs, ZenonT(30)
    <3> QED BY <3>1, <3>9
  <2> QED BY <2>1, <2>2
<1>11. BatchOffset(batch, ems, s) + i * s[n + 1] + j * s[n + 2] = at
  BY <1>1, <1>5, <1>7, <1>8, <1>9, <1>10
<1>12. Word64(at) = at
  BY <1>6, <1>9, Words, ShapeAssumption
<1>13. at \in 0 .. E - 1
  BY <1>6, <1>9
<1> QED BY <1>11, <1>12, <1>13 DEF rows, cols, s, P, E, IsElement
-----------------------------------------------------------------------------
(* What each thread stores and reads is within its arrays.                  *)

WithinOperands(c, reads) ==
  \A r \in reads : \/ r[1] = "a" /\ r[2] \in 0 .. Size(c.a) - 1
                   \/ r[1] = "b" /\ r[2] \in 0 .. Size(c.b) - 1

Within(c, s) == /\ s.to \in 0 .. Size(ResultDims(c)) - 1
                /\ WithinOperands(c, s.reads)

LEMMA SizeIsNat ==
  ASSUME NEW dims \in Seq(Nat)
  PROVE  Size(dims) \in Nat
BY SizesAre, Len(dims) \in 0 .. Len(dims) DEF Size

\* What operator* checks.
Multipliable(c) ==
  /\ Size(c.a) # 0 /\ Size(c.b) # 0 /\ Size(ResultDims(c)) # 0
  /\ Len(c.a) = Len(c.b)
  /\ \A d \in 1 .. Len(c.a) - 2 : c.a[d] = c.b[d]
  /\ K(c) = c.b[Len(c.b) - 1]

\* Row i of one matrix of a batch, and column j of another: where their elements are.
RowByColumn(c, batch, i, j) ==
  [k \in 0 .. K(c) - 1 |-> <<batch * (M(c) * K(c)) + (i * K(c) + k),
                            batch * (K(c) * N(c)) + (k * N(c) + j)>>]

LEMMA BatchedStores ==
  ASSUME NEW c, WellFormed(c), c.op = "batched", Multipliable(c), SizesFit(c),
         NEW x \in Nat, NEW s \in Batched(c, x)
  PROVE  /\ s.to = x /\ Within(c, s)
         /\ s.value = RowByColumn(c, x \div (M(c) * N(c)), (x % (M(c) * N(c))) \div N(c),
                                  (x % (M(c) * N(c))) % N(c))
<1> DEFINE n == Len(c.a) - 2
           m == M(c)
           kk == K(c)
           nn == N(c)
           r == ResultDims(c)
<1>1. /\ c.a \in Seq(Nat) /\ Len(c.a) = n + 2 /\ n \in Nat
      /\ c.b \in Seq(Nat) /\ Len(c.b) = n + 2
      /\ c.a[n + 1] = m /\ c.a[n + 2] = kk /\ c.b[n + 1] = kk /\ c.b[n + 2] = nn
      /\ m \in Nat /\ kk \in Nat /\ nn \in Nat
      /\ \A d \in 1 .. n : c.a[d] \in Nat /\ c.b[d] = c.a[d]
  <2>1. /\ c.a \in Seq(Nat) /\ Len(c.a) = n + 2 /\ n \in Nat
        /\ c.b \in Seq(Nat) /\ Len(c.b) = n + 2
    BY DEF WellFormed, Multipliable
  <2>2. n + 1 \in 1 .. n + 2 /\ n + 2 \in 1 .. n + 2 /\ n + 1 = Len(c.a) - 1 /\ n + 2 = Len(c.a)
        /\ n + 1 = Len(c.b) - 1 /\ n + 2 = Len(c.b)
    <3> HIDE DEF n
    <3>1. n + 1 = (n + 2) - 1 /\ n + 1 \in 1 .. n + 2 /\ n + 2 \in 1 .. n + 2
      BY <2>1
    <3> QED BY <2>1, <3>1, Zenon
  <2>3. /\ c.a[n + 1] = m /\ c.a[n + 2] = kk /\ c.b[n + 1] = kk /\ c.b[n + 2] = nn
    <3>1. K(c) = c.b[Len(c.b) - 1]
      BY DEF Multipliable
    <3> HIDE DEF n
    <3>2. M(c) = c.a[n + 1] /\ K(c) = c.a[n + 2] /\ N(c) = c.b[n + 2]
      BY <2>2, Zenon DEF M, K, N, Last
    <3> QED BY <2>2, <3>1, <3>2
  <2>4. \A d \in 1 .. n + 2 : c.a[d] \in Nat /\ c.b[d] \in Nat
    <3> HIDE DEF n
    <3>1. \A d \in 1 .. n + 2 : c.a[d] \in Nat
      BY ONLY <2>1, SMT
    <3>2. \A d \in 1 .. n + 2 : c.b[d] \in Nat
      BY ONLY <2>1, SMT
    <3> QED BY <3>1, <3>2, Zenon
  <2>5. \A d \in 1 .. n : c.b[d] = c.a[d] /\ d \in 1 .. n + 2
    <3>1. \A d \in 1 .. n : c.b[d] = c.a[d]
      BY ONLY Multipliable(c), SMT DEF Multipliable
    <3> HIDE DEF n
    <3>2. \A d \in 1 .. n : d \in 1 .. n + 2
      BY ONLY <2>1
    <3> QED BY <3>1, <3>2, Zenon
  <2> HIDE DEF n, m, kk, nn
  <2>6. m \in Nat /\ kk \in Nat /\ nn \in Nat
    BY <2>2, <2>3, <2>4, Zenon
  <2>7. \A d \in 1 .. n : c.a[d] \in Nat /\ c.b[d] = c.a[d]
    BY <2>4, <2>5, Zenon
  <2> QED BY <2>1, <2>3, <2>6, <2>7, Zenon
<1>2. /\ r \in Seq(Nat) /\ Len(r) = n + 2 /\ r[n + 1] = m /\ r[n + 2] = nn
      /\ \A d \in 1 .. n : r[d] = c.a[d]
  <2>1. r = [c.a EXCEPT ![Len(c.a)] = nn]
    BY ONLY c.op = "batched", SMT DEF ResultDims
  <2> DEFINE a == c.a
             u == n + 2
  <2> HIDE DEF r, n, m, kk, nn, a
  <2>2. /\ a \in Seq(Nat) /\ u \in Nat \ {0} /\ Len(a) = u /\ nn \in Nat /\ r = [a EXCEPT ![u] = nn]
        /\ n + 1 \in 1 .. u /\ n + 1 # u /\ a[n + 1] = m
        /\ \A d \in 1 .. n : d \in 1 .. u /\ d # u
    BY <1>1, <2>1 DEF a
  <2> HIDE DEF u
  <2>3. r \in Seq(Nat) /\ Len(r) = u /\ r[u] = nn /\ \A d \in 1 .. u : d # u => r[d] = a[d]
    BY ONLY <2>2
  <2> QED BY ONLY <2>2, <2>3 DEF a, u
<1>3. /\ NoWrap(c.a) /\ NoWrap(c.b) /\ NoWrap(r)
      /\ Elements(c.a) = Size(c.a) /\ Elements(c.b) = Size(c.b) /\ Elements(r) = Size(r)
      /\ Elements(c.a) # 0 /\ Elements(c.b) # 0 /\ Elements(r) # 0
  BY DEF SizesFit, Multipliable, NoWrap
<1> DEFINE q == Products(r)[n]
           w == m * nn
           batch == x \div w
           local == x % w
           i == local \div nn
           j == local % nn
<1>4. /\ \A d \in 0 .. n : Products(c.a)[d] = Products(r)[d]
      /\ \A d \in 0 .. n : Products(c.b)[d] = Products(r)[d]
  <2>1. n <= Len(c.a) /\ n <= Len(c.b) /\ n <= Len(r)
    <3> HIDE DEF n, r
    <3> QED BY <1>1, <1>2
  <2>2. /\ \A d \in 1 .. n : c.a[d] = r[d]
        /\ \A d \in 1 .. n : c.b[d] = r[d]
    <3> HIDE DEF n, r
    <3> QED BY <1>1, <1>2
  <2> HIDE DEF n, r
  <2> QED BY <1>1, <1>2, <2>1, <2>2, SameProducts
<1>5. q \in Nat /\ Products(c.a)[n] = q /\ Products(c.b)[n] = q
  <2>1. n \in 0 .. n /\ n \in 0 .. n + 2
    <3> HIDE DEF n
    <3> QED BY <1>1
  <2>2. Products(r) \in [0 .. n + 2 -> Nat]
    <3> HIDE DEF n, r
    <3> QED BY <1>2, ProductsAre
  <2> HIDE DEF n, r
  <2> QED BY <1>4, <2>1, <2>2
<1>6. x < q * w /\ Size(r) = q * w
  <2>1. x < Size(r)
    <3>1. Size(r) \in Nat
      <4> HIDE DEF r
      <4> QED BY <1>2, SizeIsNat
    <3> QED BY <3>1 DEF Batched
  <2>2. Elements(r) = q * w
    <3> HIDE DEF r, n, m, nn
    <3> QED BY <1>1, <1>2, MatrixElements
  <2> QED BY <1>3, <2>1, <2>2
<1> HIDE DEF n, m, kk, nn, r, q, w
<1>7. w \in Nat /\ w # 0 /\ batch \in Nat /\ batch < q
  <2>1. w \in Nat
    BY <1>1 DEF w
  <2> QED BY <1>5, <1>6, <2>1, Quotient
<1> HIDE DEF batch, local
<1>8. local \in Nat /\ local < m * nn /\ x = batch * w + local
  <2>1. w \in Nat \ {0}
    BY <1>7
  <2>2. local \in 0 .. w - 1 /\ x = batch * w + local
    BY ONLY x \in Nat, <2>1, Divide DEF batch, local
  <2>3. local \in Nat /\ local < w
    BY <1>7, <2>2
  <2> QED BY <2>2, <2>3 DEF w
<1>9. i \in Nat /\ i < m /\ j \in Nat /\ j < nn /\ local = i * nn + j
  <2>0. m \in Nat /\ nn \in Nat
    BY <1>1
  <2>1. nn # 0 /\ i \in Nat /\ i < m
    BY ONLY <1>8, <2>0, Quotient DEF i
  <2>2. nn \in Nat \ {0}
    BY <1>1, <2>1
  <2>3. j \in 0 .. nn - 1 /\ local = i * nn + j
    BY ONLY <1>8, <2>2, Divide DEF i, j
  <2>4. j \in Nat /\ j < nn
    BY <1>1, <2>3
  <2> QED BY <2>1, <2>3, <2>4
<1> HIDE DEF i, j
<1>10. /\ Word64(BatchOffset(batch, c.a, Strides(r))
                   + i * Strides(r)[n + 1] + j * Strides(r)[n + 2]) = x
  <2>1. Word64(BatchOffset(batch, c.a, Strides(r))
                   + i * Strides(r)[n + 1] + j * Strides(r)[n + 2])
          = batch * (r[n + 1] * r[n + 2]) + (i * r[n + 2] + j)
    <3>1. /\ i < r[n + 1] /\ j < r[n + 2] /\ batch < Products(r)[n]
          /\ \A d \in 1 .. n : c.a[d] = r[d]
      BY <1>2, <1>7, <1>9 DEF q
    <3>2. IsElement(r, c.a, n, batch, i, j)
      BY <1>1, <1>2, <1>3, <1>7, <1>9, <3>1, BatchElement
    <3> QED BY <3>2 DEF IsElement
  <2> QED BY <1>2, <1>8, <1>9, <2>1 DEF w
<1> DEFINE left(k) == Word64(BatchOffset(batch, c.a, Strides(c.a))
                              + i * Strides(c.a)[n + 1] + k * Strides(c.a)[n + 2])
           right(k) == Word64(BatchOffset(batch, c.a, Strides(c.b))
                               + k * Strides(c.b)[n + 1] + j * Strides(c.b)[n + 2])
<1>11. ASSUME NEW k \in 0 .. kk - 1
       PROVE  /\ left(k) \in 0 .. Size(c.a) - 1 /\ right(k) \in 0 .. Size(c.b) - 1
              /\ left(k) = batch * (m * kk) + (i * kk + k)
              /\ right(k) = batch * (kk * nn) + (k * nn + j)
  <2>1. k \in Nat /\ k < kk
    BY <1>1
  <2>2. /\ i < c.a[n + 1] /\ k < c.a[n + 2] /\ batch < Products(c.a)[n]
        /\ k < c.b[n + 1] /\ j < c.b[n + 2] /\ batch < Products(c.b)[n]
    BY <1>1, <1>5, <1>7, <1>9, <2>1
  <2>3. left(k) \in 0 .. Elements(c.a) - 1 /\ left(k) = batch * (m * kk) + (i * kk + k)
    <3>1. \A d \in 1 .. n : c.a[d] = c.a[d]
      OBVIOUS
    <3>2. IsElement(c.a, c.a, n, batch, i, k)
      BY <1>1, <1>3, <1>7, <1>9, <2>1, <2>2, <3>1, BatchElement
    <3> QED BY <1>1, <3>2, Zenon DEF IsElement
  <2>4. right(k) \in 0 .. Elements(c.b) - 1 /\ right(k) = batch * (kk * nn) + (k * nn + j)
    <3>1. \A d \in 1 .. n : c.a[d] = c.b[d]
      BY <1>1
    <3>2. IsElement(c.b, c.a, n, batch, k, j)
      BY <1>1, <1>3, <1>7, <1>9, <2>1, <2>2, <3>1, BatchElement
    <3> QED BY <1>1, <3>2, Zenon DEF IsElement
  <2> HIDE DEF left, right
  <2> QED BY <1>3, <2>3, <2>4
<1>12. PICK to, product :
         /\ s \in Dot(to, product)
         /\ to = Word64(BatchOffset(batch, c.a, Strides(r))
                   + i * Strides(r)[n + 1] + j * Strides(r)[n + 2])
         /\ product = [k \in 0 .. kk - 1 |-> <<left(k), right(k)>>]
  <2>1. Len(c.a) = n + 2 /\ Len(c.a) - 1 = n + 1
    BY <1>1
  <2>2. ~(x >= Size(ResultDims(c)))
    BY DEF Batched
  <2> QED BY <2>1, <2>2, Zenon DEF Batched, batch, local, i, j, w, m, nn, kk, r
<1> HIDE DEF left, right
<1>13. /\ s.to = to /\ s.value = product
       /\ s.reads = {<<"a", product[k][1]>> : k \in DOMAIN product}
                                \cup {<<"b", product[k][2]>> : k \in DOMAIN product}
  BY <1>12 DEF Dot, Store
<1>14. \A k \in DOMAIN product : /\ product[k][1] \in 0 .. Size(c.a) - 1
                                 /\ product[k][2] \in 0 .. Size(c.b) - 1
  BY <1>11, <1>12
<1>15. WithinOperands(c, s.reads)
  BY <1>13, <1>14 DEF WithinOperands
<1>16. s.to = x
  BY <1>10, <1>12, <1>13
<1>17. x \in 0 .. Size(ResultDims(c)) - 1
  <2>1. q * w \in Nat
    BY <1>5, <1>7, TimesPositive
  <2>2. x \in 0 .. Size(r) - 1
    BY <1>6, <2>1
  <2> QED BY <2>2 DEF r
<1>18. s.value = RowByColumn(c, batch, i, j)
  BY <1>11, <1>12, <1>13 DEF RowByColumn, m, kk, nn
<1> QED BY <1>15, <1>16, <1>17, <1>18 DEF Within, batch, i, j, local, w, m, nn

\* Threads of the other kernels.
LEMMA CreateStores ==
  ASSUME NEW c, WellFormed(c), c.op \in Factories, NEW x \in Nat, NEW s \in Create(c, x)
  PROVE  s.to = x /\ Within(c, s)
<1>1. Size(c.a) \in Nat
  BY SizeIsNat DEF WellFormed
<1>2. ~(x >= Size(c.a))
  BY DEF Create
<1>3. s.to = x /\ s.reads = {}
  BY <1>2 DEF Create, Store
<1>4. ResultDims(c) = c.a
  BY DEF ResultDims, Factories
<1>5. x \in 0 .. Size(c.a) - 1
  BY <1>1, <1>2
<1> QED BY <1>3, <1>4, <1>5 DEF Within, WithinOperands

LEMMA ElementwiseStores ==
  ASSUME NEW c, WellFormed(c), c.op = "elementwise", NEW x \in Nat,
         NEW s \in Elementwise(c, x)
  PROVE  /\ s.to = Signed(x)
         /\ c.a = c.b /\ Word32(Size(c.a)) <= 2^(Bits32 - 1) => Within(c, s)
<1>1. Size(c.a) \in Nat /\ Word32(Size(c.a)) \in Nat /\ Word32(Size(c.a)) <= Size(c.a)
  BY SizeIsNat, Words DEF WellFormed
<1>2. ~(x >= Word32(Size(c.a)))
  BY DEF Elementwise
<1>3. s.to = Signed(x) /\ s.reads = {<<"a", Signed(x)>>, <<"b", Signed(x)>>}
  BY <1>2 DEF Elementwise, Store
<1>4. ASSUME c.a = c.b, Word32(Size(c.a)) <= 2^(Bits32 - 1) PROVE Within(c, s)
  <2>1. ResultDims(c) = c.a
    BY DEF ResultDims
  <2>2. x < 2^(Bits32 - 1)
    BY <1>1, <1>2, <1>4, ShapeAssumption
  <2>3. Signed(x) = x /\ x \in 0 .. Size(c.a) - 1
    BY <1>1, <1>2, <2>2 DEF Signed
  <2> QED BY <1>3, <1>4, <2>1, <2>3 DEF Within, WithinOperands
<1> QED BY <1>3, <1>4

\* The elements of a matrix.
LEMMA OneMatrix ==
  ASSUME NEW dims \in Seq(Nat), Len(dims) = 2
  PROVE  dims[1] \in Nat /\ dims[2] \in Nat /\ Elements(dims) = dims[1] * dims[2]
<1>1. /\ dims[0 + 1] \in Nat /\ dims[0 + 2] \in Nat /\ Products(dims)[0] \in Nat
      /\ Elements(dims) = Products(dims)[0] * (dims[0 + 1] * dims[0 + 2])
  BY Len(dims) = 0 + 2, MatrixElements
<1>2. Products(dims)[0] = 1
  BY ProductsAre
<1>3. 0 + 1 = 1 /\ 0 + 2 = 2
  OBVIOUS
<1>4. dims[1] \in Nat /\ dims[2] \in Nat /\ Elements(dims) = 1 * (dims[1] * dims[2])
  BY <1>1, <1>2, <1>3
<1> QED BY <1>4

\* The number stays below their product when the second limit and the number are cut
\* to 32 bits.
LEMMA CutRowColumn ==
  ASSUME NEW m \in Nat, NEW n \in Nat, NEW i \in Nat, NEW j \in Nat,
         i < m, j < Word32(n)
  PROVE  Word32(i * Word32(n) + j) \in 0 .. m * n - 1
<1> DEFINE nn == Word32(n)
           x == i * nn + j
<1>1. nn \in Nat /\ nn <= n
  BY Words
<1> HIDE DEF nn
<1>2. i * nn <= i * n
  <2>1. nn * i <= n * i
    BY <1>1, TimesMonotone
  <2>2. nn * i = i * nn /\ n * i = i * n
    BY <1>1
  <2> QED BY <2>1, <2>2
<1>3. j < n /\ i * n + j < m * n
  BY <1>1, RowColumn DEF nn
<1>4. i * nn \in Nat /\ i * n \in Nat /\ m * n \in Nat
  BY <1>1
<1>5. x \in Nat /\ x < m * n
  BY <1>2, <1>3, <1>4
<1> HIDE DEF x
<1>6. Word32(x) \in Nat /\ Word32(x) <= x
  BY <1>5, Words
<1>7. Word32(x) \in 0 .. m * n - 1
  BY <1>4, <1>5, <1>6
<1> QED BY <1>7 DEF x, nn

LEMMA MatrixMultiplyStores ==
  ASSUME NEW c, WellFormed(c), c.op = "matrix_multiply",
         NEW col \in Nat, NEW row \in Nat, NEW s \in MatrixMultiply(c, col, row)
  PROVE  /\ M(c) \in Nat /\ N(c) \in Nat /\ row < M(c) /\ col < N(c)
         /\ SizesFit(c) => Within(c, s)
         /\ M(c) * N(c) <= 2^Bits32 => s.to = row * N(c) + col
         /\ (M(c) * K(c) <= 2^Bits32 /\ K(c) * N(c) <= 2^Bits32
               /\ M(c) * N(c) <= 2^Bits32 /\ K(c) < 2^(Bits32 - 1)) =>
              s.value = RowByColumn(c, 0, row, col)
<1> DEFINE m == M(c)
           kk == K(c)
           nn == N(c)
           ck == Word32(kk)
           cn == Word32(nn)
<1>1. /\ c.a \in Seq(Nat) /\ Len(c.a) = 2 /\ c.b \in Seq(Nat) /\ Len(c.b) = 2
      /\ c.a[1] = m /\ c.a[2] = kk /\ c.b[1] = kk /\ c.b[2] = nn
      /\ m \in Nat /\ kk \in Nat /\ nn \in Nat
  <2>1. c.a \in Seq(Nat) /\ Len(c.a) = 2 /\ c.b \in Seq(Nat) /\ Len(c.b) = 2 /\ c.b[1] = K(c)
    BY DEF WellFormed
  <2>2. c.a[1] = m /\ c.a[2] = kk /\ c.b[2] = nn
    BY <2>1 DEF M, K, N, Last
  <2> QED BY <2>1, <2>2
<1>2. ~(row >= Word32(m)) /\ ~(col >= cn)
  BY DEF MatrixMultiply
<1> DEFINE product == [k \in 0 .. ck - 1 |-> <<Word32(row * ck + k), Word32(k * cn + col)>>]
<1>4. /\ s.to = Word32(row * cn + col) /\ s.value = product
      /\ s.reads = {<<"a", product[k][1]>> : k \in DOMAIN product}
                     \cup {<<"b", product[k][2]>> : k \in DOMAIN product}
  <2>1. s \in Dot(Word32(row * cn + col), product)
    BY <1>2, Zenon DEF MatrixMultiply
  <2> HIDE DEF product
  <2> QED BY <2>1 DEF Dot, Store
<1> HIDE DEF m, kk, nn
<1>0. ck \in Nat /\ ck <= kk /\ cn \in Nat /\ cn <= nn
  BY <1>1, Words
<1>3. row < m /\ col < cn /\ col < nn
  <2>1. Word32(m) \in Nat /\ Word32(m) <= m
    BY <1>1, Words
  <2> QED BY <1>0, <1>1, <1>2, <2>1
<1> HIDE DEF ck, cn, product
<1>5. ASSUME SizesFit(c) PROVE Within(c, s)
  <2>1. Size(c.a) = m * kk /\ Size(c.b) = kk * nn
    BY <1>1, <1>5, OneMatrix DEF SizesFit, NoWrap
  <2>2. Size(ResultDims(c)) = m * nn
    <3> DEFINE r == ResultDims(c)
    <3>1. r = [c.a EXCEPT ![2] = nn]
      BY <1>1 DEF ResultDims, nn
    <3>2. r \in Seq(Nat) /\ Len(r) = 2 /\ r[1] = m /\ r[2] = nn
      BY <1>1, <3>1
    <3> HIDE DEF r
    <3>3. Elements(r) = m * nn
      BY <3>2, OneMatrix
    <3> QED BY <1>5, <3>3 DEF SizesFit, NoWrap, r
  <2>3. s.to \in 0 .. m * nn - 1
    <3>1. Word32(row * cn + col) \in 0 .. m * nn - 1
      BY <1>1, <1>3, CutRowColumn DEF cn
    <3> QED BY <1>4, <3>1
  <2>4. ASSUME NEW k \in DOMAIN product
        PROVE  product[k][1] \in 0 .. m * kk - 1 /\ product[k][2] \in 0 .. kk * nn - 1
    <3>1. k \in 0 .. ck - 1 /\ k \in Nat /\ k < ck /\ k < kk
      BY <1>0, <1>1 DEF product
    <3>2. Word32(row * ck + k) \in 0 .. m * kk - 1
      BY <1>1, <1>3, <3>1, CutRowColumn DEF ck
    <3>3. Word32(k * cn + col) \in 0 .. kk * nn - 1
      BY <1>1, <1>3, <3>1, CutRowColumn DEF cn
    <3>4. product[k] = <<Word32(row * ck + k), Word32(k * cn + col)>>
      BY <3>1 DEF product
    <3> QED BY <3>2, <3>3, <3>4
  <2>5. WithinOperands(c, s.reads)
    BY <1>4, <2>1, <2>4 DEF WithinOperands
  <2> QED BY <2>2, <2>3, <2>5 DEF Within
<1>6. ASSUME m * nn <= 2^Bits32 PROVE cn = nn /\ s.to = row * nn + col
  <2>1. nn <= 2^Bits32
    <3>1. m # 0 /\ m * nn \in Nat
      BY <1>1, <1>3
    <3>2. nn <= m * nn
      BY <1>1, <3>1, TimesPositive, Zenon
    <3> QED BY <1>1, <1>6, <3>1, <3>2, ShapeAssumption, Transitive
  <2>2. nn # 2^Bits32
    <3>1. cn # 0
      BY <1>0, <1>3
    <3>2. 2^Bits32 % 2^Bits32 = 0
      BY ShapeAssumption
    <3> QED BY <3>1, <3>2 DEF cn, Word32
  <2>3. cn = nn
    <3>1. nn < 2^Bits32
      BY <1>1, <2>1, <2>2, ShapeAssumption
    <3> QED BY <1>1, <3>1, Words DEF cn
  <2>4. row * nn + col \in Nat /\ row * nn + col < m * nn /\ m * nn \in Nat
    <3>1. row * nn + col \in Nat /\ row * nn + col < m * nn
      BY <1>1, <1>3, RowColumn, Zenon
    <3>2. m * nn \in Nat
      BY <1>1
    <3> QED BY <3>1, <3>2
  <2>5. row * nn + col < 2^Bits32
    <3> DEFINE x == row * nn + col
               y == m * nn
    <3>1. x \in Nat /\ y \in Nat /\ x < y /\ y <= 2^Bits32
      BY <1>6, <2>4, Zenon
    <3> HIDE DEF x, y
    <3>2. x < 2^Bits32
      BY <3>1, ShapeAssumption
    <3> QED BY <3>2 DEF x
  <2> QED BY <1>4, <2>3, <2>4, <2>5, Words
<1>7. ASSUME m * kk <= 2^Bits32, kk * nn <= 2^Bits32, m * nn <= 2^Bits32,
             kk < 2^(Bits32 - 1)
      PROVE  s.value = RowByColumn(c, 0, row, col)
  <2>1. ASSUME NEW v \in Nat, NEW x \in Nat, NEW y \in Nat, v < x * y, x * y <= 2^Bits32
        PROVE  Word32(v) = v
    <3>1. v < 2^Bits32
      BY <2>1, ShapeAssumption, TimesPositive
    <3> QED BY <3>1, Words
  <2>2. cn = nn
    BY <1>6, <1>7
  <2>3. ck = kk
    BY <1>1, <1>7, Words, ShapeAssumption DEF ck
  <2>4. ASSUME NEW k \in 0 .. kk - 1
        PROVE  <<Word32(row * ck + k), Word32(k * cn + col)>>
                 = <<0 * (m * kk) + (row * kk + k), 0 * (kk * nn) + (k * nn + col)>>
    <3>1. k \in Nat /\ k < kk
      BY <1>1
    <3>2. /\ row * kk + k \in Nat /\ row * kk + k < m * kk
          /\ k * nn + col \in Nat /\ k * nn + col < kk * nn
      BY <1>1, <1>3, <3>1, RowColumn
    <3>3. Word32(row * kk + k) = row * kk + k /\ Word32(k * nn + col) = k * nn + col
      BY <1>1, <1>7, <2>1, <3>2
    <3>4. m * kk \in Nat /\ kk * nn \in Nat
      BY <1>1, TimesPositive
    <3>5. /\ 0 * (m * kk) + (row * kk + k) = row * kk + k
          /\ 0 * (kk * nn) + (k * nn + col) = k * nn + col
      BY <3>2, <3>4
    <3> QED BY <2>2, <2>3, <3>3, <3>5
  <2>5. product = [k \in 0 .. kk - 1 |->
                     <<0 * (m * kk) + (row * kk + k), 0 * (kk * nn) + (k * nn + col)>>]
    BY <2>3, <2>4 DEF product
  <2> QED BY <1>4, <2>5 DEF RowByColumn, m, kk, nn
<1>8. m \in Nat /\ nn \in Nat /\ row < m /\ col < nn /\ (SizesFit(c) => Within(c, s))
  BY <1>1, <1>3, <1>5
<1>9. m * nn <= 2^Bits32 => s.to = row * nn + col
  BY <1>6, Zenon
<1>10. (m * kk <= 2^Bits32 /\ kk * nn <= 2^Bits32 /\ m * nn <= 2^Bits32
          /\ kk < 2^(Bits32 - 1)) => s.value = RowByColumn(c, 0, row, col)
  BY <1>7, Zenon
<1> QED BY <1>8, <1>9, <1>10, Zenon DEF m, kk, nn

LEMMA TransposeStores ==
  ASSUME NEW c, WellFormed(c), c.op = "transpose",
         NEW x \in Nat, NEW y \in Nat, NEW s \in Transpose(c, x, y), SizesFit(c)
  PROVE  /\ c.a[1] \in Nat /\ Signed(y) \in 0 .. c.a[1] - 1 /\ Signed(x) \in Nat
         /\ s.to = Signed(x) * c.a[1] + Signed(y)
         /\ s.value = Signed(y) * c.a[2] + Signed(x)
         /\ Within(c, s)
<1> DEFINE h == c.a[1]
           w == c.a[2]
           row == Signed(y)
           col == Signed(x)
           r == ResultDims(c)
<1>1. h \in Nat /\ w \in Nat /\ Size(c.a) = h * w /\ Size(c.a) < 2^Bits64
  <2>1. c.a \in Seq(Nat) /\ Len(c.a) = 2 /\ NoWrap(c.a)
    BY DEF WellFormed, SizesFit
  <2> QED BY <2>1, OneMatrix, ExactProducts DEF NoWrap
<1>2. Size(r) = w * h /\ Size(r) < 2^Bits64
  <2>1. r = <<w, h>>
    BY DEF ResultDims
  <2> HIDE DEF w, h
  <2>2. r \in Seq(Nat) /\ Len(r) = 2 /\ r[1] = w /\ r[2] = h
    BY <1>1, <2>1
  <2>3. NoWrap(r)
    BY DEF SizesFit
  <2> HIDE DEF r
  <2> QED BY <2>2, <2>3, OneMatrix, ExactProducts DEF NoWrap
<1>3. row \in 0 .. h - 1 /\ col \in 0 .. w - 1
  BY DEF Transpose
<1>4. /\ s.to = Word64(col * h + row) /\ s.value = Word64(row * w + col)
      /\ s.reads = {<<"a", Word64(row * w + col)>>}
  BY <1>3 DEF Transpose, Store
<1> HIDE DEF h, w, row, col, r
<1>5. row \in Nat /\ row < h /\ col \in Nat /\ col < w
  BY <1>1, <1>3
<1>6. /\ col * h + row \in Nat /\ col * h + row < w * h
      /\ row * w + col \in Nat /\ row * w + col < h * w
  BY <1>1, <1>5, RowColumn
<1>7. Word64(col * h + row) = col * h + row /\ Word64(row * w + col) = row * w + col
  <2>1. w * h < 2^Bits64 /\ h * w < 2^Bits64 /\ w * h \in Nat /\ h * w \in Nat
    BY <1>1, <1>2
  <2>2. col * h + row < 2^Bits64 /\ row * w + col < 2^Bits64
    BY <1>6, <2>1, ShapeAssumption
  <2> QED BY <1>6, <2>2, Words
<1>8. s.to \in 0 .. w * h - 1
  BY <1>1, <1>4, <1>6, <1>7
<1>9. Word64(row * w + col) \in 0 .. h * w - 1
  BY <1>1, <1>6, <1>7
<1>10. Within(c, s)
  BY <1>1, <1>2, <1>4, <1>8, <1>9 DEF Within, WithinOperands, r
<1> QED BY <1>1, <1>3, <1>4, <1>5, <1>7, <1>10 DEF h, w, row, col

LEMMA VolumeStores ==
  ASSUME NEW c, WellFormed(c), c.op = "volume", NEW x \in Nat, NEW y \in Nat, NEW z \in Nat,
         NEW s \in Volume(c, x, y, z)
  PROVE  /\ c.a[1] \in Nat /\ c.a[2] \in Nat /\ c.a[3] \in Nat
         /\ x < c.a[3] /\ y < c.a[2] /\ z < c.a[1]
         /\ s.to = (z * c.a[2] + y) * c.a[3] + x /\ s.value = <<z, y, x>>
         /\ SizesFit(c) => Within(c, s)
<1> DEFINE d1 == c.a[1]
           d2 == c.a[2]
           d3 == c.a[3]
<1>1. c.a \in Seq(Nat) /\ Len(c.a) = 3 /\ d1 \in Nat /\ d2 \in Nat /\ d3 \in Nat
  BY DEF WellFormed
<1>2. Elements(c.a) = d1 * (d2 * d3)
  <2> DEFINE P == Products(c.a)
  <2>1. Elements(c.a) = P[1] * (c.a[1 + 1] * c.a[1 + 2])
    BY <1>1, MatrixElements, Len(c.a) = 1 + 2
  <2>2. 1 \in 1 .. Len(c.a) /\ 1 - 1 = 0 /\ 1 + 1 = 2 /\ 1 + 2 = 3
    BY <1>1
  <2>3. P[0] = 1 /\ P[1] = P[0] * c.a[1]
    BY <1>1, <2>2, ProductsAre
  <2> HIDE DEF P
  <2>4. P[1] = d1
    BY <1>1, <2>3
  <2> QED BY <2>1, <2>2, <2>4
<1>3. ~(x >= d3) /\ ~(y >= d2) /\ ~(z >= d1)
  BY DEF Volume
<1>4. s.to = (z * d2 + y) * d3 + x /\ s.value = <<z, y, x>> /\ s.reads = {}
  BY <1>3 DEF Volume, Store
<1> HIDE DEF d1, d2, d3
<1>5. x < d3 /\ y < d2 /\ z < d1
  BY <1>1, <1>3
<1>6. z * d2 + y \in Nat /\ z * d2 + y < d1 * d2 /\ d1 * d2 \in Nat
  BY <1>1, <1>5, RowColumn
<1>7. (z * d2 + y) * d3 + x \in Nat /\ (z * d2 + y) * d3 + x < (d1 * d2) * d3
  BY ONLY <1>1, <1>5, <1>6, x \in Nat, RowColumn
<1>8. (d1 * d2) * d3 = d1 * (d2 * d3) /\ (d1 * d2) * d3 \in Nat
  BY <1>1
<1>9. ASSUME SizesFit(c) PROVE Within(c, s)
  <2>1. ResultDims(c) = c.a /\ Size(c.a) = d1 * (d2 * d3)
    BY <1>2, <1>9 DEF ResultDims, SizesFit, NoWrap
  <2>2. s.to \in 0 .. Size(c.a) - 1
    BY <1>4, <1>7, <1>8, <2>1
  <2> QED BY <1>4, <2>1, <2>2 DEF Within, WithinOperands
<1> QED BY <1>1, <1>4, <1>5, <1>9 DEF d1, d2, d3

\* What the wrapper of a call, or the operator, has checked.
Checked(c) == /\ c.op = "elementwise" => c.a = c.b
              /\ c.op = "batched" => Multipliable(c)

THEOREM ThreadWithin ==
  ASSUME NEW c, WellFormed(c), Checked(c), SizesFit(c), ~BeyondInt(c),
         NEW x \in Nat, NEW y \in Nat, NEW z \in Nat, NEW s \in Thread(c, x, y, z)
  PROVE  Within(c, s)
<1>1. CASE c.op \in Factories
  <2>1. s \in Create(c, x)
    BY <1>1 DEF Thread, Factories
  <2> QED BY <1>1, <2>1, CreateStores
<1>2. CASE c.op = "elementwise"
  <2>1. s \in Elementwise(c, x)
    BY <1>2 DEF Thread, Factories
  <2>2. Size(c.a) \in Nat
    BY SizeIsNat DEF WellFormed
  <2>3. Word32(Size(c.a)) <= 2^(Bits32 - 1)
    BY <1>2, <2>2, Words, ShapeAssumption DEF BeyondInt
  <2> QED BY <1>2, <2>1, <2>3, ElementwiseStores DEF Checked
<1>3. CASE c.op = "batched"
  <2>1. s \in Batched(c, x)
    BY <1>3 DEF Thread, Factories
  <2> QED BY <1>3, <2>1, BatchedStores DEF Checked
<1>4. CASE c.op = "matrix_multiply"
  <2>1. s \in MatrixMultiply(c, x, y)
    BY <1>4 DEF Thread, Factories
  <2> QED BY <1>4, <2>1, MatrixMultiplyStores
<1>5. CASE c.op = "transpose"
  <2>1. s \in Transpose(c, x, y)
    BY <1>5 DEF Thread, Factories
  <2> QED BY <1>5, <2>1, TransposeStores
<1>6. CASE c.op = "volume"
  <2>1. s \in Volume(c, x, y, z)
    BY <1>6 DEF Thread, Factories
  <2> QED BY <1>6, <2>1, VolumeStores
<1>7. c.op \in Factories \cup {"elementwise", "batched", "matrix_multiply", "transpose", "volume"}
  BY DEF WellFormed, OneD, Factories
<1> QED BY <1>1, <1>2, <1>3, <1>4, <1>5, <1>6, <1>7
-----------------------------------------------------------------------------
(* No two threads store to one element.                                    *)

LEMMA SignedOnce ==
  ASSUME NEW x \in 0 .. 2^Bits32 - 1, NEW y \in 0 .. 2^Bits32 - 1, Signed(x) = Signed(y)
  PROVE  x = y
BY ShapeAssumption DEF Signed

\* All indices of a thread that its kernel uses.
SameThread(c, x, y, z, u, v, w) ==
  /\ x = u
  /\ c.op \in {"matrix_multiply", "transpose", "volume"} => y = v
  /\ c.op = "volume" => z = w

THEOREM StoredOnce ==
  ASSUME NEW c, WellFormed(c), Checked(c), SizesFit(c),
         c.op = "matrix_multiply" => M(c) * N(c) <= 2^Bits32,
         NEW x \in 0 .. 2^Bits32 - 1, NEW y \in 0 .. 2^Bits32 - 1,
         NEW z \in 0 .. 2^Bits32 - 1,
         NEW u \in 0 .. 2^Bits32 - 1, NEW v \in 0 .. 2^Bits32 - 1,
         NEW w \in 0 .. 2^Bits32 - 1,
         NEW s \in Thread(c, x, y, z), NEW t \in Thread(c, u, v, w), s.to = t.to
  PROVE  SameThread(c, x, y, z, u, v, w)
<1>0. x \in Nat /\ y \in Nat /\ z \in Nat /\ u \in Nat /\ v \in Nat /\ w \in Nat
  BY ShapeAssumption
<1>1. CASE c.op \in Factories
  <2>1. s \in Create(c, x) /\ t \in Create(c, u)
    BY <1>1 DEF Thread, Factories
  <2>2. s.to = x /\ t.to = u
    BY <1>0, <1>1, <2>1, CreateStores
  <2> QED BY <1>1, <2>2 DEF SameThread, Factories
<1>2. CASE c.op = "elementwise"
  <2>1. s \in Elementwise(c, x) /\ t \in Elementwise(c, u)
    BY <1>2 DEF Thread, Factories
  <2>2. s.to = Signed(x) /\ t.to = Signed(u)
    BY <1>0, <1>2, <2>1, ElementwiseStores
  <2> QED BY <1>2, <2>2, SignedOnce DEF SameThread
<1>3. CASE c.op = "batched"
  <2>1. s \in Batched(c, x) /\ t \in Batched(c, u)
    BY <1>3 DEF Thread, Factories
  <2>2. s.to = x /\ t.to = u
    BY <1>0, <1>3, <2>1, BatchedStores DEF Checked
  <2> QED BY <1>3, <2>2 DEF SameThread
<1>4. CASE c.op = "matrix_multiply"
  <2>1. s \in MatrixMultiply(c, x, y) /\ t \in MatrixMultiply(c, u, v)
    BY <1>4 DEF Thread, Factories
  <2>2. /\ M(c) \in Nat /\ N(c) \in Nat
        /\ y < M(c) /\ x < N(c) /\ v < M(c) /\ u < N(c)
        /\ s.to = y * N(c) + x /\ t.to = v * N(c) + u
    BY <1>0, <1>4, <2>1, MatrixMultiplyStores
  <2>5. y * N(c) + x = v * N(c) + u
    BY <2>2
  <2>6. x \in 0 .. N(c) - 1 /\ u \in 0 .. N(c) - 1
    BY <1>0, <2>2
  <2>7. y = v /\ x = u
    BY ONLY <1>0, <2>2, <2>5, <2>6, SameRowColumn
  <2> QED BY <1>4, <2>7 DEF SameThread
<1>5. CASE c.op = "transpose"
  <2>1. s \in Transpose(c, x, y) /\ t \in Transpose(c, u, v)
    BY <1>5 DEF Thread, Factories
  <2>2. /\ c.a[1] \in Nat /\ Signed(x) \in Nat /\ Signed(u) \in Nat
        /\ Signed(y) \in 0 .. c.a[1] - 1 /\ Signed(v) \in 0 .. c.a[1] - 1
        /\ s.to = Signed(x) * c.a[1] + Signed(y) /\ t.to = Signed(u) * c.a[1] + Signed(v)
    BY <1>0, <1>5, <2>1, TransposeStores
  <2>3. Signed(x) = Signed(u) /\ Signed(y) = Signed(v)
    <3>1. Signed(x) * c.a[1] + Signed(y) = Signed(u) * c.a[1] + Signed(v)
      BY <2>2
    <3> DEFINE h == c.a[1]
               i == Signed(x)
               j == Signed(y)
               k == Signed(u)
               l == Signed(v)
    <3>2. /\ h \in Nat /\ i \in Nat /\ k \in Nat /\ j \in 0 .. h - 1 /\ l \in 0 .. h - 1
          /\ i * h + j = k * h + l
      BY <2>2, <3>1
    <3> HIDE DEF h, i, j, k, l
    <3>3. i = k /\ j = l
      BY ONLY <3>2, SameRowColumn
    <3> QED BY <3>3 DEF i, j, k, l
  <2>4. x = u /\ y = v
    BY <2>3, SignedOnce
  <2> QED BY <1>5, <2>4 DEF SameThread
<1>6. CASE c.op = "volume"
  <2>1. s \in Volume(c, x, y, z) /\ t \in Volume(c, u, v, w)
    BY <1>6 DEF Thread, Factories
  <2> DEFINE d2 == c.a[2]
             d3 == c.a[3]
             i == z * d2 + y
             k == w * d2 + v
  <2>2. /\ d2 \in Nat /\ d3 \in Nat /\ x < d3 /\ u < d3 /\ y < d2 /\ v < d2
        /\ s.to = i * d3 + x /\ t.to = k * d3 + u
    BY <1>0, <1>6, <2>1, VolumeStores
  <2>3. i \in Nat /\ k \in Nat
    BY <1>0, <2>2
  <2> HIDE DEF d2, d3
  <2>4. /\ x \in 0 .. d3 - 1 /\ u \in 0 .. d3 - 1 /\ y \in 0 .. d2 - 1 /\ v \in 0 .. d2 - 1
    BY <1>0, <2>2
  <2>5. i = k /\ x = u
    <3> HIDE DEF i, k
    <3>1. i * d3 + x = k * d3 + u
      BY <2>2
    <3> QED BY ONLY <2>2, <2>3, <2>4, <3>1, SameRowColumn
  <2>6. z = w /\ y = v
    <3>1. z * d2 + y = w * d2 + v
      BY <2>5
    <3> QED BY ONLY <1>0, <2>2, <2>4, <3>1, SameRowColumn
  <2> QED BY <2>5, <2>6 DEF SameThread
<1>7. c.op \in Factories \cup {"elementwise", "batched", "matrix_multiply", "transpose", "volume"}
  BY DEF WellFormed, OneD, Factories
<1> QED BY <1>1, <1>2, <1>3, <1>4, <1>5, <1>6, <1>7
-----------------------------------------------------------------------------
(* The launch wrappers.                                                    *)

\* Where a growing function passes a bound.
LEMMA LargestEdge ==
  ASSUME NEW n \in Nat \ {0}, NEW f, \A e \in Nat : f[e] \in Nat,
         f[1] <= n, \A e \in Nat : e <= f[e]
  PROVE  \E e \in 1 .. n : f[e] <= n /\ f[e + 1] > n
<1> DEFINE T == {e \in Nat : f[e + 1] > n}
<1>1. n \in T
  <2>1. n + 1 \in Nat /\ n + 1 <= f[n + 1] /\ f[n + 1] \in Nat
    OBVIOUS
  <2> QED BY <2>1
<1> HIDE DEF T
<1>2. PICK e \in T : \A d \in T : e <= d
  <2>1. T \in SUBSET Nat /\ T # {}
    BY <1>1 DEF T
  <2> QED BY <2>1, LeastElement
<1>3. e \in Nat /\ f[e + 1] > n /\ e <= n
  BY <1>1, <1>2 DEF T
<1>4. e # 0
  <2>1. 0 + 1 = 1 /\ f[1] \in Nat
    OBVIOUS
  <2> QED BY <1>3, <2>1
<1>5. f[e] <= n
  <2>1. e - 1 \in Nat /\ (e - 1) + 1 = e /\ ~(e <= e - 1)
    BY <1>3, <1>4
  <2>2. e - 1 \notin T
    BY <1>2, <2>1
  <2>3. f[e] \in Nat
    BY <1>3
  <2> QED BY <2>1, <2>2, <2>3 DEF T
<1> QED BY <1>3, <1>4, <1>5

LEMMA SquareEdges ==
  \E e \in Nat \ {0} :
    /\ e * e <= Limits[0].threads
    /\ \A axis \in Axes : /\ Edge(axis, SquareRoot) \in 1 .. e
                          /\ Edge(axis, SquareRoot) <= Limits[0].block[axis]
<1> DEFINE n == Limits[0].threads
           P(e) == e \in 1 .. n /\ Square(e) <= n /\ Square(e + 1) > n
           edge == CHOOSE e \in 1 .. n : Square(e) <= n /\ Square(e + 1) > n
           f == [e \in Nat |-> Square(e)]
<1>1. n \in Nat \ {0} /\ \A axis \in Axes : Limits[0].block[axis] \in Nat \ {0}
  BY LimitsAssumption DEF Axes
<1> HIDE DEF n
<1>2. \A e \in Nat : f[e] = Square(e) /\ f[e] \in Nat /\ e <= f[e]
  BY DEF Square
<1>3. f[1] <= n
  BY <1>1 DEF Square
<1> HIDE DEF f
<1>4. \E e \in 1 .. n : f[e] <= n /\ f[e + 1] > n
  BY <1>1, <1>2, <1>3, LargestEdge
<1>5. \E e \in 1 .. n : Square(e) <= n /\ Square(e + 1) > n
  <2>1. PICK e \in 1 .. n : f[e] <= n /\ f[e + 1] > n
    BY <1>4
  <2>2. e \in Nat /\ e + 1 \in Nat
    OBVIOUS
  <2> QED BY <1>2, <2>1, <2>2
<1>6. edge \in 1 .. n /\ Square(edge) <= n
  BY <1>5
<1>7. \A axis \in Axes :
        Edge(axis, SquareRoot) = Most(Least(edge, Limits[0].block[axis]), 1)
  BY DEF Edge, SquareRoot, n
<1> HIDE DEF edge
<1>8. edge \in Nat \ {0} /\ edge * edge <= n
  BY <1>1, <1>6 DEF Square
<1>9. \A axis \in Axes : /\ Edge(axis, SquareRoot) \in 1 .. edge
                         /\ Edge(axis, SquareRoot) <= Limits[0].block[axis]
  BY <1>1, <1>7, <1>8 DEF Most, Least
<1> QED BY <1>8, <1>9 DEF n

LEMMA CubeEdges ==
  \E e \in Nat \ {0} :
    /\ e * e * e <= Limits[0].threads
    /\ \A axis \in Axes : /\ Edge(axis, CubeRoot) \in 1 .. e
                          /\ Edge(axis, CubeRoot) <= Limits[0].block[axis]
<1> DEFINE n == Limits[0].threads
           edge == CHOOSE e \in 1 .. n : Cube(e) <= n /\ Cube(e + 1) > n
           f == [e \in Nat |-> Cube(e)]
<1>1. n \in Nat \ {0} /\ \A axis \in Axes : Limits[0].block[axis] \in Nat \ {0}
  BY LimitsAssumption DEF Axes
<1> HIDE DEF n
<1>2. \A e \in Nat : f[e] = Cube(e) /\ f[e] \in Nat /\ e <= f[e]
  <2> SUFFICES ASSUME NEW e \in Nat PROVE Cube(e) \in Nat /\ e <= Cube(e)
    OBVIOUS
  <2>1. e * e \in Nat /\ e <= e * e
    OBVIOUS
  <2>2. (e * e) * e \in Nat /\ (e # 0 => e * e <= (e * e) * e)
    BY <2>1, TimesPositive
  <2> QED BY <2>1, <2>2 DEF Cube
<1>3. f[1] <= n
  BY <1>1 DEF Cube
<1> HIDE DEF f
<1>4. \E e \in 1 .. n : f[e] <= n /\ f[e + 1] > n
  BY <1>1, <1>2, <1>3, LargestEdge
<1>5. \E e \in 1 .. n : Cube(e) <= n /\ Cube(e + 1) > n
  <2>1. PICK e \in 1 .. n : f[e] <= n /\ f[e + 1] > n
    BY <1>4
  <2>2. e \in Nat /\ e + 1 \in Nat
    OBVIOUS
  <2> QED BY <1>2, <2>1, <2>2
<1>6. edge \in 1 .. n /\ Cube(edge) <= n
  BY <1>5
<1>7. \A axis \in Axes :
        Edge(axis, CubeRoot) = Most(Least(edge, Limits[0].block[axis]), 1)
  BY DEF Edge, CubeRoot, n
<1> HIDE DEF edge
<1>8. edge \in Nat \ {0} /\ edge * edge * edge <= n
  BY <1>1, <1>6 DEF Cube
<1>9. \A axis \in Axes : /\ Edge(axis, CubeRoot) \in 1 .. edge
                         /\ Edge(axis, CubeRoot) <= Limits[0].block[axis]
  BY <1>1, <1>7, <1>8 DEF Most, Least
<1> QED BY <1>8, <1>9 DEF n

\* One block is launched for the axes a kernel does not use.
LEMMA OneBlock == BlocksFor(1, 1) = 1
<1>1. 1 + 1 - 1 = 1 /\ 1 < 2^Bits64 /\ 1 < 2^Bits32
  BY ShapeAssumption
<1>2. Word64(1 + 1 - 1) = 1 /\ 1 \div 1 = 1 /\ Word32(1) = 1
  BY <1>1, Words
<1> QED BY <1>2 DEF BlocksFor

\* Every axis of a launch.
IsLaunch(g, work) ==
  /\ \A axis \in Axes : /\ g.block[axis] \in Nat \ {0}
                        /\ g.block[axis] <= Limits[0].block[axis]
                        /\ g.block[axis] <= Limits[0].threads
                        /\ g.grid[axis] = BlocksFor(work[axis], g.block[axis])
  /\ g.block[1] * g.block[2] * g.block[3] <= Limits[0].threads

LEMMA GeometryIs ==
  ASSUME NEW c, WellFormed(c)
  PROVE  IsLaunch(Geometry(c), Work(c))
<1> DEFINE n == Limits[0].threads
           g == Geometry(c)
           work == Work(c)
<1>1. /\ n \in Nat \ {0} /\ n <= Limits[0].block[1]
      /\ \A axis \in Axes : Limits[0].block[axis] \in Nat \ {0}
  BY LimitsAssumption DEF Axes
<1>2. 1 \in Axes /\ 2 \in Axes /\ 3 \in Axes /\ \A axis \in Axes : axis \in {1, 2, 3}
  BY DEF Axes
<1>3. CASE c.op \in OneD
  <2>1. work = <<Size(ResultDims(c)), 1, 1>>
    BY <1>3 DEF Work, OneD
  <2>2. g = Geometry1D(work[1])
    BY <1>3 DEF Geometry, OneD
  <2> HIDE DEF g, work
  <2>3. /\ g.block = <<n, 1, 1>> /\ g.grid = <<BlocksFor(work[1], n), 1, 1>>
    BY <2>2 DEF Geometry1D
  <2>4. \A axis \in {2, 3} : work[axis] = 1
    BY <2>1
  <2> QED BY <1>1, <1>2, <2>3, <2>4, OneBlock DEF IsLaunch, g, work
<1>4. CASE c.op \in {"matrix_multiply", "transpose"}
  <2>1. work[3] = 1
    BY <1>4 DEF Work, OneD
  <2>2. g = Geometry2D(work[1], work[2])
    BY <1>4 DEF Geometry, OneD
  <2> HIDE DEF g, work
  <2> DEFINE e1 == Edge(1, SquareRoot)
             e2 == Edge(2, SquareRoot)
  <2>3. g.block = <<e1, e2, 1>> /\ g.grid = <<BlocksFor(work[1], e1), BlocksFor(work[2], e2), 1>>
    BY <2>2 DEF Geometry2D
  <2>4. PICK e \in Nat \ {0} :
          /\ e * e <= n
          /\ \A axis \in Axes : /\ Edge(axis, SquareRoot) \in 1 .. e
                                /\ Edge(axis, SquareRoot) <= Limits[0].block[axis]
    BY SquareEdges
  <2>5. e1 \in 1 .. e /\ e2 \in 1 .. e /\ e1 <= Limits[0].block[1] /\ e2 <= Limits[0].block[2]
    BY <1>2, <2>4
  <2> HIDE DEF e1, e2, n
  <2>6. e1 * e2 <= n /\ e <= n
    <3>1. e1 * e2 <= e * e2 /\ e2 * e <= e * e /\ e * e2 = e2 * e
      BY <2>5, TimesMonotone
    <3>2. e <= e * e
      BY TimesPositive
    <3> QED BY <1>1, <2>4, <2>5, <3>1, <3>2
  <2>7. e1 <= n /\ e2 <= n /\ e1 * e2 * 1 <= n
    BY <1>1, <2>5, <2>6
  <2> QED BY <1>1, <1>2, <2>1, <2>3, <2>5, <2>7, OneBlock DEF IsLaunch, g, work, n
<1>5. CASE c.op = "volume"
  <2>1. g = Geometry3D(work[1], work[2], work[3])
    BY <1>5 DEF Geometry, OneD
  <2> HIDE DEF g, work
  <2> DEFINE block == [axis \in Axes |-> Edge(axis, CubeRoot)]
             size == <<work[1], work[2], work[3]>>
  <2>2. g = [grid |-> [axis \in Axes |-> BlocksFor(size[axis], block[axis])], block |-> block]
    BY <2>1 DEF Geometry3D
  <2>3. \A axis \in Axes : size[axis] = work[axis]
    BY <1>2
  <2>4. PICK e \in Nat \ {0} :
          /\ e * e * e <= n
          /\ \A axis \in Axes : /\ Edge(axis, CubeRoot) \in 1 .. e
                                /\ Edge(axis, CubeRoot) <= Limits[0].block[axis]
    BY CubeEdges
  <2>5. \A axis \in Axes : block[axis] \in 1 .. e /\ block[axis] <= Limits[0].block[axis]
    BY <2>4
  <2>6. \A axis \in Axes : g.block[axis] = block[axis]
                           /\ g.grid[axis] = BlocksFor(work[axis], block[axis])
    BY <2>2, <2>3
  <2> HIDE DEF block, size, n
  <2>7. block[1] * block[2] * block[3] <= n /\ e <= n
    <3> DEFINE x == block[1]
               y == block[2]
               z == block[3]
    <3>1. x \in 1 .. e /\ y \in 1 .. e /\ z \in 1 .. e
      BY <1>2, <2>5
    <3> HIDE DEF x, y, z
    <3>2. x * y \in Nat /\ e * e \in Nat /\ x * y <= e * e
      <4>1. x * y <= e * y /\ y * e <= e * e /\ e * y = y * e
        BY <3>1, TimesMonotone
      <4> QED BY <3>1, <4>1
    <3>3. (x * y) * z <= (e * e) * z /\ z * (e * e) <= e * (e * e)
      BY <3>1, <3>2, TimesMonotone
    <3>4. (e * e) * z = z * (e * e) /\ e * (e * e) = e * e * e
      BY <3>1
    <3>5. e <= e * (e * e)
      BY <3>2, TimesPositive
    <3>6. (x * y) * z \in Nat /\ (e * e) * z \in Nat /\ e * (e * e) \in Nat
      BY <3>1, <3>2
    <3>7. (x * y) * z <= n /\ e <= n
      BY <1>1, <2>4, <3>3, <3>4, <3>5, <3>6 DEF n
    <3> QED BY <3>7 DEF x, y, z
  <2>8. \A axis \in Axes : block[axis] \in Nat \ {0} /\ block[axis] <= n
    BY <1>1, <2>5, <2>7
  <2> QED BY <1>2, <2>5, <2>6, <2>7, <2>8 DEF IsLaunch, g, work, n
<1> QED BY <1>3, <1>4, <1>5 DEF WellFormed

\* The blocks for work that device 0's grid can hold.
LEMMA EnoughBlocks ==
  ASSUME NEW n \in Nat \ {0}, NEW block \in Nat \ {0}, NEW grid \in Nat, NEW threads \in Nat,
         block <= threads, n <= block * grid,
         (grid + 1) * threads <= 2^Bits64, grid < 2^Bits32
  PROVE  BlocksFor(n, block) \in 1 .. grid
<1> DEFINE x == n + block - 1
<1>1. x \in Nat /\ block <= x /\ x < (grid + 1) * block
  <2>1. (grid + 1) * block = block * grid + block /\ block * grid \in Nat
    OBVIOUS
  <2> QED BY <2>1
<1>2. x < 2^Bits64
  <2>1. (grid + 1) * block <= (grid + 1) * threads
    <3>1. block * (grid + 1) <= threads * (grid + 1)
      BY TimesMonotone
    <3> QED BY <3>1
  <2>2. (grid + 1) * block \in Nat /\ (grid + 1) * threads \in Nat
    OBVIOUS
  <2> HIDE DEF x
  <2> QED BY <1>1, <2>1, <2>2, ShapeAssumption
<1> HIDE DEF x
<1>3. x \div block \in Nat /\ x \div block < grid + 1
  BY ONLY <1>1, grid \in Nat, block \in Nat \ {0}, grid + 1 \in Nat, Quotient
<1>4. x \div block # 0
  BY <1>1
<1>5. x \div block < 2^Bits32
  BY <1>3, ShapeAssumption
<1>6. Word64(x) = x /\ Word32(x \div block) = x \div block
  BY <1>1, <1>2, <1>3, <1>5, Words
<1>7. BlocksFor(n, block) = x \div block
  BY <1>6 DEF BlocksFor, x
<1> QED BY <1>3, <1>4, <1>7

\* An array with elements has some along each dimension, even if its size has wrapped.
LEMMA NoEmptyDimension ==
  ASSUME NEW dims \in Seq(Nat), Size(dims) # 0
  PROVE  \A i \in 1 .. Len(dims) : dims[i] # 0
<1> DEFINE n == Len(dims)
           s == Sizes(dims)
           T == {i \in 1 .. n : s[i] # 0}
<1>1. /\ n \in Nat /\ \A i \in 1 .. n : dims[i] \in Nat
      /\ s \in [0 .. n -> Nat] /\ \A i \in 1 .. n : s[i] = Word64(s[i - 1] * dims[i])
  BY SizesAre
<1>2. s[n] # 0
  BY DEF Size
<1> HIDE DEF n, s
<1>3. ASSUME NEW i \in 1 .. n, s[i] # 0 PROVE s[i - 1] # 0 /\ dims[i] # 0
  <2>1. s[i - 1] \in Nat /\ dims[i] \in Nat
    <3>1. i - 1 \in 0 .. n
      BY <1>1
    <3> QED BY <1>1, <3>1
  <2>2. Word64(0) = 0
    BY Words, ShapeAssumption
  <2>3. ASSUME s[i - 1] = 0 \/ dims[i] = 0 PROVE FALSE
    <3>1. s[i - 1] * dims[i] = 0
      BY <2>1, <2>3
    <3> QED BY <1>1, <1>3, <2>2, <3>1
  <2> QED BY <2>3
<1>4. ASSUME NEW i \in 1 .. n - 1, i + 1 \in T PROVE i \in T
  <2>1. i \in 1 .. n /\ (i + 1) - 1 = i /\ i + 1 \in 1 .. n
    BY <1>1
  <2> QED BY <1>3, <1>4, <2>1
<1>5. n # 0 => n \in T
  BY <1>1, <1>2
<1> HIDE DEF T
<1>6. 1 .. n \subseteq T
  <2>1. CASE n = 0
    BY <2>1
  <2>2. CASE n # 0
    BY <1>1, <1>4, <1>5, <2>2, Downwards
  <2> QED BY <2>1, <2>2
<1> QED BY <1>3, <1>6 DEF T, n

\* An operation with a result has work along each axis.
LEMMA WorkIs ==
  ASSUME NEW c, WellFormed(c), Size(ResultDims(c)) # 0, Size(ResultDims(c)) \in Nat
  PROVE  \A axis \in Axes : Work(c)[axis] \in Nat \ {0}
<1> DEFINE work == Work(c)
<1>0. \A axis \in Axes : axis \in {1, 2, 3}
  BY DEF Axes
<1>1. CASE c.op \in OneD
  <2>1. work = <<Size(ResultDims(c)), 1, 1>>
    BY <1>1 DEF Work, OneD
  <2> QED BY <1>0, <2>1
<1>2. CASE c.op = "matrix_multiply"
  <2>1. work = <<N(c), M(c), 1>>
    BY <1>2 DEF Work, OneD
  <2>2. c.a \in Seq(Nat) /\ Len(c.a) = 2 /\ c.b \in Seq(Nat) /\ Len(c.b) = 2
    BY <1>2 DEF WellFormed
  <2>3. N(c) = c.b[2] /\ M(c) = c.a[1] /\ N(c) \in Nat /\ M(c) \in Nat
    BY <2>2 DEF M, N, Last
  <2> DEFINE r == ResultDims(c)
  <2>4. r = [c.a EXCEPT ![2] = N(c)]
    BY <1>2, <2>2 DEF ResultDims
  <2>5. r \in Seq(Nat) /\ Len(r) = 2 /\ r[1] = M(c) /\ r[2] = N(c)
    BY <2>2, <2>3, <2>4
  <2>6. r[1] # 0 /\ r[2] # 0
    <3> HIDE DEF r
    <3>1. Size(r) # 0
      BY DEF r
    <3> QED BY <2>5, <3>1, NoEmptyDimension
  <2> QED BY <1>0, <2>1, <2>3, <2>5, <2>6
<1>3. CASE c.op = "transpose"
  <2>1. work = <<c.a[2], c.a[1], 1>>
    BY <1>3 DEF Work, OneD
  <2>2. c.a \in Seq(Nat) /\ Len(c.a) = 2
    BY <1>3 DEF WellFormed
  <2> DEFINE r == ResultDims(c)
  <2>3. r = <<c.a[2], c.a[1]>>
    BY <1>3 DEF ResultDims
  <2>4. r \in Seq(Nat) /\ Len(r) = 2 /\ r[1] = c.a[2] /\ r[2] = c.a[1]
        /\ c.a[1] \in Nat /\ c.a[2] \in Nat
    BY <2>2, <2>3
  <2>5. r[1] # 0 /\ r[2] # 0
    <3> HIDE DEF r
    <3>1. Size(r) # 0
      BY DEF r
    <3>2. r \in Seq(Nat) /\ 1 \in 1 .. Len(r) /\ 2 \in 1 .. Len(r)
      BY <2>4
    <3>3. \A i \in 1 .. Len(r) : r[i] # 0
      BY ONLY <3>1, <3>2, NoEmptyDimension
    <3> QED BY <3>2, <3>3
  <2> QED BY <1>0, <2>1, <2>4, <2>5
<1>4. CASE c.op = "volume"
  <2>1. work = <<c.a[3], c.a[2], c.a[1]>>
    BY <1>4 DEF Work, OneD
  <2>2. c.a \in Seq(Nat) /\ Len(c.a) = 3 /\ Size(c.a) # 0
    BY <1>4 DEF WellFormed, ResultDims
  <2>3. \A i \in 1 .. 3 : c.a[i] \in Nat /\ c.a[i] # 0
    BY <2>2, NoEmptyDimension
  <2> QED BY <1>0, <2>1, <2>3
<1> QED BY <1>1, <1>2, <1>3, <1>4 DEF WellFormed

\* A device takes every launch that device 0 takes.
AtLeast(limit) ==
  /\ limit.threads >= Limits[0].threads
  /\ \A axis \in Axes : /\ limit.block[axis] >= Limits[0].block[axis]
                        /\ limit.grid[axis] >= Limits[0].grid[axis]

THEOREM LaunchFits ==
  ASSUME NEW c, WellFormed(c), Size(ResultDims(c)) # 0, Size(ResultDims(c)) \in Nat,
         \A axis \in Axes :
           ~(Work(c)[axis] > Geometry(c).block[axis] * Limits[0].grid[axis]),
         NEW limit, AtLeast(limit), limit.threads \in Nat,
         \A axis \in Axes : limit.block[axis] \in Nat /\ limit.grid[axis] \in Nat
  PROVE  Launchable(Geometry(c), limit)
<1> DEFINE g == Geometry(c)
           w == Work(c)
<1>1. IsLaunch(g, w)
  BY GeometryIs
<1>2. \A axis \in Axes : w[axis] \in Nat \ {0}
  BY WorkIs
<1>3. /\ Limits[0].threads \in Nat \ {0}
      /\ \A axis \in Axes : /\ Limits[0].block[axis] \in Nat \ {0}
                            /\ Limits[0].grid[axis] \in Nat
                            /\ Limits[0].grid[axis] < 2^Bits32
                            /\ (Limits[0].grid[axis] + 1) * Limits[0].threads <= 2^Bits64
  <2> DEFINE n == Limits[0].threads
             power == 2^Bits32
  <2>1. /\ n \in Nat \ {0} /\ power \in Nat /\ n * power <= 2^Bits64 /\ 2^Bits64 \in Nat
        /\ \A axis \in Axes : /\ Limits[0].block[axis] \in Nat \ {0}
                              /\ Limits[0].grid[axis] \in Nat
                              /\ Limits[0].grid[axis] < power
    BY LimitsAssumption, ShapeAssumption DEF Axes
  <2> HIDE DEF n, power
  <2>2. ASSUME NEW m \in Nat, m < power PROVE (m + 1) * n <= 2^Bits64
    <3>1. m + 1 \in Nat /\ m + 1 <= power
      BY <2>1, <2>2
    <3>2. (m + 1) * n <= power * n /\ power * n = n * power /\ (m + 1) * n \in Nat
          /\ n * power \in Nat
      BY <2>1, <3>1, TimesMonotone
    <3> QED BY <2>1, <3>2
  <2> QED BY <2>1, <2>2 DEF n, power
<1> HIDE DEF g, w
<1>4. ASSUME NEW axis \in Axes
      PROVE  g.grid[axis] \in 1 .. limit.grid[axis] /\ g.block[axis] <= limit.block[axis]
  <2>1. /\ g.block[axis] \in Nat \ {0}
        /\ g.block[axis] <= Limits[0].block[axis]
        /\ g.block[axis] <= Limits[0].threads
        /\ g.grid[axis] = BlocksFor(w[axis], g.block[axis])
    BY <1>1 DEF IsLaunch
  <2>2. w[axis] <= g.block[axis] * Limits[0].grid[axis]
    <3>1. w[axis] \in Nat /\ g.block[axis] * Limits[0].grid[axis] \in Nat
      BY <1>2, <1>3, <2>1
    <3>2. ~(w[axis] > g.block[axis] * Limits[0].grid[axis])
      BY DEF g, w
    <3> QED BY <3>1, <3>2
  <2>3. BlocksFor(w[axis], g.block[axis]) \in 1 .. Limits[0].grid[axis]
    <3> DEFINE x == w[axis]
               b == g.block[axis]
               m == Limits[0].grid[axis]
               n == Limits[0].threads
    <3>1. x \in Nat \ {0} /\ b \in Nat \ {0} /\ m \in Nat /\ n \in Nat /\ b <= n
          /\ x <= b * m /\ (m + 1) * n <= 2^Bits64 /\ m < 2^Bits32
      BY <1>2, <1>3, <2>1, <2>2
    <3> HIDE DEF x, b, m, n
    <3>2. BlocksFor(x, b) \in 1 .. m
      BY <3>1, EnoughBlocks
    <3> QED BY <3>2 DEF x, b, m
  <2> QED BY <1>3, <2>1, <2>3 DEF AtLeast
<1>5. g.block[1] * g.block[2] * g.block[3] <= limit.threads
  <2>1. g.block[1] \in Nat /\ g.block[2] \in Nat /\ g.block[3] \in Nat
    BY <1>1 DEF IsLaunch, Axes
  <2>2. g.block[1] * g.block[2] * g.block[3] \in Nat
    BY <2>1
  <2>3. g.block[1] * g.block[2] * g.block[3] <= Limits[0].threads
    BY <1>1 DEF IsLaunch
  <2> QED BY <1>3, <2>2, <2>3 DEF AtLeast
<1> QED BY <1>4, <1>5 DEF Launchable, g
-----------------------------------------------------------------------------
(* The numbers of threads.                                                 *)

LEMMA IdIs ==
  ASSUME NEW g, NEW axis, g.block[axis] \in Nat, NEW b, b[axis] \in Nat,
         NEW t, t[axis] \in Nat
  PROVE  /\ Id(g, b, t, axis) \in Nat
         /\ Id(g, b, t, axis) \in 0 .. 2^Bits32 - 1
<1> DEFINE x == b[axis] * g.block[axis] + t[axis]
<1>1. x \in Nat
  <2>1. b[axis] * g.block[axis] \in Nat
    BY TimesPositive
  <2> QED BY <2>1
<1> HIDE DEF x
<1>2. Word32(x) \in Nat /\ Word32(x) \in 0 .. 2^Bits32 - 1
  BY <1>1, ShapeAssumption DEF Word32
<1> QED BY <1>2 DEF Id, x

\* Two threads with the same number are the same, unless numbers wrap.
LEMMA IdOnce ==
  ASSUME NEW g, NEW axis, NEW n \in Nat, g.block[axis] = n, NEW m \in Int, g.grid[axis] = m,
         m * n <= 2^Bits32,
         NEW b, b[axis] \in 0 .. m - 1, NEW t, t[axis] \in 0 .. n - 1,
         NEW d, d[axis] \in 0 .. m - 1, NEW u, u[axis] \in 0 .. n - 1,
         Id(g, b, t, axis) = Id(g, d, u, axis)
  PROVE  b[axis] = d[axis] /\ t[axis] = u[axis]
<1> DEFINE i == b[axis]
           j == t[axis]
           k == d[axis]
           l == u[axis]
<1>1. m \in Nat /\ i \in Nat /\ j \in Nat /\ k \in Nat /\ l \in Nat
      /\ i < m /\ j < n /\ k < m /\ l < n /\ j \in 0 .. n - 1 /\ l \in 0 .. n - 1
  OBVIOUS
<1>2. Word32(i * n + j) = Word32(k * n + l)
  BY DEF Id
<1> HIDE DEF i, j, k, l
<1>3. /\ i * n + j \in Nat /\ i * n + j < m * n
      /\ k * n + l \in Nat /\ k * n + l < m * n
  BY <1>1, RowColumn
<1>4. i * n + j < 2^Bits32 /\ k * n + l < 2^Bits32
  BY <1>1, <1>3, ShapeAssumption
<1>5. i * n + j = k * n + l
  BY <1>2, <1>3, <1>4, Words
<1>6. i = k /\ j = l
  BY ONLY n \in Nat, <1>1, <1>5, SameRowColumn
<1> QED BY <1>6 DEF i, j, k, l
-----------------------------------------------------------------------------
(* The threads of a launch.                                                *)

LEMMA ResultDimsAre ==
  ASSUME NEW c, WellFormed(c), Checked(c)
  PROVE  ResultDims(c) \in Seq(Nat) /\ Size(ResultDims(c)) \in Nat
<1>1. ResultDims(c) \in Seq(Nat)
  <2>1. c.a \in Seq(Nat) /\ c.b \in Seq(Nat)
    BY DEF WellFormed
  <2>2. CASE c.op \in {"batched", "matrix_multiply"}
    <3>1. Len(c.a) = Len(c.b) /\ Len(c.a) >= 2
      <4>1. CASE c.op = "batched"
        <5>1. Len(c.a) >= 2
          BY <4>1 DEF WellFormed
        <5>2. Multipliable(c)
          BY <4>1 DEF Checked
        <5>3. Len(c.a) = Len(c.b)
          BY <5>2 DEF Multipliable
        <5> QED BY <5>1, <5>3
      <4>2. CASE c.op = "matrix_multiply"
        <5>1. Len(c.a) = 2 /\ Len(c.b) = 2
          BY <4>2 DEF WellFormed
        <5> QED BY <5>1
      <4> QED BY <2>2, <4>1, <4>2
    <3>2. Len(c.a) \in 1 .. Len(c.a) /\ N(c) \in Nat
      BY <2>1, <3>1 DEF N, Last
    <3>3. [c.a EXCEPT ![Len(c.a)] = N(c)] \in Seq(Nat)
      BY <2>1, <3>2
    <3> QED BY <2>2, <3>3 DEF ResultDims
  <2>3. CASE c.op = "transpose"
    <3>1. <<c.a[2], c.a[1]>> \in Seq(Nat)
      BY <2>1, <2>3 DEF WellFormed
    <3> QED BY <2>3, <3>1 DEF ResultDims
  <2>4. CASE c.op \notin {"batched", "matrix_multiply", "transpose"}
    BY <2>1, <2>4 DEF ResultDims
  <2> QED BY <2>2, <2>3, <2>4
<1> QED BY <1>1, SizeIsNat

LEMMA WorkIsNat ==
  ASSUME NEW c, WellFormed(c), Checked(c)
  PROVE  \A axis \in Axes : Work(c)[axis] \in Nat
<1>0. \A axis \in Axes : axis \in {1, 2, 3}
  BY DEF Axes
<1>1. CASE c.op \in OneD
  <2>1. Work(c) = <<Size(ResultDims(c)), 1, 1>>
    BY <1>1 DEF Work, OneD
  <2> QED BY <1>0, <2>1, ResultDimsAre
<1>2. CASE c.op = "matrix_multiply"
  <2>1. Work(c) = <<N(c), M(c), 1>>
    BY <1>2 DEF Work, OneD
  <2>2. c.a \in Seq(Nat) /\ Len(c.a) = 2 /\ c.b \in Seq(Nat) /\ Len(c.b) = 2
    BY <1>2 DEF WellFormed
  <2>3. N(c) \in Nat /\ M(c) \in Nat
    BY <2>2 DEF M, N, Last
  <2> QED BY <1>0, <2>1, <2>3
<1>3. CASE c.op = "transpose"
  <2>1. Work(c) = <<c.a[2], c.a[1], 1>>
    BY <1>3 DEF Work, OneD
  <2>2. c.a[1] \in Nat /\ c.a[2] \in Nat
    BY <1>3 DEF WellFormed
  <2> QED BY <1>0, <2>1, <2>2
<1>4. CASE c.op = "volume"
  <2>1. Work(c) = <<c.a[3], c.a[2], c.a[1]>>
    BY <1>4 DEF Work, OneD
  <2>2. c.a[1] \in Nat /\ c.a[2] \in Nat /\ c.a[3] \in Nat
    BY <1>4 DEF WellFormed
  <2> QED BY <1>0, <2>1, <2>2
<1> QED BY <1>1, <1>2, <1>3, <1>4 DEF WellFormed

LEMMA GridIsNat ==
  ASSUME NEW c, WellFormed(c), Checked(c)
  PROVE  \A axis \in Axes : /\ Geometry(c).grid[axis] \in Nat
                            /\ Geometry(c).block[axis] \in Nat \ {0}
<1> SUFFICES ASSUME NEW axis \in Axes
             PROVE  /\ Geometry(c).grid[axis] \in Nat
                    /\ Geometry(c).block[axis] \in Nat \ {0}
  OBVIOUS
<1> DEFINE n == Work(c)[axis]
           b == Geometry(c).block[axis]
<1>1. b \in Nat \ {0} /\ Geometry(c).grid[axis] = BlocksFor(n, b)
  BY GeometryIs DEF IsLaunch
<1>2. n \in Nat
  BY WorkIsNat
<1> HIDE DEF n, b
<1>3. n + b - 1 \in Nat
  BY <1>1, <1>2
<1>4. Word64(n + b - 1) \in Nat
  BY <1>3, Words
<1>5. Word64(n + b - 1) \div b \in Nat
  BY <1>1, <1>4, Divide
<1>6. BlocksFor(n, b) \in Nat
  BY <1>5, Words DEF BlocksFor
<1> QED BY <1>1, <1>6 DEF b

\* A launch has one thread along each axis its kernel does not use.
LEMMA UnusedAxes ==
  ASSUME NEW c, WellFormed(c), NEW axis \in Axes,
         \/ c.op \in OneD /\ axis # 1
         \/ c.op \in {"matrix_multiply", "transpose"} /\ axis = 3
  PROVE  Geometry(c).grid[axis] = 1 /\ Geometry(c).block[axis] = 1
<1>1. axis \in {1, 2, 3}
  BY DEF Axes
<1>2. CASE c.op \in OneD
  <2>1. Geometry(c) = Geometry1D(Work(c)[1])
    BY <1>2 DEF Geometry, OneD
  <2>2. axis \in {2, 3}
    BY <1>1, <1>2 DEF OneD
  <2> QED BY <2>1, <2>2 DEF Geometry1D
<1>3. CASE c.op \in {"matrix_multiply", "transpose"}
  <2>1. Geometry(c) = Geometry2D(Work(c)[1], Work(c)[2])
    BY <1>3 DEF Geometry, OneD
  <2>2. axis = 3
    BY <1>3 DEF OneD
  <2> QED BY <2>1, <2>2 DEF Geometry2D
<1> QED BY <1>2, <1>3

LEMMA CellsAre ==
  ASSUME NEW size, NEW b \in Cells(size)
  PROVE  /\ b = <<b[1], b[2], b[3]>>
         /\ \A axis \in Axes : b[axis] \in 0 .. size[axis] - 1
<1>1. \A axis \in Axes : axis \in {1, 2, 3}
  BY DEF Axes
<1>2. b = <<b[1], b[2], b[3]>> /\ b[1] \in 0 .. size[1] - 1 /\ b[2] \in 0 .. size[2] - 1
      /\ b[3] \in 0 .. size[3] - 1
  BY DEF Cells
<1> QED BY <1>1, <1>2

\* What thread t of block b stores.
ThreadOf(c, b, t) ==
  LET id(axis) == Id(Geometry(c), b, t, axis)
  IN  Thread(c, id(1), id(2), id(3))

LEMMA ThreadOfIs ==
  ASSUME NEW c, WellFormed(c), Checked(c),
         NEW b \in Cells(Geometry(c).grid), NEW t \in Cells(Geometry(c).block)
  PROVE  \A axis \in Axes : /\ Id(Geometry(c), b, t, axis) \in Nat
                            /\ Id(Geometry(c), b, t, axis) \in 0 .. 2^Bits32 - 1
<1> SUFFICES ASSUME NEW axis \in Axes
             PROVE  /\ Id(Geometry(c), b, t, axis) \in Nat
                    /\ Id(Geometry(c), b, t, axis) \in 0 .. 2^Bits32 - 1
  OBVIOUS
<1>1. Geometry(c).block[axis] \in Nat
  BY GridIsNat
<1>2. b[axis] \in Nat /\ t[axis] \in Nat
  BY CellsAre
<1> QED BY <1>1, <1>2, IdIs

\* Each element a launch reads or writes is there.
THEOREM LaunchWithin ==
  ASSUME NEW c, WellFormed(c), Checked(c), SizesFit(c), ~BeyondInt(c),
         NEW b \in Cells(Geometry(c).grid), NEW t \in Cells(Geometry(c).block),
         NEW s \in ThreadOf(c, b, t)
  PROVE  Within(c, s)
<1> DEFINE id(axis) == Id(Geometry(c), b, t, axis)
<1>1. id(1) \in Nat /\ id(2) \in Nat /\ id(3) \in Nat
  BY ThreadOfIs DEF Axes
<1>2. s \in Thread(c, id(1), id(2), id(3))
  BY DEF ThreadOf
<1> HIDE DEF id
<1> QED BY <1>1, <1>2, ThreadWithin

\* Each element is stored to by one thread of one block at most.
THEOREM LaunchOnce ==
  ASSUME NEW c, WellFormed(c), Checked(c), SizesFit(c), Numbered(c),
         c.op = "matrix_multiply" => M(c) * N(c) <= 2^Bits32,
         NEW b \in Cells(Geometry(c).grid), NEW t \in Cells(Geometry(c).block),
         NEW d \in Cells(Geometry(c).grid), NEW u \in Cells(Geometry(c).block),
         NEW r \in ThreadOf(c, b, t), NEW s \in ThreadOf(c, d, u), r.to = s.to
  PROVE  b = d /\ t = u
<1> DEFINE g == Geometry(c)
           x(axis) == Id(Geometry(c), b, t, axis)
           y(axis) == Id(Geometry(c), d, u, axis)
<1>0. 1 \in Axes /\ 2 \in Axes /\ 3 \in Axes /\ \A axis \in Axes : axis \in {1, 2, 3}
  BY DEF Axes
<1>1. SameThread(c, x(1), x(2), x(3), y(1), y(2), y(3))
  <2>1. \A axis \in Axes : x(axis) \in 0 .. 2^Bits32 - 1 /\ y(axis) \in 0 .. 2^Bits32 - 1
    BY ThreadOfIs
  <2>2. r \in Thread(c, x(1), x(2), x(3)) /\ s \in Thread(c, y(1), y(2), y(3))
    BY DEF ThreadOf
  <2> HIDE DEF x, y
  <2> QED BY <1>0, <2>1, <2>2, StoredOnce
<1>2. \A axis \in Axes : /\ b[axis] \in 0 .. g.grid[axis] - 1 /\ d[axis] \in 0 .. g.grid[axis] - 1
                         /\ t[axis] \in 0 .. g.block[axis] - 1 /\ u[axis] \in 0 .. g.block[axis] - 1
  BY CellsAre
<1>3. ASSUME NEW axis \in Axes, x(axis) = y(axis) PROVE b[axis] = d[axis] /\ t[axis] = u[axis]
  <2>1. g.block[axis] \in Nat /\ g.grid[axis] \in Int /\ g.grid[axis] * g.block[axis] <= 2^Bits32
    BY GridIsNat DEF Numbered
  <2>2. Id(g, b, t, axis) = Id(g, d, u, axis)
    BY <1>3
  <2> HIDE DEF g
  <2> QED BY <1>2, <2>1, <2>2, IdOnce
<1>4. ASSUME NEW axis \in Axes, g.grid[axis] = 1, g.block[axis] = 1
      PROVE  b[axis] = d[axis] /\ t[axis] = u[axis]
  <2> HIDE DEF g
  <2>1. b[axis] \in 0 .. 0 /\ d[axis] \in 0 .. 0 /\ t[axis] \in 0 .. 0 /\ u[axis] \in 0 .. 0
    BY <1>2, <1>4
  <2> QED BY <2>1
<1>5. \A axis \in Axes : b[axis] = d[axis] /\ t[axis] = u[axis]
  <2> SUFFICES ASSUME NEW axis \in Axes PROVE b[axis] = d[axis] /\ t[axis] = u[axis]
    OBVIOUS
  <2>1. CASE x(axis) = y(axis)
    BY <1>3, <2>1
  <2>2. CASE \/ c.op \in OneD /\ axis # 1
             \/ c.op \in {"matrix_multiply", "transpose"} /\ axis = 3
    <3>1. g.grid[axis] = 1 /\ g.block[axis] = 1
      BY <2>2, UnusedAxes
    <3> QED BY <1>4, <3>1
  <2>3. \/ x(axis) = y(axis)
        \/ c.op \in OneD /\ axis # 1
        \/ c.op \in {"matrix_multiply", "transpose"} /\ axis = 3
    <3> HIDE DEF x, y
    <3>1. x(1) = y(1) /\ (c.op \notin OneD => x(2) = y(2)) /\ (c.op = "volume" => x(3) = y(3))
      BY <1>1 DEF SameThread, WellFormed
    <3> QED BY <1>0, <3>1 DEF WellFormed
  <2> QED BY <2>1, <2>2, <2>3
<1>6. /\ b = <<b[1], b[2], b[3]>> /\ d = <<d[1], d[2], d[3]>>
      /\ t = <<t[1], t[2], t[3]>> /\ u = <<u[1], u[2], u[3]>>
  BY CellsAre
<1> QED BY <1>0, <1>5, <1>6
=============================================================================
