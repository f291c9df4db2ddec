------------------------------ MODULE Kernels ------------------------------
(***************************************************************************)
(* How the launch wrappers divide work among threads, and which elements a  *)
(* thread of each kernel reads and writes.  The value a thread stores is    *)
(* kept as what it was made from: the positions of the elements it read.    *)
(*                                                                         *)
(* A call is a record: op, the kernel, and a and b, the dimensions of its   *)
(* operands, or of its result if it has none.                               *)
(***************************************************************************)
EXTENDS Integers, Shape, FiniteSets, Functions

CONSTANT Limits  \* per device: threads of a block, block and grid dimensions

\* A block of device 0 may have all its threads along the first axis, and size_t can
\* number the threads of as many blocks as unsigned int can.
ASSUME LimitsAssumption ==
  /\ \A d \in DOMAIN Limits : /\ Limits[d].threads \in Nat \ {0}
                              /\ \A axis \in 1 .. 3 : /\ Limits[d].block[axis] \in Nat \ {0}
                                                      /\ Limits[d].grid[axis] \in Nat
  /\ 0 \in DOMAIN Limits
  /\ Limits[0].threads <= Limits[0].block[1]
  /\ \A axis \in 1 .. 3 : Limits[0].grid[axis] < 2^Bits32
  /\ Limits[0].threads * 2^Bits32 <= 2^Bits64

Least(x, y) == IF x < y THEN x ELSE y
Most(x, y)  == IF x < y THEN y ELSE x
Axes == 1 .. 3

\* int holds the bits of an unsigned int.
Signed(x) == IF x < 2^(Bits32 - 1) THEN x ELSE x - 2^Bits32

(* The launch wrappers take their limits from device 0, whichever is set.  *)

\* Mutant of BlocksFor: rounds down.
BlocksForWhole(n, block) == Word32(n \div block)

\* (n + block - 1) / block, cut to the unsigned int of a dim3
BlocksFor(n, block) == Word32(Word64(n + block - 1) \div block)

Geometry1D(n) == LET block == Limits[0].threads
                 IN  [grid |-> <<BlocksFor(n, block), 1, 1>>, block |-> <<block, 1, 1>>]

Square(e) == e * e
Cube(e)   == e * e * e

\* The largest edge of a square or a cube of at most the threads of a block.
SquareRoot == CHOOSE e \in 1 .. Limits[0].threads :
                Square(e) <= Limits[0].threads /\ Square(e + 1) > Limits[0].threads
CubeRoot   == CHOOSE e \in 1 .. Limits[0].threads :
                Cube(e) <= Limits[0].threads /\ Cube(e + 1) > Limits[0].threads

\* At least 1 and within the device's block dimensions.
Edge(axis, root) == Most(Least(root, Limits[0].block[axis]), 1)

Geometry2D(width, height) ==
  LET block == <<Edge(1, SquareRoot), Edge(2, SquareRoot), 1>>
  IN  [grid |-> <<BlocksFor(width, block[1]), BlocksFor(height, block[2]), 1>>,
       block |-> block]

Geometry3D(width, height, depth) ==
  LET block == [axis \in Axes |-> Edge(axis, CubeRoot)]
      size == <<width, height, depth>>
  IN  [grid |-> [axis \in Axes |-> BlocksFor(size[axis], block[axis])], block |-> block]

\* What a device takes for a launch.
Launchable(g, limit) ==
  /\ \A axis \in Axes : /\ g.grid[axis] \in 1 .. limit.grid[axis]
                        /\ g.block[axis] <= limit.block[axis]
  /\ g.block[1] * g.block[2] * g.block[3] <= limit.threads

Cells(size) == (0 .. size[1] - 1) \X (0 .. size[2] - 1) \X (0 .. size[3] - 1)

\* Mutant of Id: the factor is one short, so that blocks overlap.
IdOverlapping(g, b, t, axis) == Word32(b[axis] * (g.block[axis] - 1) + t[axis])

\* blockIdx * blockDim + threadIdx, an unsigned int
Id(g, b, t, axis) == Word32(b[axis] * g.block[axis] + t[axis])
-----------------------------------------------------------------------------
(* The kernels.  M, K and N are the dimensions of a matrix product.        *)

OneD == {"fill", "arange", "eye", "random", "elementwise", "batched"}
Factories == {"fill", "arange", "eye", "random"}

M(c) == c.a[Len(c.a) - 1]
K(c) == Last(c.a)
N(c) == Last(c.b)

ResultDims(c) ==
  CASE c.op \in {"batched", "matrix_multiply"} -> [c.a EXCEPT ![Len(c.a)] = N(c)]
    [] c.op = "transpose" -> <<c.a[2], c.a[1]>>
    [] OTHER -> c.a

\* What types, and the callers of the kernels no operator launches, see to.
WellFormed(c) ==
  /\ c.op \in OneD \cup {"matrix_multiply", "transpose", "volume"}
  /\ c.a \in Seq(Nat) /\ c.b \in Seq(Nat)
  /\ c.op = "arange" => Len(c.a) = 1
  /\ c.op = "batched" => Len(c.a) >= 2 /\ Len(c.b) >= 1
  /\ c.op \in {"eye", "matrix_multiply", "transpose"} => Len(c.a) = 2
  /\ c.op = "matrix_multiply" => Len(c.b) = 2 /\ c.b[1] = K(c)
  /\ c.op = "volume" => Len(c.a) = 3

\* The sizes that index arithmetic relies on do not wrap.
SizesFit(c) ==
  /\ c.op \in {"batched", "matrix_multiply", "transpose", "volume"} =>
       NoWrap(c.a) /\ NoWrap(ResultDims(c))
  /\ c.op \in {"batched", "matrix_multiply"} => NoWrap(c.b)

\* What int cannot count: the elements of an elementwise operation, whose index turns
\* negative, or the products of a sum in matrix_multiply, where int i overflows, which
\* is undefined.
BeyondInt(c) ==
  \/ c.op = "elementwise" /\ Word32(Size(c.a)) > 2^(Bits32 - 1)
  \/ c.op = "matrix_multiply" /\ Word32(K(c)) >= 2^(Bits32 - 1)

\* The threads a kernel wants along each axis.
Work(c) ==
  CASE c.op \in OneD            -> <<Size(ResultDims(c)), 1, 1>>
    [] c.op = "matrix_multiply" -> <<N(c), M(c), 1>>
    [] c.op = "transpose"       -> <<c.a[2], c.a[1], 1>>
    [] c.op = "volume"          -> <<c.a[3], c.a[2], c.a[1]>>

Geometry(c) ==
  LET work == Work(c)
  IN  CASE c.op \in OneD                             -> Geometry1D(work[1])
        [] c.op \in {"matrix_multiply", "transpose"} -> Geometry2D(work[1], work[2])
        [] c.op = "volume"                           -> Geometry3D(work[1], work[2], work[3])

\* The launch has no more threads along an axis than an unsigned int can number.
Numbered(c) ==
  \A axis \in Axes : Geometry(c).grid[axis] * Geometry(c).block[axis] <= 2^Bits32

\* One element stored: where, made from what, reading which operand's elements.
Store(to, value, reads) == {[to |-> to, value |-> value, reads |-> reads]}

\* 5 divides no power of 2, as no odd factor but 1 does.
ASSUME FactorAssumption == 2^Bits32 % 5 # 0

\* Mutant of RandomState: an even factor.
RandomStateEven(x) == Word32(x * 6)

\* seed + idx * 2654435761u, cut to unsigned int; any odd factor will do.
RandomState(x) == Word32(x * 5)

\* fill, arange, eye, random_uniform and random_normal: size_t idx.
Create(c, x) ==
  IF x >= Size(c.a) THEN {}
  ELSE Store(x, CASE c.op = "fill"   -> <<>>
                  [] c.op = "arange" -> x
                  [] c.op = "eye"    -> x \div c.a[2] = x % c.a[2]
                  [] c.op = "random" -> RandomState(x),
             {})

\* Mutant of Elementwise: i <= size.
ElementwiseOneMore(c, x) ==
  IF x > Word32(Size(c.a)) THEN {}
  ELSE LET i == Signed(x) IN Store(i, <<i, i>>, {<<"a", i>>, <<"b", i>>})

\* add and all elementwise kernels: int i, uint32_t size.  The comparison is
\* unsigned, the index is not.
Elementwise(c, x) ==
  IF x >= Word32(Size(c.a)) THEN {}
  ELSE LET i == Signed(x) IN Store(i, <<i, i>>, {<<"a", i>>, <<"b", i>>})

\* The element a sum of products makes, and what it reads.
Dot(to, product) ==
  Store(to, product, {<<"a", product[k][1]>> : k \in DOMAIN product}
                       \cup {<<"b", product[k][2]>> : k \in DOMAIN product})

\* Mutant of BatchOffset: tmp /= dims[d] is missing.
BatchOffsetUndivided(batch, dims, strides) ==
  LET offset[d \in 0 .. Len(dims) - 2] ==
        IF d = 0 THEN 0 ELSE Word64(offset[d - 1] + (batch % dims[d]) * strides[d])
  IN  offset[Len(dims) - 2]

\* What is left of the batch index when its digit for a dimension is taken, from the
\* last dimension on.
BatchRest(batch, dims) ==
  LET n == Len(dims) - 2
      tmp[d \in 1 .. n] == IF d = n THEN batch ELSE tmp[d + 1] \div dims[d + 1]
  IN  tmp

\* The sum of idx * strides[d] over the batch dimensions, where idx are the digits.
BatchOffset(batch, dims, strides) ==
  LET n == Len(dims) - 2
      tmp == BatchRest(batch, dims)
      offset[d \in 0 .. n] ==
        IF d = 0 THEN 0
        ELSE Word64(offset[d - 1] + (tmp[d] % dims[d]) * strides[d])
  IN  offset[n]

\* batched_matmul_kernel: size_t tid
Batched(c, x) ==
  IF x >= Size(ResultDims(c)) THEN {}
  ELSE LET batch  == x \div (M(c) * N(c))
           local  == x % (M(c) * N(c))
           i      == local \div N(c)
           j      == local % N(c)
           rank   == Len(c.a)
           sA     == Strides(c.a)
           sB     == Strides(c.b)
           sC     == Strides(ResultDims(c))
           base(s) == BatchOffset(batch, c.a, s)
       IN  Dot(Word64(base(sC) + i * sC[rank - 1] + j * sC[rank]),
               [k \in 0 .. K(c) - 1 |->
                  <<Word64(base(sA) + i * sA[rank - 1] + k * sA[rank]),
                    Word64(base(sB) + k * sB[rank - 1] + j * sB[rank])>>])

\* matrix_multiply: M, N and K are cut to uint32_t, and all indices are unsigned, as
\* uint32_t wins over int.
MatrixMultiply(c, col, row) ==
  LET kk == Word32(K(c))
      nn == Word32(N(c))
  IN  IF row >= Word32(M(c)) \/ col >= nn THEN {}
      ELSE Dot(Word32(row * nn + col),
               [k \in 0 .. kk - 1 |-> <<Word32(row * kk + k), Word32(k * nn + col)>>])

\* transpose: int row and col, which are huge as size_t when negative.
Transpose(c, x, y) ==
  LET row == Signed(y)
      col == Signed(x)
  IN  IF row \notin 0 .. c.a[1] - 1 \/ col \notin 0 .. c.a[2] - 1 THEN {}
      ELSE LET from == Word64(row * c.a[2] + col)
           IN  Store(Word64(col * c.a[1] + row), from, {<<"a", from>>})

\* A kernel of the client's that stores at every point of a volume.
Volume(c, x, y, z) ==
  IF x >= c.a[3] \/ y >= c.a[2] \/ z >= c.a[1] THEN {}
  ELSE Store((z * c.a[2] + y) * c.a[3] + x, <<z, y, x>>, {})

\* What the thread with these unsigned indices stores: one element or none.
Thread(c, x, y, z) ==
  CASE c.op \in Factories        -> Create(c, x)
    [] c.op = "elementwise"      -> Elementwise(c, x)
    [] c.op = "batched"          -> Batched(c, x)
    [] c.op = "matrix_multiply"  -> MatrixMultiply(c, x, y)
    [] c.op = "transpose"        -> Transpose(c, x, y)
    [] c.op = "volume"           -> Volume(c, x, y, z)
=============================================================================
