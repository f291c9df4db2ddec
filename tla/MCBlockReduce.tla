--------------------------- MODULE MCBlockReduce ---------------------------
(* BlockReduce with warps of two or four lanes.                            *)
EXTENDS BlockReduce

Launch(k, g, b) == [kernel |-> k, grid |-> g, block |-> b]

\* One block with a single warp, with a partial one, with as many warps as a
\* warp has lanes, and two blocks; warps have two lanes.
MCLaunches ==
  {Launch(k, 1, b) : k \in Kernels, b \in {2, 3, 4}}
    \cup {Launch(k, 2, b) : k \in Kernels \ {"softmax"}, b \in {2, 4}}

\* One element, a block that is not full, a full one, and two blocks.
MCInputs == UNION {[0 .. n - 1 -> {-1, 1}] : n \in {1, 3, 4, 6}}

\* Launches for which a comment of kernel.cuh is wrong: blocks with a partial warp; two
\* blocks, or fewer warps than lanes; more blocks, or warps, than one.
MCPartial == {Launch(k, 1, 3) : k \in {"sum", "argmax", "softmax"}}
MCWhole   == {Launch("mean", 2, 2), Launch("max", 1, 2), Launch("min", 1, 2)}
MCArgmax  == {Launch("argmax", 2, 2)}
MCSoftmax == {Launch("softmax", 1, 4)}
MCThree   == [0 .. 2 -> {-1, 1}]
MCFour    == [0 .. 3 -> {-1, 1}]
MCTwoFour == [0 .. 1 -> {-1, 1}] \cup MCFour

MCLowest  == -100
MCHighest == 100

\* exp with base 3, cut to integers: 0 far below m.
MCExp(x, m) == IF m > x + 2 THEN 0 ELSE 3 ^ (x - m + 2)
=============================================================================
