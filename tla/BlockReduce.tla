----------------------------- MODULE BlockReduce -----------------------------
(***************************************************************************)
(* The reductions and softmax of kernel.cuh, thread by thread.  The lanes   *)
(* of a warp exchange registers in lockstep (__shfl_down_sync), the warps   *)
(* of a block meet in shared memory and at barriers (__syncthreads), the    *)
(* blocks of a grid meet in one cell of global memory (atomicAdd, ...).     *)
(*                                                                         *)
(* Steps that touch a thread's own registers only are merged with the next  *)
(* step that others can see.                                                *)
(***************************************************************************)
EXTENDS Integers, FiniteSets, FiniteSetsExt, Functions

CONSTANTS WarpSize,   \* lanes of a warp: 32 on a device
          Launches,   \* the [kernel, grid, block] to consider
          Inputs,     \* the arrays to reduce, functions on 0 .. n-1
          Lowest,     \* (T)-INFINITY
          Highest,    \* (T)INFINITY
          Exp(_, _)   \* expf(x - m), as a function of x and m

Kernels == {"sum", "mean", "max", "min", "argmax", "softmax"}

\* A block has at most WarpSize warps, as the 1024 threads that CUDA allows
\* do.  softmax supports one block, as its comment says.
ASSUME BlockReduceAssumption ==
         /\ WarpSize \in Nat \ {0}
         /\ \A l \in Launches :
              /\ l.kernel \in Kernels
              /\ l.grid \in Nat \ {0} /\ l.block \in Nat \ {0}
              /\ l.block \div WarpSize \in 1 .. WarpSize
              /\ l.kernel = "softmax" => l.grid = 1

\* WarpSize is a power of two, 1 doubled n times, as the masks and shifts by 31
\* and 5 take for granted.
ASSUME WarpAssumption ==
         \E n \in 0 .. WarpSize : \E size \in [0 .. n -> 1 .. WarpSize] :
           /\ size[0] = 1 /\ size[n] = WarpSize
           /\ \A k \in 1 .. n : size[k] = 2 * size[k - 1]

\* Inputs are not empty, an index is an int, and a number is finite.
ASSUME InputsAssumption ==
         /\ Lowest \in Int /\ Highest \in Int
         /\ \A a \in Inputs :
              LET n == Cardinality(DOMAIN a)
              IN  /\ n \in Nat \ {0} /\ n <= Highest /\ DOMAIN a = 0 .. n - 1
                  /\ \A i \in DOMAIN a : a[i] \in Int /\ Lowest < a[i] /\ a[i] < Highest

VARIABLES launch,  \* kernel, gridDim.x and blockDim.x
          data,    \* the input
          pc,      \* where every thread is
          round,   \* softmax reduces twice
          val,     \* a thread's register val, or its Pair p
          ex,      \* softmax: a thread's register exp_val
          shared,  \* every block's shared memory
          output   \* *output; softmax: c

vars == <<launch, data, pc, round, val, ex, shared, output>>

Blocks   == 0 .. launch.grid - 1
Indices  == 0 .. launch.block - 1         \* values of threadIdx.x
Threads  == Blocks \X Indices
Softmax  == launch.kernel = "softmax"
NumWarps == launch.block \div WarpSize
Warps    == {i \div WarpSize : i \in Indices}

Lane(t) == t[2] % WarpSize
Wid(t)  == t[2] \div WarpSize
WarpOf(b, w) == {t \in Threads : t[1] = b /\ Wid(t) = w}
BlockOf(b)   == {t \in Threads : t[1] = b}

N      == Cardinality(DOMAIN data)
Idx(t) == t[1] * launch.block + t[2]

Pair(v, i) == [val |-> v, idx |-> i]

\* Mutant of BetterPair: the index does not break ties.
AnyPair(p, q) == IF q.val >= p.val THEN q ELSE p

\* The larger value, the smaller index of two equal ones.
BetterPair(p, q) ==
  IF q.val > p.val \/ (q.val = p.val /\ q.idx < p.idx) THEN q ELSE p

Larger(x, y)  == IF x < y THEN y ELSE x
Smaller(x, y) == IF y < x THEN y ELSE x

\* Softmax reduces a maximum first and a sum second.
Combine(r, x, y) ==
  CASE launch.kernel \in {"sum", "mean"} \/ (Softmax /\ r = 2) -> x + y
    [] launch.kernel = "max" \/ (Softmax /\ r = 1) -> Larger(x, y)
    [] launch.kernel = "min" -> Smaller(x, y)
    [] launch.kernel = "argmax" -> BetterPair(x, y)

\* Mutant of Outside: threads beyond the end contribute 0 to every reduction.
OutsideZero(t) == IF launch.kernel = "argmax" THEN Pair(0, Idx(t)) ELSE 0

\* What a thread beyond the end of the input contributes.
Outside(t) == CASE launch.kernel \in {"sum", "mean"} -> 0
                [] launch.kernel \in {"max", "softmax"} -> Lowest
                [] launch.kernel = "min" -> Highest
                [] launch.kernel = "argmax" -> Pair(Lowest, Idx(t))

\* data[idx]
Loaded(t) == IF Idx(t) \notin DOMAIN data THEN Outside(t)
             ELSE IF launch.kernel = "argmax" THEN Pair(data[Idx(t)], Idx(t))
             ELSE data[Idx(t)]

\* What the threads without a warp to read take instead.
Pad == IF launch.kernel = "argmax" THEN Pair(Lowest, -1) ELSE 0

\* What the caller has stored in *output before the launch.
Start == CASE launch.kernel \in {"sum", "mean"} -> 0
           [] launch.kernel = "max" -> Lowest
           [] launch.kernel \in {"min", "argmax"} -> Highest
           [] launch.kernel = "softmax" -> [i \in DOMAIN data |-> <<>>]

\* The grid covers the input.
Init == /\ launch \in Launches /\ data \in Inputs
        /\ N <= launch.grid * launch.block
        /\ pc = [t \in Threads |-> "shuffle"]
        /\ round = [t \in Threads |-> 1]
        /\ val = [t \in Threads |-> Loaded(t)]
        /\ ex = [t \in Threads |-> 0]
        /\ shared = [b \in Blocks |-> [w \in Warps |-> Pad]]
        /\ output = Start
-----------------------------------------------------------------------------
(* warpReduceSum, warpReduceMax, warpReduceMin and warpReduceMaxPair.      *)

\* One __shfl_down_sync: every lane combines its register with the one offset
\* lanes up, or its own when there is none.  (A lane of a partial warp gets an
\* undefined value; it ends in a cell that no thread reads.)
ShuffleDown(r, S, v, offset) ==
  [t \in S |-> LET u == <<t[1], t[2] + offset>>
               IN  Combine(r, v[t], IF u \in S THEN v[u] ELSE v[t])]

\* Mutant of WarpReduce: offset > 1 in the loop's condition.
WarpReduceShort(r, S) ==
  LET f[offset \in 1 .. WarpSize] ==
        IF offset > WarpSize \div 2 THEN [t \in S |-> val[t]]
        ELSE ShuffleDown(r, S, f[2 * offset], offset)
  IN  f[IF WarpSize > 2 THEN 2 ELSE WarpSize]

\* The registers of the threads S of a warp after the loop over the offsets
\* WarpSize / 2, ..., 2, 1.
WarpReduce(r, S) ==
  LET f[offset \in 1 .. WarpSize] ==
        IF offset > WarpSize \div 2 THEN [t \in S |-> val[t]]
        ELSE ShuffleDown(r, S, f[2 * offset], offset)
  IN  f[1]

\* The threads S reduce their registers and each goes on at next[t].
Reduce(r, S, next) ==
  /\ val' = [t \in Threads |-> IF t \in S THEN WarpReduce(r, S)[t] ELSE val[t]]
  /\ pc' = [t \in Threads |-> IF t \in S THEN next[t] ELSE pc[t]]
  /\ UNCHANGED <<launch, data, round, ex, shared, output>>

(* blockReduceSum, blockReduceMax, blockReduceMin and blockReduceMaxPair.  *)

GoTo(t, label) == pc' = [pc EXCEPT ![t] = label]

\* Every warp reduces its registers; lane 0 goes on to store the result.
Shuffle(b, w, r) ==
  LET S == WarpOf(b, w)
  IN  /\ \A t \in S : pc[t] = "shuffle" /\ round[t] = r
      /\ Reduce(r, S, [t \in S |-> IF Lane(t) = 0 THEN "write" ELSE "sync"])

\* Mutant of Write: the barrier is in the other branch, lane 0 skips it.
WriteUnsynced(t) ==
  /\ pc[t] = "write"
  /\ shared' = [shared EXCEPT ![t[1]][Wid(t)] = val[t]]
  /\ GoTo(t, "read")
  /\ UNCHANGED <<launch, data, round, val, ex, output>>

\* if (lane == 0) shared[wid] = val
Write(t) == /\ pc[t] = "write"
            /\ shared' = [shared EXCEPT ![t[1]][Wid(t)] = val[t]]
            /\ GoTo(t, "sync")
            /\ UNCHANGED <<launch, data, round, val, ex, output>>

\* Mutant of Barrier: no barrier.
BarrierMissing(b, from, to) ==
  \E t \in BlockOf(b) :
    /\ pc[t] = from
    /\ GoTo(t, to)
    /\ UNCHANGED <<launch, data, round, val, ex, shared, output>>

\* __syncthreads(): all threads of a block arrive before any goes on.
Barrier(b, from, to) ==
  /\ \A t \in BlockOf(b) : pc[t] = from
  /\ pc' = [t \in Threads |-> IF t[1] = b THEN to ELSE pc[t]]
  /\ UNCHANGED <<launch, data, round, val, ex, shared, output>>

\* Mutant of AfterReduction: the result is not left to thread 0.
AfterReductionEvery(t) == IF Softmax THEN "broadcast" ELSE "atomic"

\* What follows a block reduction: thread 0 has the result.
AfterReduction(t) == IF t[2] = 0 THEN IF Softmax THEN "broadcast" ELSE "atomic"
                     ELSE IF Softmax THEN "syncBroadcast" ELSE "done"

\* Mutant of ReadsWarp: the result of the last warp is not read.
ReadsWarpButLast(t) == t[2] < NumWarps - 1
ReadsWarp(t) == t[2] < NumWarps

\* As many threads as the block has whole warps read one warp's result each.
Read(t) ==
  /\ pc[t] = "read"
  /\ val' = [val EXCEPT ![t] = IF ReadsWarp(t) THEN shared[t[1]][Lane(t)] ELSE Pad]
  /\ GoTo(t, IF Wid(t) = 0 THEN "shuffle0" ELSE AfterReduction(t))
  /\ UNCHANGED <<launch, data, round, ex, shared, output>>

\* if (wid == 0) val = warpReduce(val)
ShuffleFirst(b, r) ==
  LET S == WarpOf(b, 0)
  IN  /\ \A t \in S : pc[t] = "shuffle0" /\ round[t] = r
      /\ Reduce(r, S, [t \in S |-> AfterReduction(t)])

(* The kernels, where they go on.                                          *)

\* Integer division in C rounds toward zero.
Quotient(x, y) == IF x >= 0 THEN x \div y ELSE -((-x) \div y)

\* if (threadIdx.x == 0) atomicAdd, atomicMax or atomicMin (output, result)
Atomic(t) ==
  /\ pc[t] = "atomic"
  /\ output' = CASE launch.kernel = "sum"    -> output + val[t]
                 [] launch.kernel = "mean"   -> output + Quotient(val[t], N)
                 [] launch.kernel = "max"    -> Larger(output, val[t])
                 [] launch.kernel = "min"    -> Smaller(output, val[t])
                 [] launch.kernel = "argmax" -> Smaller(output, val[t].idx)
  /\ GoTo(t, "done")
  /\ UNCHANGED <<launch, data, round, val, ex, shared>>

\* softmax: if (threadIdx.x == 0) shared[0] = max_val, or sum
Broadcast(t) == /\ pc[t] = "broadcast"
                /\ shared' = [shared EXCEPT ![t[1]][0] = val[t]]
                /\ GoTo(t, "syncBroadcast")
                /\ UNCHANGED <<launch, data, round, val, ex, output>>

\* softmax: max_val = shared[0]; the exponential is what the second reduction
\* starts from
TakeMax(t) ==
  /\ pc[t] = "take" /\ round[t] = 1
  /\ LET e == IF Idx(t) \in DOMAIN data THEN Exp(data[Idx(t)], shared[t[1]][0])
              ELSE 0
     IN  /\ ex' = [ex EXCEPT ![t] = e]
         /\ val' = [val EXCEPT ![t] = e]
  /\ round' = [round EXCEPT ![t] = 2]
  /\ GoTo(t, "shuffle")
  /\ UNCHANGED <<launch, data, shared, output>>

\* Mutant of TakeSum: the thread's own register stands for the sum.
TakeOwn(t) ==
  /\ pc[t] = "take" /\ round[t] = 2
  /\ output' = IF Idx(t) \in DOMAIN data
               THEN [output EXCEPT ![Idx(t)] = <<ex[t], val[t]>>]
               ELSE output
  /\ GoTo(t, "done")
  /\ UNCHANGED <<launch, data, round, val, ex, shared>>

\* softmax: sum = shared[0]; c[idx] = exp_val / sum, kept as the pair
TakeSum(t) ==
  /\ pc[t] = "take" /\ round[t] = 2
  /\ output' = IF Idx(t) \in DOMAIN data
               THEN [output EXCEPT ![Idx(t)] = <<ex[t], shared[t[1]][0]>>]
               ELSE output
  /\ GoTo(t, "done")
  /\ UNCHANGED <<launch, data, round, val, ex, shared>>
-----------------------------------------------------------------------------
Step(t) == \/ Write(t) \/ Read(t) \/ Atomic(t)
           \/ Broadcast(t) \/ TakeMax(t) \/ TakeSum(t)

Meet(b) == \/ Barrier(b, "sync", "read")
           \/ Barrier(b, "syncBroadcast", "take")
           \/ \E r \in {1, 2} : \/ \E w \in Warps : Shuffle(b, w, r)
                                \/ ShuffleFirst(b, r)

Next == \/ \E t \in Threads : Step(t)
        \/ \E b \in Blocks : Meet(b)

Spec == Init /\ [][Next]_vars

\* The device runs every block that can go on.
FairSpec == Spec /\ WF_vars(Next)
-----------------------------------------------------------------------------
Labels == {"shuffle", "write", "sync", "read", "shuffle0", "atomic", "done",
           "broadcast", "syncBroadcast", "take"}

\* Threads and their labels; only softmax goes through a second round, and only
\* thread 0 of a block ever stores its result.
TypeOK == /\ launch \in Launches
          /\ pc \in [Threads -> Labels]
          /\ round \in [Threads -> {1, 2}]
          /\ \A t \in Threads :
               /\ round[t] = 2 => Softmax
               /\ pc[t] \in {"broadcast", "syncBroadcast", "take"} => Softmax
               /\ pc[t] = "atomic" => ~Softmax
               /\ pc[t] \in {"atomic", "broadcast"} => t[2] = 0
               /\ pc[t] = "write" => Lane(t) = 0
               /\ pc[t] = "shuffle0" => Wid(t) = 0

Done == \A t \in Threads : pc[t] = "done"

\* The cells of shared memory a thread's next step reads or writes.
Reading(t) == CASE pc[t] = "read" /\ ReadsWarp(t) -> {Lane(t)}
                [] pc[t] = "take" -> {0}
                [] OTHER -> {}
Writing(t) == CASE pc[t] = "write" -> {Wid(t)}
                [] pc[t] = "broadcast" -> {0}
                [] OTHER -> {}

\* Nothing orders the next steps of t and u, and t writes what u uses.
Race(t, u) == /\ t[1] = u[1] /\ t # u
              /\ Writing(t) \cap (Writing(u) \cup Reading(u)) # {}

\* The barriers separate all conflicting accesses to shared memory but one pair,
\* in softmax: thread 0 stores the first warp's part of the sum while a thread
\* of another warp has yet to read the maximum.
RacesInSoftmaxOnly ==
  \A t, u \in Threads : Race(t, u) =>
    /\ Softmax
    /\ t[2] = 0 /\ pc[t] = "write" /\ round[t] = 2
    /\ Wid(u) # 0 /\ pc[u] = "take" /\ round[u] = 1

\* The elements of whole warps.  The threads of a warp that the block does not fill
\* load elements too, which no reduction counts.
Counted == {i \in DOMAIN data : (i % launch.block) \div WarpSize < NumWarps}
SumOf(S) == SumFunctionOnSet(data, S)
ValuesOf(S) == {data[i] : i \in S}

\* The sum of the elements of whole warps reaches *output, whatever the order of
\* warps and blocks.
SumCorrect == Done /\ launch.kernel = "sum" => output = SumOf(Counted)

\* Every block divides its own sum by n, so with integers the mean of the elements of
\* whole warps is missed by less than 1 per block.
MeanClose ==
  Done /\ launch.kernel = "mean" =>
    LET missed == SumOf(Counted) - N * output
    IN  missed < N * launch.grid /\ -missed < N * launch.grid

\* What a block with fewer than WarpSize warps takes for the results of the others.
Padding == IF NumWarps < WarpSize THEN {0} ELSE {}

\* The extreme of the elements of whole warps and the padding reaches *output, in any
\* order of warps and blocks.
ExtremeCorrect ==
  Done =>
    /\ launch.kernel = "max" => output = Max(ValuesOf(Counted) \cup Padding)
    /\ launch.kernel = "min" => output = Min(ValuesOf(Counted) \cup Padding)

FirstMaximum(S) == Min({i \in S : data[i] = Max(ValuesOf(S))})

\* One block finds the first of the largest elements of its whole warps.
ArgmaxOfBlock ==
  Done /\ launch.kernel = "argmax" /\ launch.grid = 1 =>
    output = FirstMaximum(Counted)

\* All threads of softmax divide by one number, the sum of what the threads of whole
\* warps computed, even when a thread read the wrong maximum: the results of whole
\* warps add up to 1, and those of a partial warp come on top.
Normalised ==
  Done /\ Softmax =>
    \A i \in DOMAIN data :
      output[i][2] = SumFunctionOnSet([j \in Counted |-> output[j][1]], Counted)

\* No thread waits at a barrier or in a shuffle that others never reach.
Termination == <>Done

(* What the comments of kernel.cuh say of any input and launch.             *)

\* "Sum reduction: computes sum of all elements."
SumOfInput == Done /\ launch.kernel = "sum" => output = SumOf(DOMAIN data)

\* "Mean reduction: computes arithmetic mean", "accumulated sum, then divided by n":
\* in integers, the quotient of the sum.
MeanOfInput ==
  Done /\ launch.kernel = "mean" => output = Quotient(SumOf(DOMAIN data), N)

\* "Maximum reduction: computes max element."
MaxOfInput == Done /\ launch.kernel = "max" => output = Max(ValuesOf(DOMAIN data))

\* "Minimum reduction: computes min element."
MinOfInput == Done /\ launch.kernel = "min" => output = Min(ValuesOf(DOMAIN data))

\* "Argmax reduction: computes index of maximum element", "smallest index on
\* ties".
ArgmaxOfInput ==
  Done /\ launch.kernel = "argmax" => output = FirstMaximum(DOMAIN data)

\* "Softmax (1D): c[i] = exp(a[i]) / sum(exp(a))": all threads subtract the same
\* maximum.
SoftmaxOfInput ==
  Done /\ Softmax =>
    \E m \in ValuesOf(DOMAIN data) \cup {0} : \A i \in DOMAIN data :
      output[i] = <<Exp(data[i], m),
                    SumFunctionOnSet([j \in DOMAIN data |-> Exp(data[j], m)],
                                     DOMAIN data)>>

\* The same: whatever is subtracted, the results add up to 1.
SoftmaxAddsUp ==
  Done /\ Softmax =>
    \A i \in DOMAIN data :
      output[i][2] = SumFunctionOnSet([j \in DOMAIN data |-> output[j][1]], DOMAIN data)

\* What the comments say of a block of any size: sum_reduce, argmax_reduce and softmax
\* count all elements, those of a warp that the block does not fill too.
PartialWarpsCount == SumOfInput /\ ArgmaxOfInput /\ SoftmaxAddsUp

\* What they say of elements of any type and sign: mean_reduce divides the sum, and
\* max_reduce and min_reduce find an element, not the zero of lanes without a warp.
ValuesAsDocumented == MeanOfInput /\ MaxOfInput /\ MinOfInput

\* Where the comments are right: the block consists of whole warps; for the extremes
\* of as many as fill the first warp with their results; for argmax there is one block.
AsDocumented ==
  launch.block % WarpSize = 0 =>
    /\ SumOfInput /\ SoftmaxAddsUp
    /\ NumWarps = WarpSize => MaxOfInput /\ MinOfInput
    /\ launch.grid = 1 => ArgmaxOfInput
=============================================================================
