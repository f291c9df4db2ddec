# cudalern in TLA+

This directory specifies the parts of [cudalern](../src/README.md) whose correctness depends on the
order of things or on the width of numbers: who owns a CUDA stream or a device allocation, what is still
in flight on the device when the host goes on, how the threads of a block meet in shared memory, which
thread stores which element, and what a program reads back. The modules are checked with TLC on small
instances; their invariants are proved with TLAPS, for every size, shape and program.

Source paths below are relative to `src/`; `NdArray.hpp`, `kernel.cuh` etc. stand for the files in
`include/cudalern/`.

## Inventory

| part | state | operations | talks to |
|---|---|---|---|
| `Stream` (`ABI/memory/stream.hpp`, `src/ABI/memory/stream.cpp`) | a `shared_ptr<cudaStream_t>` with a deleter | constructors, copies, moves, destructor, `reset`, `take`, `get`, `synchronize`, `valid` | the CUDA runtime |
| memory (`ABI/memory/memory.hpp`, `allocator.hpp`) | none; deleters hold a `Stream` | allocate and free device, pinned, managed memory; `memcpy`, `memset` | streams |
| `NdArray` (`Containers/NdArray.hpp`) | `m_Data` (shared), `m_Stream`, dimensions, strides, `m_Size` | constructors, assignments, `release`, factories, operators, comparisons, math, matrix product, element and host access | memory, launch wrappers |
| `NdView` (same file) | `weak_ptr` to data, own `Stream`, offset, dimensions, strides | `operator[]`, `get`, `set` | the array's data |
| kernels (`ABI/kernel/kernel.cuh`) | shared memory of a block | elementwise, matrix product, transpose, sum/mean/max/min/argmax, softmax | - |
| launch wrappers (`ABI/kernel/kernel_wrappers.hpp`) | none | 1D, 2D, 3D grid computation | device properties |
| device (`Core/Device`) | function-local singletons, the global `gDeviceHandler` | properties, memory status, `setDevice`, context initialisation | CUDA runtime |
| host (`Core/Host`) | fields read once | formatting | operating system |
| core (`Core/*.hpp`) | none | concepts, constants, log macros | - |

What is hard, and what has to hold:

* **Streams and data are shared.** Copies of a `Stream` share one control block, a deleter inside a
  `shared_ptr` holds another `Stream`, an array can share the data of another, a view holds a weak
  reference. *Nothing is destroyed while it is referred to, nothing is leaked, nothing is freed twice.*
* **The device is asynchronous.** A kernel runs on the stream of the left operand, the result and the
  right operand belong to other streams, and `cudaFreeAsync` is queued on a third. Calls differ in what
  they wait for. *No two streams touch one allocation at a time unless both read; no kernel uses freed
  memory; a read returns what program order says.*
* **Calls fail part-way**: stream creation, allocation, kernel launch. *An error leaves arrays that can
  be used and destroyed, and no memory without an owner.*
* **The host blocks** in nearly every call. *Every call returns, and freed memory comes back.*
* **Blocks of threads** in the reductions and softmax: barriers, warps, a shared array that is used
  again. *Every thread reads the result of its own block's reduction; no thread waits at a barrier that
  another never reaches.*
* **Numbers**: grids cut to 32 bits, an `int` index, sizes that wrap, shapes that do not fit. *Every
  element is computed once, by a thread that stays within its arrays; strides and views address every
  element once.*
* **State that goes stale**: launches are configured for the device the handler was made with, streams
  belong to the device that was current. *A launch fails only for reasons the program can know.*

The file `PROJECT.json` lists every such hazard at its line with the properties that cover it.

## The modules

| module | what it is |
|---|---|
| `HandleOwners` | what stream owners promise: a stream exists exactly as long as an owner denotes it |
| `Stream` | the class `Stream` with control blocks and deleters; implements `HandleOwners` |
| `StreamProof` | TLAPS proofs about `Stream` |
| `ArrayValues` | what arrays promise a host program: plain values, no device |
| `NdArray` | arrays, views, allocations, streams and the host thread; implements `ArrayValues` for programs whose operations wait |
| `NdArrayProof` | TLAPS proofs about `NdArray`, for every program |
| `NdArraySyncProof` | TLAPS proofs about `NdArray`, for programs whose operations wait |
| `NdArrayRefinementProof` | TLAPS proof that these programs cannot tell `NdArray` from `ArrayValues` |
| `NdArrayAsyncProof` | TLAPS proofs about `NdArray`, for programs that also use the operators that do not wait |
| `BlockReduce` | the reductions and softmax of `kernel.cuh`, thread by thread |
| `BlockReduceProof` | TLAPS proofs about `BlockReduce` |
| `Shape` | sizes, strides, offsets, views and nested sequences, in unsigned words |
| `Kernels` | the launch wrappers, and what each thread of the other kernels reads and stores |
| `KernelsProof` | TLAPS proofs about `Shape` and `Kernels` |
| `Device` | the current device, `gDeviceHandler` and the singletons behind it |
| `Compute` | composes `Shape`, `Kernels` and `Device`: one computation from operands to subscripts |
| `ComputeProof` | TLAPS proofs about `Compute` |
| `MCStream`, `MCNdArray`, `MCBlockReduce`, `MCCompute` | constants for TLC |

`NdArray` and `Compute` look at one library from two sides. `NdArray` has many arrays and calls in
flight, and one value for all the contents of an array. `Compute` has one call at a time, waited for, and
every element of its result. What `NdArray` shows about waiting is what lets `Compute` treat a call as
finished when its blocks have run.

### Stream

`alive`, `cell` and `raw` are the objects, the control block each refers to and the raw handle in each
block; `live` is the set of streams the runtime knows; `client` the ones the program created itself and
has not handed over. One action per member function. The reference count is not a variable: the cells
that stop being referred to in a step are the ones whose deleter runs in that step (`Rebind`,
`Destroyed`). `Construct` and `reset` may fail to create a stream. A program hands a raw handle over at
most once (`h \in client` in `ConstructFrom` and `Take`): the tests do so
(`src/tests/test_memory.cpp:61-72`), and `SingleOwner` cannot hold otherwise. The heap cell of a
`cudaStream_t` is never deleted by `StreamDeleter`; host memory is not modelled.

### NdArray

| variable | code |
|---|---|
| `built`, `arr` | the constructed arrays and their `m_Data`, `m_Stream`, `m_Size` |
| `view` | `m_Data` and `m_Stream` of the views |
| `buf` | each allocation: in use, queued to be freed or free; device or managed; the deleter's stream; contents |
| `queue` | the commands each CUDA stream has still to execute |
| `host` | idle, or inside a call and waiting for a set of streams: at its end (`wait`, `read`), half-way through a product (`matmul`, `abandon`), or in `cudaFree` (`delete`) |

An action of the host is a whole call up to the point where it blocks; `Return` is the end of a call
that blocked. Two kinds of calls block before their end. The matrix product waits for its kernel, frees its
scratch memory and waits again (`Matmul`, `MatmulCleanup`). A destructor, an assignment or `release()`
that gives up managed memory waits for the whole device in `cudaFree` (`AwaitDevice`) and then goes on to its end
(`FinishDelete`). `Execute(s)` is the device: it runs the command at the head of any stream.
Between two host actions any number of commands may or may not have run.

Failures take the code's paths. An allocation that fails leaves null data and the size (`AllocationFails`). When a
launch fails, the result, which was allocated, is dropped and freed on its own stream, and an array
without data on yet another stream is returned (`LaunchFails`). A product can fail in four ways (`MatmulFails`): no
scratch memory; scratch memory that cannot be written and is freed at once; no memory for the result, where the
scratch memory is freed and nothing is waited for (`Abandon`, `NdArray.hpp:408`); a launch that fails, where the
scratch memory is freed, its stream waited for, and the result dropped (`MatmulCleanup`, then `Abandon`).

Each allocation has two contents. `mem` is what is in it; `logical` is what the program, read in
program order, means to be in it. No action of the code reads `logical`; the properties compare the two.
What a kernel computes is the constant operator `Combine`; dimensions and strides are one size.
`Client` restricts the operations a program uses, so that properties can be stated for the programs they
hold of.

What the model takes from CUDA, as the code relies on it:

* a stream executes its commands in order, different streams in any order (streams made by
  `cudaStreamCreate` wait for the null stream only, which no array uses once streams can be created);
* `cudaMallocAsync` gives memory that is not in use; it is taken as available when the call returns,
  because every caller waits for that stream before another uses it;
* `cudaFreeAsync` frees when the stream reaches it, `cudaFree` waits for the whole device;
* a destroyed stream finishes its work first;
* a copy between device and pageable host memory is done, for the host, when the stream is.

Simplifications, on purpose:

* One host thread. The library has no locks and no claim to be thread-safe.
* A kernel that is launched with a null pointer (the result's allocation failed and nothing checked it,
  `NdArray.hpp:533`) ruins the context, after which no call succeeds; such runs are left out. So are
  products whose scratch memory fails but whose result is allocated (`:397`); where the scratch
  memory fails in the model, the result does too.
* The six dimension and stride arrays of a product are one scratch allocation.
* Streams can always be created in `NdArray`; `Stream` models the failure.
* A temporary result that is moved into the caller's variable only waits once more on a stream that is
  already empty; the move is not a step.
* `NdArray(const NdView&)` and `pinned` do not compile when instantiated.

### BlockReduce

| variable | code |
|---|---|
| `launch`, `data` | the kernel, `gridDim.x`, `blockDim.x`; the input |
| `pc`, `round` | where each thread is; the first or the second reduction of softmax |
| `val`, `ex` | a thread's registers `val` (or `Pair p`) and `exp_val` |
| `shared`, `output` | each block's shared memory; `*output`, or `c` |

The four copies of `warpReduce` and `blockReduce` (`kernel.cuh:763-882`) are one set of actions with the
operator `Combine`. `Shuffle` is the loop of `__shfl_down_sync`: the lanes of a warp take part together,
so it is one step of the warp. `Write`, `Read`, `Broadcast`, `TakeMax` and `TakeSum` are steps of one
thread, one access to shared memory each, in any order between barriers: CUDA promises no lockstep
between a shuffle and the next one. `Barrier` needs all threads of the block.

Assumed of the caller, as nothing under `src/` launches these kernels: the grid covers the input, a block has at
least one whole warp and at most `WarpSize` of them (1024 threads are 32 warps), `*output` is initialised,
softmax gets one block (`kernel.cuh:482`), the input is not empty. Elements are integers and `exp` is the
operator `Exp`: rounding is not modelled. A lane of a partial warp that shuffles from beyond the block gets its
own value where the device leaves it undefined; no thread reads what that warp stores.

### Shape, Kernels, Device and Compute

`Shape` and `Kernels` have no state. Their arithmetic is that of the code, modulo `2^Bits32` or
`2^Bits64`, and signed where the code says `int`. A thread of a kernel is an operator that gives the
element it stores, the elements it reads, and as the value the positions it was made from, so that
`ResultCorrect` can compare with a definition in terms of multi-indices. The elementwise kernels
differ in arithmetic only and are one operator (`Elementwise`, of two operands; those of one operand have
the same index). `RandomState` multiplies by 5 instead of 2654435761: what matters is that the factor is odd. `Work` is
how many threads a kernel wants along each axis, and `Geometry` the launch made of that; `WellFormed` says what
the types of a call see to, as that a matrix has two dimensions, `arange` and the matrices of `eye` too.

`Device` has `current` (the runtime's device), `deviceID` (`gDeviceHandler.m_deviceID`) and `measured`
(the memory singleton). The properties singleton has no variable: `gDeviceHandler` is constructed before
`main` and binds it to device 0, and no later call can bind it again (`device.hpp:34`).

| variable of `Compute` | code |
|---|---|
| `phase`, `call`, `home` | how far the call is, its shapes, the device its operands and stream are on |
| `todo`, `out` | the blocks that have not run; the elements of the result |
| `stray`, `twice` | what threads have touched outside their arrays, or stored to twice |
| `path`, `view` | the subscripts so far and the view they lead to |

`Build`, `Operate` and `Refuse` are an operator with its guards; `Make`, `FromSequence`, `FromHost` and
`FillBytes` the ways to construct an array with contents; `RunBlock` runs the threads of any block that
has not run; `Subscript` is `operator[]` of the array, then of views. Between calls the program uses the
device interface (`DeviceStep`). A launch fails if the current device does not take its grid and block,
or if the stream belongs to another device. `matrix_multiply` and `transpose` are launched by no code
under `src/`; `Compute` launches them with `launchKernel2D`, as their use of `blockIdx.y` demands, and an
external kernel over a volume stands for what `launchKernel3D` is used for. A nested sequence whose first
subsequence is empty above the last level is left out (`*begin` of an empty range is undefined,
`NdArray.hpp:1505`); rows may all be empty. Host
memory that is overrun ends the run in the phase `undefined`.

## Runs

| run | instance | checks |
|---|---|---|
| `stream` | 3 objects, 4 cells, 3 handles | ownership of streams, refinement of `HandleOwners` |
| `nd_sync` | 3 arrays, 1 view, 3 allocations, 3 streams, 2 values; programs whose operations wait | ownership of device memory on success and on every error path, no races, no use after free, contents, refinement of `ArrayValues` |
| `nd_async` | 2 arrays, 3 allocations, 3 streams, with the operations that do not wait | frees follow the work of their array, failures leak nothing |
| `nd_live` | 2 arrays, 3 allocations, 3 streams, the operations that wait, fairness, no symmetry | every call returns, memory comes back |
| `nd_plus` | programs with `operator+` | **violated**: the result is read before it is computed |
| `nd_release` | programs with `release()` | **violated**: the pointer returned is freed |
| `block` | warps of 2 lanes; one block of 2, 3 or 4 threads, two of 2 or 4; inputs of 1, 3, 4 or 6 elements -1 or 1 | results, races, termination, and where the comments are right |
| `block_softmax` | softmax, one block of two warps | **violated**: not the softmax of the input |
| `block_argmax` | argmax, two blocks of one warp | **violated**: not the index of the maximum |
| `block_partial` | sum, argmax, softmax; one block of 3 threads, warps of 2 | **violated**: the elements of the partial warp are missing |
| `block_values` | max, min, one block of one warp; mean, two blocks | **violated**: 0, which is no element; not the integer quotient of the sum |
| `compute` | `unsigned int` of 4 bits, `size_t` of 8; two devices, three device numbers; 43 calls | elements, bounds, launches, views, nested sequences, devices |

The properties, each stated in words where it is defined:

* `stream`: `HeldIsLive`, `NoLeak`, `SingleOwner`, `DestroyedOnLastRelease`, `Refinement`. Three objects
  are two sharers and one newcomer, the most that an assignment or a move involves; one cell more than
  objects is needed because `reset` and `take` make a cell before the old one goes.
* `nd_sync`: `RaceFree` looks at every pair of commands in flight on different streams, `NoUseAfterFree` at
  every command still to come, `Coherent` compares contents whenever the host is idle, `HostReadsProgramOrder`
  what is read through arrays and views, `Refinement` says that the program cannot tell the arrays from values.
  Three arrays are a result and two operands, each on its own stream; with two, a view brings the third stream.
  `NothingDangles`, `NothingLeaks` and `FreedOnce` are about owners: a product needs an operand, scratch memory
  and a result, three allocations. Two arrays and the result that a failed launch drops have a stream each:
  three streams. `NothingLeaks` counts what operator* has in hand (`Temporary`) as owned and nothing else, so
  that a return that forgets the scratch memory violates it.
* `nd_async`: `FreedOnOwnStream` and `LeftOperandOutlives`, which need programs without products, shared and
  managed memory (`NdArrayAsyncProof` says why), and `NothingLeaks` while other work is in flight.
* `nd_live`: `MemoryReturns`, `CallsReturn`, with products that wait twice or fail, and managed memory whose deleter
  waits. The operations that do not wait are left out: what they put on a stream is executed like
  anything else, and liveness without symmetry is what limits this run.
* `block`: `RacesInSoftmaxOnly` looks at every pair of threads of a block whose next steps conflict;
  `SumCorrect`, `MeanClose`, `ExtremeCorrect`, `ArgmaxOfBlock` and `Normalised` compare the final output with a
  definition on the input, and say what the kernels do for any launch: they count the elements of whole warps
  (`Counted`), let the padding 0 take part in an extreme unless all lanes of the first warp have a warp to read
  (`Padding`), miss an integer mean by less than one per block, and divide softmax by one number in spite of its
  race. That is less than the comments promise. What those say is `SumOfInput`, `MeanOfInput`, `MaxOfInput`,
  `MinOfInput`, `ArgmaxOfInput`, `SoftmaxOfInput` and `SoftmaxAddsUp`, and each is refuted for some launch:
  `ArgmaxOfInput` and `SoftmaxOfInput` by runs of their own, the others by `PartialWarpsCount` and
  `ValuesAsDocumented`. `AsDocumented` says for which launches sum, extremes, argmax and softmax's total are
  right after all: blocks of whole warps, as many as lanes for the extremes, one block for argmax. `Termination`
  needs fairness of the device, below. Two-lane warps make one-, two- and partial-warp blocks possible with four
  threads; two blocks are what the atomics can tell from one.
* `compute`: `InBounds` and `WrittenOnce` collect what any thread does; they except what the code gets
  wrong, and the run has calls of each kind: elementwise operations on more elements than `int` counts, an inner
  dimension of `matrix_multiply` that does not fit `int` or is cut to 0 (`BeyondInt`, `ProductsFit`),
  sizes that wrap (`SizesFit`), more threads or products than 32 bits number. `ResultCorrect` compares
  every element with a reference and `SeedsDiffer` the generators' states, as long as the grid has the blocks
  that the work asks for, which are cut to `unsigned int`, and rows and columns fit the indices (`AxesFit`).
  `WalkFindsElement` looks at every path of
  subscripts, in range or just out of it, `PrintRoundTrip` and `RowsInPlace` nested input, `FailsOnlyIf`
  and `PartsOnFailureOnly` the device interface. Widths of 4 and 8 bits put arrays below, at and above
  the limits of `int` (8), `unsigned int` (16) and `size_t` (256) within reach; device 1 has larger blocks than device
  0 but only in one dimension, so that each refuses something the other takes. Blocks of nine threads
  make two- and three-dimensional blocks of edge 3 and 2.

`QueueBound` bounds what the operations that do not wait put on one stream. It is 1: they start on a stream that
has nothing pending, and frees and the operations that wait queue up behind them without a bound, as the host is
blocked until the stream drains. That is enough for a free to overtake a kernel, or a read a result; more
pending kernels are left to the proofs, which hold for any bound. Handles, cells, allocations and streams are
recycled, so histories of any length are covered. Symmetry is used only where no temporal property is checked
under fairness.

Fairness, in `FairSpec`: weak fairness of every `Execute(s)` (a CUDA device makes progress on each stream;
kernels terminate), of `Return`, `MatmulCleanup`, `Abandon` and `FinishDelete` (a host thread that was blocked
in `cudaStreamSynchronize` or `cudaFree` goes on when what it waits for is done). Programs need make no call. In
`BlockReduce`, weak fairness of `Next`: the device runs some warp or thread as long as one can go on. No thread
ever loops, so that is enough.

### What the violations show

* `operator+(const NdArray&)` (`NdArray.hpp:530-542`), `abs` (`:976`) and `tanh` (`:1045`) launch on the
  stream of `*this` and return without waiting, unlike all their siblings. The result has another
  stream, and `data()` waits only for that one. The trace is three calls long: fill `A`, `C = A + A`,
  read `C`. `src/tests/test_ndarray.cpp:57-64` expects the sum; it passes when the kernel happens to be
  faster than the copy. `operator/=(const NdArray&)` (`:756`) does not wait either, but leaves its result
  on the stream of its own array; only another array's operator can see the old contents.
* `release()` is documented to give up ownership (`NdArray.hpp:1137-1139`), but assigning a new
  `shared_ptr` to `m_Data` runs the deleter of the old one, so the pointer returned is on its way to
  `cudaFreeAsync`.
* softmax has no barrier between the read of the maximum (`kernel.cuh:928`) and the store of the
  warps' sums in the same cell (`kernel.cuh:775`, called at `:931`). In the trace warp 0 goes through its
  exponentials, shuffles and stores 2 or more in `shared[0]` before a thread of warp 1 reads it there as the
  maximum. A block of one warp is safe; so is the number all threads divide by (`Normalised`): with whole warps the
  results add up to 1 but are not those of the formula at `kernel.cuh:477`.
* argmax combines the blocks' indices with `atomicMin` whatever their values (`kernel.cuh:890`): with two
  blocks it returns the first block's index even if the maximum is in the second.
* The reductions read the results of `blockDim.x / warpSize` warps (`kernel.cuh:777` and its copies). If the
  block size is no multiple of the warp size, the last warp's elements are not in the sum of "all elements"
  (`:386`) and the "index of maximum element" (`:426`) is not found there. softmax (`:477`) divides these
  elements too by a sum they are not part of, so that the results add up to more than 1.
* The mean is "accumulated sum, then divided by n" (`:399`), but each block divides (`:797`): with integers, two
  blocks whose sums are smaller than `n` give 0.
* "max element" and "min element" (`:406`, `:416`): lanes of the first warp without a warp to read take 0
  (`:814`, `:842`), which is more than any negative maximum and less than any positive minimum. Only a block with as
  many warps as lanes (1024 threads) has none.

Two sentences of the documentation that `compute` shows to be too strong, without a run of their own:
"Kernel launch configuration is done at runtime optimized for the currently set device" (`README.md:75`),
while every launch is configured for device 0, as `FailsOnlyIf` spells out; and "memory statistics of
current device" (`device.hpp:105`), which are those of whatever device was current at the first call.

## Proofs

`StreamProof`, for any sets of objects, cells and handles: type correctness, `HeldIsLive`, `NoLeak`,
`SingleOwner`, `DestroyedOnLastRelease` and the refinement of `HandleOwners`. These are nearly
inductive together; the strengthening says that objects not alive refer to no cell and that a referenced
cell's handle is live. Assumption: `NullAssumption` (null is no handle).

`NdArrayProof`, for any sets of arrays, views, allocations and streams, any `Combine` and **any** `Client`, that
is also for programs with races: type correctness, `NothingDangles`, `NothingLeaks`, `FreedOnce`. The inductive
invariant `IInv` adds three facts to them. An array that is not constructed has no data (`Unbuilt`), or `Last`
would count it as an owner. The scratch memory of a matrix product in progress, and the result of one whose
launch failed, are alive and referred to by nobody (`Scratch`, of `Temporary`), or freeing them would leave a
dangling array. An array with a size has a stream even if its allocation failed (`Sized`), because copying from
it hands that stream to a deleter. The argument: every call of the host falls into one of a few shapes - nothing
changes hands, an array lets go of its data (`LetGo`), operator* lets go of what it has in hand, an array gets
an allocation after letting go (`Gain`), references are rearranged (`Rewire`) - and each shape keeps ownership
by `OwnedStep`. For `FreedOnce` the queues are followed separately (`OncePush`, `OncePushFree`, `OnceTail`): a
free enters a queue only in the step in which its allocation stops being alive, or is discarded before anything
used it, and the allocation becomes available only when that command is executed. Assumption: `NdArrayAssumption` (0 is not the size of an array
with data, null is neither a buffer nor a stream, `Combine` stays within `Values`).

`NdArraySyncProof`, for programs that use neither `operator+`, `abs`, `tanh` nor `operator/=(array)` and
otherwise anything (`Waits`): `RaceFree`, `NoUseAfterFree`, `Coherent`, `HostReadsProgramOrder`. The hypothesis
is about `Client` only and is met by `nd_sync`; without it `nd_plus` shows a counterexample. `SyncInv` is `IInv`
and what is known of the work in flight (`InFlight`). `Waited`: a stream with work beside frees is one the host
waits for. `OneAtATime`: there is never more than one such command, or a second would not find its operands
finished. `OnLive`: it works on live memory, so a free can only be queued for something else. `Meant` and
`Accounted`: what that command will leave in its destination is what the program means to be there, and memory
that differs from what is meant is that destination. `Reading`: a fetch is of the buffer the host asked for,
which stays live meanwhile. `ViewsUsable`: a view with data has a stream to wait on. What a failing operator has
queued is a free of memory that nothing used, and what the host does after a wait in mid-call, in
`MatmulCleanup`, `Abandon` or after `cudaFree`, it does with nothing but frees in flight (`ActingFacts`). A call
begins when nothing is in flight (`ReadyFacts`), so it finds all live memory settled, and what it starts is the
one command; when the device executes it, contents and meaning meet.

`NdArrayRefinementProof`, for the same programs: `NdArray` implements `ArrayValues`. An abstract array's
place is the allocation it refers to; the place's value is the `logical` contents; what the host got is what the
host got. The steps of the device and those that only wait, allocate scratch memory or free map to stutters. Every other
call is a new array (`New`), a change of contents (`Update`), a change of references (`Redirect`), or a
read and its return. A read maps to an abstract read because of `SyncInv`: what was fetched is the
`logical` contents.

`NdArrayAsyncProof`, for programs without matrix products, shared or managed data (`OwnStreams`), but with
the operators that do not wait: `FreedOnOwnStream` and `LeftOperandOutlives`. `AsyncInv` adds to `IInv` that
the left operand of every kernel in flight is live and would be freed on the kernel's own stream, or that its free is
already behind the kernel in that queue (`LeftSafe`). The result of a matrix product is freed on its left operand's
stream, an array that shares another's data computes on a stream of its own, and managed memory is freed
by `cudaFree` on no stream: each would break the order.

`BlockReduceProof`, for any warp size, launches, inputs and `Exp`: type correctness and
`RacesInSoftmaxOnly`. That no other pair of threads races depends on how far the threads of a block can
be apart, so `IInv` adds where two of them can be together. `Together`: the
threads of one block are in the same stretch between two barriers (`Stage`); softmax's race is one within
a stretch. `Lockstep`: the lanes of a warp leave a
shuffle together, so while lane 0 has its result to store, or thread 0 its own, no lane of its warp is
still before that shuffle or past the next barrier. Each action is then a
case of `Invariance`; the lane and warp of a thread enter through one lemma on division (`DivMod`), and
through the assumption that a block has at most `WarpSize` warps, or a thread could read beyond the
warps' cells. Assumption: `BlockReduceAssumption`.

What the kernels compute is proved too, as `SumCorrect`, `MeanClose`, `ExtremeCorrect`, `ArgmaxOfBlock` and
`Normalised`, and `AsDocumented` from these. The idea is one relation, `Folded(r, v, C)`: `v` is what reduction
`r` makes of the items `C`, each item being a thread with what it brought or a pad. `VInv` says of every place a
partial result can be which items it is made of: a register after the first shuffle and the cell it is stored
in, those of a warp; a register before the second shuffle, the warp it was read from or a pad (`Slice`); thread
0 after it, those of its block (`Parts`); `*output`, those of the blocks that are finished (`Arrived`). Two such
values over disjoint items combine to one over their union, for all five operations (`CombineIs`). A shuffle is
then an induction on the doublings that make `WarpSize`: before the round with offset `o`, the lanes congruent
to `l` modulo `2 * o` are gathered in lane `l`, after it those congruent modulo `o`, until lane 0 has the whole
warp (`Shuffled`). The sums are `SumFunctionOnSet` of the community modules; that its recursion is the function
it says, does not depend on the order of choice, and adds over disjoint sets is proved by taking a smallest set
that fails (`SumsExist`, `SetsGrow`). When all threads are done, the items that arrived are the elements
`Counted` and pads, which is what the properties are about; if blocks consist of whole warps, `Counted` is the
whole input, which proves `AsDocumented` (`DocumentedForWholeWarps`). The steps of a thread leave what the
others hold alone because no one writes a cell that another will still read, as `Together` and `Lockstep` say;
softmax's race is harmless here since nothing is claimed of the maximum. Assumptions: `WarpAssumption` (a warp
is a power of two, stated by its doublings), `InputsAssumption` (inputs are not empty, an index fits an `int`,
elements lie between the first values of `*output`). `SoftmaxIsNormalised` and `DocumentedForWholeWarps` have
the hypothesis `IntegerExp` instead of an assumption because TLC cannot evaluate a statement about all integers.

`KernelsProof` and `ComputeProof`, for any widths of the two unsigned types, any shapes and ranks, any devices and any
set of calls: type correctness, `InBounds`, `WrittenOnce`, `ResultCorrect`, `SeedsDiffer`, `WalkFindsElement`,
`PrintRoundTrip`, `RowsInPlace`, `FailsOnlyIf` and `PartsOnFailureOnly`.
`KernelsProof` is about one call. First the recursive functions: a function with one step from a number
to the next exists and is what its definition says (`UpRecursion`, `DownRecursion`, from the
well-foundedness of `<` on the naturals by way of sets), so sizes, strides, products and the rest of
the batch index can be used. If a size does not wrap no stride does (`ExactStrides`); the digits of the batch
index, times the strides, add up to the batch's place (`SumOfDigits`, `BatchOffsetIs`), so an element of
a batched product is row and column of a matrix in its batch (`BatchElement`), and a place determines its
row and column (`SameRowColumn`). From that, kernel by kernel, a thread stays within its arrays
(`ThreadWithin`) and two threads never store to one element (`StoredOnce`); with the numbers threads get from
their block, the same of a launch (`LaunchWithin`, `LaunchOnce`). A launch of the wrappers has enough
blocks, and a device no smaller than device 0 takes it (`LaunchFits`). The invariant of `ComputeProof` is
then short: the running call has been checked (`Checked`), and an element that is not `Unwritten` was
stored by a thread of a block that has run (`Stored`), which a later block cannot meet again.

That the result is right takes both directions. What is in an element is what a block that has run stored there,
or no block has and it is unwritten (`FilledInv`). The reference, a count of the indices before one, is turned
into arithmetic once: indices are numbered by Horner's rule (`Number`), the numbers keep the row-major order and
take every value below the number of elements (`NumberOrder`, `NumberOnto`), so counting the indices before one
gives its number (`PositionIs`). Then, kernel by kernel, some thread stores the reference at that position
(`ThreadComputes`), the launch has that thread (`Reached`), and no other thread stores there (`StoresAgree`).
This found conditions that the first version of `ResultCorrect` lacked: the grid is cut to 32 bits, so with
enough work the last blocks are missing (`kernel_wrappers.hpp:42`), and the operands of a batched product must
not wrap either; the run has calls of both kinds now. For `SeedsDiffer`, the factor of the generator is prime to
the word. For `WalkFindsElement`, `WalkInv` follows the view from subscript to subscript: its offset is what
`read()` would compute for the path so far, and without wrapping that is the index's number (`OffsetIsNumber`).

Nested input is proved level by level: `Leaves` of a level is the one above, flattened (`LeavesStep`). If the
sequences of all levels are as long as the dimensions say (`Even`), the last level has as many elements as the
product of the dimensions, so a size that wraps would have overrun the host vector; cut back into pieces of its
length, a level gives the one above (`RowsBack`), and `print` does just that (`NestedIs`). The invariant is what
the array holds (`LoadedInv`): the flattened elements, then zeros. If rows differ in length, those before the
first that does stand one after the other (`FlattenRows`), where the strides look for them (`OffsetOfPair`), and
if none is longer than the first, all of them fit (`FlattenAtMost`). This found another condition: a size that
wraps makes the host vector too short for rows of one length, which the run now has a call for. `PrintRoundTrip`
is about arrays with elements because any other prints as `[]`, whatever its rank (`NdArray.hpp:1213`).

Assumptions: `ShapeAssumption` states the few facts about powers of 2 that the prover cannot compute.
`LimitsAssumption` is what CUDA promises of devices, and what holds of all there are (1024 threads a block, 2^31 - 1
blocks): a block may have all its threads along the first axis (`launchKernel1D` relies on it), and
grids fit 32 bits; and the threads of as many blocks as `unsigned int` counts fit `size_t`. `FactorAssumption`: 5
does not divide a power of 2. `ComputeAssumption`: calls are well-formed; a nested sequence is as deep as the
array's rank, and the first subsequence of no level but the last is empty (`SequencesOK`). TLC evaluates the
assumptions of every module in its runs.

Only model-checked: everything under fairness (`MemoryReturns`, `CallsReturn`, `Termination`), which is beyond
this prover. The violations are counterexamples and have nothing to prove. Rounding is in neither: the
results of the reductions are those of exact arithmetic on integers.

## Plan

Done: all components with state, and every safety property of the runs is proved. What would be worth going
on with is streams that cannot be created in `NdArray` (`Stream` has the failure): the array computes on the
null stream, which `synchronize()` refuses to wait for.

## Not modelled

Logging and formatting (`info`, `format`, the brackets and commas of `print`); `HostInfo` and
`HostProperties`, which read the system once (their declared constructors have no definition);
compile-time concepts; the arithmetic of elementwise kernels and of random numbers beyond the state they
start from; floating-point rounding; `foreach`, which nothing calls; pinned memory; `NdArray<T, 0>`, an
empty class. A kernel launched on a null pointer and a host vector that was overrun are where the models
stop.
