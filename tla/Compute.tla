------------------------------ MODULE Compute ------------------------------
(***************************************************************************)
(* One array computation at a time, from the shapes of its operands to the  *)
(* elements a program reads back: arrays are built on the current device,   *)
(* the program may switch devices, an operator or factory checks shapes and *)
(* launches a kernel, the blocks of the grid run in any order, and the      *)
(* result is indexed through views.                                         *)
(***************************************************************************)
EXTENDS Kernels, Device

CONSTANTS Calls,      \* the computations to consider
          NoCall,
          Unwritten   \* what is in memory nobody has written

\* Operations that store from the host, without a kernel.
Host == {"sequence", "fromHost", "fillBytes"}

\* A sequence is as deep as the array's rank, and its first subsequences are not
\* empty, but for those of the last level.
SequencesOK(c) ==
  LET dims == DeducedDims(c.nested, c.rank)
  IN  /\ c.rank \in Nat \ {0} /\ IsNested(c.nested, c.rank)
      /\ dims \in Seq(Nat) /\ \A l \in 1 .. c.rank - 1 : dims[l] # 0

ASSUME ComputeAssumption ==
  /\ Devices \subseteq DOMAIN Limits
  /\ NoCall \notin Calls
  /\ \A c \in Calls : \/ c.op = "sequence" /\ SequencesOK(c)
                      \/ c.op \in Host \ {"sequence"} /\ c.a \in Seq(Nat)
                      \/ WellFormed(c)

VARIABLES phase,  \* how far the computation is
          call,   \* the computation
          home,   \* the device its operands, and their stream, are on
          todo,   \* the blocks that have not run
          out,    \* the result's elements
          stray,  \* elements outside their array that a thread has touched
          twice,  \* elements that were stored to twice
          path,   \* the indices subscripted so far
          view    \* and where they lead

vars == <<current, deviceID, measured, phase, call, home, todo, out, stray, twice,
          path, view>>
arrayVars == <<phase, call, home, todo, out, stray, twice, path, view>>

Dims(c) == IF c.op = "sequence" THEN DeducedDims(c.nested, c.rank) ELSE ResultDims(c)
Positions(c) == 0 .. Size(Dims(c)) - 1
Fresh(c) == [i \in Positions(c) |-> Unwritten]

Init == /\ DeviceInit
        /\ phase = "idle" /\ call = NoCall /\ home = 0
        /\ todo = {} /\ out = <<>> /\ stray = {} /\ twice = {}
        /\ path = <<>> /\ view = EmptyView(0)

\* The host thread uses the device interface between array calls.
DeviceStep == /\ phase \in {"idle", "built"}
              /\ \/ \E id \in Ids : SetDevice(id) \/ InitializeContext(id)
                 \/ MemoryStatus
              /\ UNCHANGED arrayVars

\* The operands of an operator are constructed.
Build(c) == /\ phase = "idle" /\ c.op \notin Factories \cup Host
            /\ phase' = "built" /\ call' = c /\ home' = current
            /\ UNCHANGED <<deviceVars, todo, out, stray, twice, path, view>>

\* What an operator checks before it launches.  An array without elements has no
\* data either.
Accepted(c) ==
  /\ Size(c.a) # 0
  /\ c.op = "elementwise" => c.a = c.b
  /\ c.op = "batched" =>
       /\ Size(c.b) # 0 /\ Size(ResultDims(c)) # 0
       /\ Len(c.a) = Len(c.b)
       /\ \A d \in 1 .. Len(c.a) - 2 : c.a[d] = c.b[d]
       /\ K(c) = c.b[Len(c.b) - 1]

\* A launch needs a grid that the current device can take, and a stream of that
\* device.
CanLaunch(c, device) ==
  device = current /\ Launchable(Geometry(c), Limits[current])

\* A launch that fails leaves a factory's array as it is; an operator drops it and
\* returns an empty one.
Launch(c, device) ==
  /\ \/ /\ CanLaunch(c, device) /\ phase' = "running"
        /\ todo' = Cells(Geometry(c).grid) /\ out' = Fresh(c)
     \/ /\ ~CanLaunch(c, device) /\ phase' = "failed"
        /\ out' = IF c.op \in Factories THEN Fresh(c) ELSE <<>>
        /\ UNCHANGED todo
  /\ UNCHANGED <<deviceVars, stray, twice, path, view>>

\* An operator launches on its left operand's stream.
Operate == /\ phase = "built" /\ Accepted(call)
           /\ Launch(call, home)
           /\ UNCHANGED <<call, home>>

\* A mismatch: the operator returns an empty array.
Refuse == /\ phase = "built" /\ ~Accepted(call)
          /\ phase' = "refused"
          /\ UNCHANGED <<deviceVars, call, home, todo, out, stray, twice, path, view>>

\* arange, eye, random_* and full construct an array and launch.
Make(c) == /\ phase = "idle" /\ c.op \in Factories
           /\ c.op = "fill" => Size(c.a) # 0
           /\ Launch(c, current)
           /\ call' = c /\ home' = current

\* A copy of these elements to the new array; the host or the device's memory is
\* overrun when there are more of them than the array holds.
Load(c, elements, rest) ==
  /\ phase = "idle" /\ call' = c /\ home' = current
  /\ \/ /\ Len(elements) <= Size(Dims(c)) /\ phase' = "done"
        /\ out' = [i \in Positions(c) |->
                     IF i < Len(elements) THEN elements[i + 1] ELSE rest]
     \/ /\ Len(elements) > Size(Dims(c)) /\ phase' = "undefined"
        /\ out' = Fresh(c)
  /\ UNCHANGED <<deviceVars, todo, stray, twice, path, view>>

\* NdArray(sequences...): through a host vector of zeros.
FromSequence(c) == /\ c.op = "sequence"
                   /\ Load(c, Leaves(c.nested, c.rank), 0)

\* fromHost: the vector's size counts, not the array's.
FromHost(c) == /\ c.op = "fromHost"
               /\ Load(c, c.data, Unwritten)

\* fill uses memset for elements of one byte and returns early if there are none.
FillBytes(c) == /\ c.op = "fillBytes" \/ (c.op = "fill" /\ Size(c.a) = 0)
                /\ Load(c, [i \in 1 .. Size(c.a) |-> <<>>], Unwritten)

\* What the threads of a block store.
Stores(b) ==
  LET g == Geometry(call)
      Id1(t, axis) == Id(g, b, t, axis)
  IN  [t \in Cells(g.block) |-> Thread(call, Id1(t, 1), Id1(t, 2), Id1(t, 3))]

Extent(name) == CASE name = "a" -> Size(call.a)
                  [] name = "b" -> Size(call.b)

\* A block of the grid runs.
RunBlock(b) ==
  LET stores == Stores(b)
      all    == UNION {stores[t] : t \in DOMAIN stores}
      by(i)  == {t \in DOMAIN stores : \E s \in stores[t] : s.to = i}
  IN  /\ phase = "running" /\ b \in todo
      /\ out' = [i \in DOMAIN out |->
                   IF \E s \in all : s.to = i THEN (CHOOSE s \in all : s.to = i).value
                   ELSE out[i]]
      /\ stray' = stray
           \cup {<<"out", s.to>> : s \in {s \in all : s.to \notin DOMAIN out}}
           \cup {r \in UNION {s.reads : s \in all} : r[2] \notin 0 .. Extent(r[1]) - 1}
      /\ twice' = twice \cup {s.to : s \in {s \in all :
                     \/ Cardinality(by(s.to)) > 1
                     \/ s.to \in DOMAIN out /\ out[s.to] # Unwritten}}
      /\ todo' = todo \ {b}
      /\ UNCHANGED <<deviceVars, phase, call, home, path, view>>

\* The call waits for its stream and returns the result.
Return == /\ phase = "running" /\ todo = {}
          /\ phase' = "done"
          /\ UNCHANGED <<deviceVars, call, home, todo, out, stray, twice, path, view>>

\* result[i], and then [j] of the view ...
Subscript(i) ==
  /\ phase = "done" /\ Len(path) < Len(Dims(call))
  /\ view' = IF path = <<>> THEN ArrayAt(Dims(call), i) ELSE ViewAt(view, i)
  /\ path' = Append(path, i)
  /\ UNCHANGED <<deviceVars, phase, call, home, todo, out, stray, twice>>

\* The program drops what it has.
Drop == /\ phase \in {"refused", "failed", "done"}
        /\ phase' = "idle" /\ call' = NoCall /\ home' = 0
        /\ out' = <<>> /\ stray' = {} /\ twice' = {}
        /\ path' = <<>> /\ view' = EmptyView(0)
        /\ UNCHANGED <<deviceVars, todo>>
-----------------------------------------------------------------------------
\* The first and the last index of a dimension, and the first one past it.
Interesting(d) == {0, d, IF d = 0 THEN 0 ELSE d - 1}

Next == \/ DeviceStep
        \/ \E c \in Calls : Build(c) \/ Make(c) \/ FromSequence(c) \/ FromHost(c)
                              \/ FillBytes(c)
        \/ Operate \/ Refuse \/ Return \/ Drop
        \/ \E b \in todo : RunBlock(b)
        \/ phase = "done" /\ Len(path) < Len(Dims(call))
           /\ \E i \in Interesting(Dims(call)[Len(path) + 1]) : Subscript(i)

Spec == Init /\ [][Next]_vars
-----------------------------------------------------------------------------
Phases == {"idle", "built", "running", "done", "refused", "failed", "undefined"}

\* Types; blocks wait only while a call runs; a view has the dimensions that are
\* left to subscript; what is measured is a device even if the handler's is none.
TypeOK == /\ DeviceTypeOK
          /\ phase \in Phases /\ (phase = "idle") = (call = NoCall)
          /\ home \in Devices
          /\ todo # {} => phase = "running" /\ todo \subseteq Cells(Geometry(call).grid)
          /\ phase \in {"running", "done"} => DOMAIN out = Positions(call)
          /\ path # <<>> => /\ phase = "done"
                            /\ Len(view.dims) = Len(Dims(call)) - Len(path)

\* The size of the result does not wrap.
Exact(c) == NoWrap(Dims(c))

\* The products matrix_multiply computes in 32 bits do not wrap, and int can count the
\* inner dimension, which is cut to 32 bits too.
ProductsFit(c) == c.op = "matrix_multiply" =>
  /\ M(c) * K(c) <= 2^Bits32 /\ K(c) * N(c) <= 2^Bits32 /\ M(c) * N(c) <= 2^Bits32
  /\ K(c) < 2^(Bits32 - 1)

\* No thread touches memory outside its arrays, but for kernels that count beyond int
\* and for arrays whose size has wrapped.
InBounds == stray # {} => BeyondInt(call) \/ ~SizesFit(call)

\* No element is stored to by two threads, as long as the numbers of the threads and
\* of the elements do not wrap.
WrittenOnce ==
  twice # {} => ~Numbered(call) \/ ~ProductsFit(call) \/ ~SizesFit(call)

\* All indices into an array of these dimensions, and their row-major order.
AllIndices(dims) ==
  {p \in [1 .. Len(dims) -> 0 .. Elements(dims)] : \A i \in DOMAIN dims : p[i] < dims[i]}
Before(p, q) == \E i \in DOMAIN p : p[i] < q[i] /\ \A j \in 1 .. i - 1 : p[j] = q[j]
Position(dims, p) == Cardinality({q \in AllIndices(dims) : Before(q, p)})

\* What the element at p of the result should be made from.
Reference(c, p) ==
  LET n == Len(p)
      batch == SubSeq(p, 1, n - 2)
      at(dims, q) == Position(dims, q)
  IN  CASE c.op = "fill" -> <<>>
        [] c.op = "arange" -> p[1]
        [] c.op = "eye" -> p[1] = p[2]
        [] c.op = "elementwise" -> <<at(c.a, p), at(c.b, p)>>
        [] c.op \in {"batched", "matrix_multiply"} ->
             [k \in 0 .. K(c) - 1 |-> <<at(c.a, batch \o <<p[n - 1], k>>),
                                       at(c.b, batch \o <<k, p[n]>>)>>]
        [] c.op = "transpose" -> at(c.a, <<p[2], p[1]>>)
        [] c.op = "volume" -> p

\* The elements that threads reach with one 32 bit index, or one for each axis.
Reach(c) == CASE c.op = "elementwise" -> Least(Word32(Size(c.a)), 2^(Bits32 - 1))
              [] c.op \in OneD \ {"elementwise"} -> 2^Bits32
              [] OTHER -> Size(Dims(c))

\* The grid has the blocks the work asks for, whose number is cut to unsigned int; and
\* the rows, columns and layers of the kernels on more than one axis fit their indices:
\* int for transpose, unsigned int for the others.
AxesFit(c) ==
  \A axis \in Axes :
    /\ Work(c)[axis] <= Geometry(c).block[axis] * (2^Bits32 - 1)
    /\ c.op \notin OneD =>
         Work(c)[axis] < 2^(IF c.op = "transpose" THEN Bits32 - 1 ELSE Bits32)

\* Whatever the order of the blocks, every element within reach of the thread index
\* is what the operation defines, and all others are left unwritten.
ResultCorrect ==
  phase = "done" /\ call.op \notin Host \cup {"random"}
    /\ Exact(call) /\ SizesFit(call) /\ ProductsFit(call) /\ AxesFit(call) =>
    \A p \in AllIndices(Dims(call)) :
      LET i == Position(Dims(call), p)
      IN  out[i] = IF i < Reach(call) THEN Reference(call, p) ELSE Unwritten

\* The generators of two elements that threads can number start from different states.
SeedsDiffer ==
  phase = "done" /\ call.op = "random" /\ AxesFit(call) =>
    \A i, j \in Positions(call) :
      i # j /\ i < 2^Bits32 /\ j < 2^Bits32 => out[i] # out[j]

\* Device d takes every launch that device 0 takes.
AtLeastDevice0(d) ==
  /\ Limits[d].threads >= Limits[0].threads
  /\ \A axis \in Axes : /\ Limits[d].block[axis] >= Limits[0].block[axis]
                        /\ Limits[d].grid[axis] >= Limits[0].grid[axis]

\* A launch fails only if there is nothing to compute or more, along some axis, than
\* device 0's grid holds, after a switch of devices since the operand was built, or on a device
\* smaller than device 0, for which all launches are configured.
FailsOnlyIf ==
  [][phase # "failed" /\ phase' = "failed" =>
       \/ Size(Dims(call')) = 0
       \/ \E axis \in Axes : Work(call')[axis]
                               > Geometry(call').block[axis] * Limits[0].grid[axis]
       \/ home' # current
       \/ ~AtLeastDevice0(current)]_vars

\* Subscripts in range lead to the element in row-major order, which read() finds
\* at the same offset; one out of range leads to an empty view, if it is not the
\* first, which nothing checks.
WalkFindsElement ==
  LET dims == Dims(call)
  IN  path # <<>> /\ Len(path) = Len(dims) /\ Exact(call) =>
        /\ view.bound = (\A i \in 2 .. Len(dims) : path[i] < dims[i])
        /\ (\A i \in DOMAIN dims : path[i] < dims[i]) =>
             /\ view.offset = Position(dims, path)
             /\ view.offset = Offset(Strides(dims), path)
             /\ view.offset \in DOMAIN out

\* Every sequence of a level is as long as the first.
Regular(c) ==
  \A l \in 1 .. c.rank - 1 :
    \A i \in DOMAIN Leaves(c.nested, l) : Len(Leaves(c.nested, l)[i]) = Dims(c)[l + 1]

\* print() shows the nested sequence an array was made from, if it has elements.
PrintRoundTrip ==
  phase = "done" /\ call.op = "sequence" /\ Regular(call) /\ Size(Dims(call)) # 0 =>
    Nested([i \in 1 .. Size(Dims(call)) |-> out[i - 1]], Dims(call)) = call.nested

\* Of an irregular input the rows keep their places up to the first that is not as
\* long as the first row; the host's vector is overrun only when a later row is
\* longer, or the size wraps.
RowsInPlace ==
  call # NoCall /\ call.op = "sequence" /\ call.rank = 2 =>
    /\ phase = "done" =>
         \A r \in DOMAIN call.nested :
           (\A q \in 1 .. r : Len(call.nested[q]) = Dims(call)[2]) =>
             \A i \in DOMAIN call.nested[r] :
               out[Offset(Strides(Dims(call)), <<r - 1, i - 1>>)] = call.nested[r][i]
    /\ phase = "undefined" /\ Exact(call) =>
         \E r \in DOMAIN call.nested : Len(call.nested[r]) > Len(call.nested[1])
=============================================================================
