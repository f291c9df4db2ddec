-------------------------- MODULE NdArrayAsyncProof --------------------------
(***************************************************************************)
(* Proofs about the programs that use the operators that do not wait, but   *)
(* neither the matrix product nor shared or managed data: what still makes  *)
(* their left operands safe.                                                *)
(***************************************************************************)
EXTENDS NdArrayProof

\* What the theorems assume of the program, and nothing of any other constant.
OwnStreams == Client \cap {"matmul", "share", "managed"} = {}
-----------------------------------------------------------------------------
(* The invariant: data is freed on the stream its array computes on, and    *)
(* every kernel in flight runs on the stream its left operand is freed on,  *)
(* ahead of that free.                                                      *)

\* All memory is freed by cudaFreeAsync.
AllDevice == \A b \in Buffers : buf[b].kind = "device"

\* With the queues q and the memory B, the left operand of a kernel can only
\* be freed behind it.
LeftSafe(q, B) ==
  \A s \in Streams : \A i \in DOMAIN q[s] : q[s][i].op = "kernel" =>
    \/ B[q[s][i].x].state = "live" /\ B[q[s][i].x].deleter = s
    \/ /\ B[q[s][i].x].state = "freeing"
       /\ \E j \in DOMAIN q[s] : j > i /\ q[s][j] = Free(q[s][i].x)

\* The host is not in operator*.
NoProduct == host.pc \notin {"matmul", "abandon"}

InOrder == /\ NoProduct
           /\ AllDevice
           /\ FreedOnOwnStream
           /\ LeftSafe(queue, buf)

AsyncInv == IInv /\ InOrder
-----------------------------------------------------------------------------
(* The order of a queue.                                                   *)

\* The left operand of a kernel in a queue is an allocation.
LEMMA LeftOperand ==
  ASSUME NEW q \in [Streams -> Seq(Command)], NEW s \in Streams, NEW i \in DOMAIN q[s],
         q[s][i].op = "kernel"
  PROVE  q[s][i].x \in Buffers
<1>1. q[s][i] \in Command
  BY ElementOfSeq
<1> QED BY <1>1 DEF Command

\* What was queued stays where it was.
LEMMA PushKeeps ==
  ASSUME NEW q \in [Streams -> Seq(Command)], NEW s, NEW c \in Command,
         NEW t \in Streams, NEW i \in DOMAIN q[t]
  PROVE  i \in DOMAIN Push(q, s, c)[t] /\ Push(q, s, c)[t][i] = q[t][i]
BY AppendProperties, LenProperties DEF Push

\* From memory B to C live memory keeps its deleter, and what is to be freed
\* still is.
Keeps(B, C) ==
  \A b \in Buffers :
    /\ B[b].state = "live" => C[b].state = "live" /\ C[b].deleter = B[b].deleter
    /\ B[b].state = "freeing" => C[b].state = "freeing"

LEMMA SafeMono ==
  ASSUME NEW q \in [Streams -> Seq(Command)], NEW B, NEW C, LeftSafe(q, B), Keeps(B, C)
  PROVE  LeftSafe(q, C)
BY LeftOperand DEF LeftSafe, Keeps

\* A kernel is enqueued on the stream its left operand is freed on.
LEMMA SafePush ==
  ASSUME NEW q \in [Streams -> Seq(Command)], NEW s, NEW c \in Command, NEW B,
         LeftSafe(q, B),
         c.op = "kernel" => B[c.x].state = "live" /\ B[c.x].deleter = s
  PROVE  LeftSafe(Push(q, s, c), B)
<1> DEFINE p == Push(q, s, c)
<1>1. CASE s \notin Streams
  <2>1. p = q
    BY <1>1 DEF Push
  <2> QED BY <2>1
<1>2. CASE s \in Streams
  <2> SUFFICES ASSUME NEW t \in Streams, NEW i \in DOMAIN p[t], p[t][i].op = "kernel"
               PROVE  \/ B[p[t][i].x].state = "live" /\ B[p[t][i].x].deleter = t
                      \/ /\ B[p[t][i].x].state = "freeing"
                         /\ \E j \in DOMAIN p[t] : j > i /\ p[t][j] = Free(p[t][i].x)
    BY DEF LeftSafe
  <2>1. \/ i \in DOMAIN q[t] /\ p[t][i] = q[t][i]
        \/ t = s /\ p[t][i] = c
    BY <1>2, Pushed
  <2>2. \A j \in DOMAIN q[t] : j \in DOMAIN p[t] /\ p[t][j] = q[t][j]
    BY PushKeeps
  <2> HIDE DEF p
  <2> QED BY <2>1, <2>2 DEF LeftSafe
<1> QED BY <1>1, <1>2

\* Its free queues up behind the kernels it is the left operand of.
LEMMA SafePushFree ==
  ASSUME NEW q \in [Streams -> Seq(Command)], NEW s \in Streams, NEW b \in Buffers,
         NEW B, NEW C, LeftSafe(q, B), B[b].state = "live", B[b].deleter = s,
         C[b].state = "freeing", \A d \in Buffers \ {b} : C[d] = B[d]
  PROVE  LeftSafe(Push(q, s, Free(b)), C)
<1> DEFINE c == Free(b)
           p == Push(q, s, c)
<1> SUFFICES ASSUME NEW t \in Streams, NEW i \in DOMAIN p[t], p[t][i].op = "kernel"
             PROVE  \/ C[p[t][i].x].state = "live" /\ C[p[t][i].x].deleter = t
                    \/ /\ C[p[t][i].x].state = "freeing"
                       /\ \E j \in DOMAIN p[t] : j > i /\ p[t][j] = Free(p[t][i].x)
  BY DEF LeftSafe
<1>1. c \in Command /\ c.op = "free"
  BY DEF Free, Command
<1>2. i \in DOMAIN q[t] /\ p[t][i] = q[t][i]
  <2> HIDE DEF c
  <2> QED BY <1>1, Pushed
<1>3. \A j \in DOMAIN q[t] : j \in DOMAIN p[t] /\ p[t][j] = q[t][j]
  <2> HIDE DEF c
  <2> QED BY <1>1, PushKeeps
<1>4. p[t][i].x \in Buffers
  BY <1>2, LeftOperand
<1>5. CASE p[t][i].x # b
  <2> HIDE DEF p, c
  <2> QED BY <1>2, <1>3, <1>4, <1>5 DEF LeftSafe
<1>6. CASE p[t][i].x = b
  <2>1. t = s
    BY <1>2, <1>6 DEF LeftSafe
  <2> DEFINE j == Len(q[s]) + 1
  <2>2. j \in DOMAIN p[s] /\ p[s][j] = c /\ i \in DOMAIN q[s] /\ i < j
    <3> HIDE DEF c
    <3> QED BY <1>1, <1>2, <2>1, AppendProperties, LenProperties DEF Push
  <2> HIDE DEF j, p
  <2> QED BY <1>6, <2>1, <2>2
<1> QED BY <1>5, <1>6

\* Deleters enqueue their free on the stream of the kernels they must follow.
LEMMA SafeDelete ==
  ASSUME AsyncInv, NEW a \in Arrays
  PROVE  /\ LeftSafe(FreesQueued(Last(a)), Deleted(Last(a)))
         /\ \A b \in Buffers : /\ Deleted(Last(a))[b].kind = "device"
                               /\ Deleted(Last(a))[b].deleter = buf[b].deleter
<1> DEFINE D == Last(a)
<1>1. /\ buf \in [Buffers -> BufType] /\ queue \in [Streams -> Seq(Command)]
      /\ LeftSafe(queue, buf) /\ \A b \in Buffers : buf[b].kind = "device"
  BY DEF AsyncInv, IInv, TypeOK, InOrder, AllDevice
<1>2. /\ D \in SUBSET Buffers /\ \A b \in D : buf[b].state = "live"
      /\ \A b, c \in D : b = c
  BY LastFacts DEF AsyncInv
<1> HIDE DEF D
<1>3. \A b \in Buffers : Deleted(D)[b].kind = "device" /\ Deleted(D)[b].deleter = buf[b].deleter
  BY <1>1 DEF Deleted, BufType
<1>4. ASSUME D = {} PROVE LeftSafe(FreesQueued(D), Deleted(D))
  <2>1. Deleted(D) = buf /\ FreesQueued(D) = queue
    BY <1>1, <1>4 DEF Deleted, FreesQueued
  <2> QED BY <1>1, <2>1
<1>5. ASSUME NEW b \in D PROVE LeftSafe(FreesQueued(D), Deleted(D))
  <2>1. D = {b} /\ (CHOOSE c \in D : TRUE) = b /\ b \in Buffers
    BY <1>2
  <2>2. buf[b].deleter \in Streams /\ buf[b].kind = "device" /\ buf[b].state = "live"
    BY <1>1, <1>2, <2>1
       DEF AsyncInv, IInv, Owned, NothingLeaks, BufType, StreamOrNone
  <2>3. FreesQueued(D) = Push(queue, buf[b].deleter, Free(b))
    BY <1>1, <2>1, <2>2 DEF FreesQueued, Push
  <2>4. Deleted(D)[b].state = "freeing" /\ \A d \in Buffers \ {b} : Deleted(D)[d] = buf[d]
    BY <1>1, <2>1, <2>2 DEF Deleted, BufType
  <2>5. LeftSafe(Push(queue, buf[b].deleter, Free(b)), Deleted(D))
    <3>1. /\ LeftSafe(queue, buf) /\ queue \in [Streams -> Seq(Command)]
          /\ b \in Buffers /\ buf[b].deleter \in Streams
      BY <1>1, <2>1, <2>2
    <3> QED BY <3>1, <2>2, <2>4, SafePushFree
  <2> QED BY <2>3, <2>5
<1> QED BY <1>3, <1>4, <1>5 DEF D
-----------------------------------------------------------------------------
(* Every action keeps the order.                                           *)

LEMMA AsyncFacts ==
  ASSUME AsyncInv
  PROVE  /\ IInv /\ TypeOK /\ LeftSafe(queue, buf) /\ FreedOnOwnStream
         /\ buf \in [Buffers -> BufType] /\ queue \in [Streams -> Seq(Command)]
         /\ arr \in [Arrays -> ArrType] /\ NoProduct
         /\ \A b \in Buffers : buf[b].kind = "device"
BY DEF AsyncInv, IInv, TypeOK, InOrder, AllDevice

\* The host goes on with what it does, returns or waits.
LEMMA HostGoesOn ==
  ASSUME AsyncInv, host' = host \/ host' = Idle \/ \E S : host' = Synchronized(S)
  PROVE  NoProduct'
<1>1. Idle.pc = "idle" /\ \A S : Synchronized(S).pc = "wait"
  BY DEF Synchronized, Idle
<1>2. CASE host' = host
  BY <1>2, AsyncFacts DEF NoProduct
<1>3. CASE host' = Idle \/ \E S : host' = Synchronized(S)
  BY <1>1, <1>3 DEF NoProduct
<1> QED BY <1>2, <1>3

\* Arrays refer to what arrays on the same stream referred to.
LEMMA Kept ==
  ASSUME AsyncInv, NoProduct', LeftSafe(queue', buf'),
         \A b \in Buffers : buf'[b].kind = "device" /\ buf'[b].deleter = buf[b].deleter,
         \A a \in Arrays : arr'[a].data # None =>
           \E r \in Arrays : arr'[a].data = arr[r].data /\ arr'[a].stream = arr[r].stream
  PROVE  InOrder'
<1>1. \A r \in Arrays : arr[r].data # None => arr[r].data \in Buffers
  BY AsyncFacts, ArrayType
<1> QED BY <1>1, AsyncFacts DEF InOrder, AllDevice, FreedOnOwnStream

\* Calls that neither allocate nor free.
LEMMA UnfreedInOrder ==
  ASSUME AsyncInv, NoProduct',
         \A b \in Buffers : /\ buf'[b].state = buf[b].state
                            /\ buf'[b].kind = buf[b].kind
                            /\ buf'[b].deleter = buf[b].deleter,
         queue' \in [Streams -> Seq(Command)], LeftSafe(queue', buf),
         \A a \in Arrays : arr'[a].data # None =>
           \E r \in Arrays : arr'[a].data = arr[r].data /\ arr'[a].stream = arr[r].stream
  PROVE  InOrder'
<1>1. LeftSafe(queue', buf')
  <2>1. Keeps(buf, buf')
    BY DEF Keeps
  <2>2. queue' \in [Streams -> Seq(Command)] /\ LeftSafe(queue', buf)
    OBVIOUS
  <2> QED BY ONLY <2>1, <2>2, SafeMono
<1> QED BY <1>1, AsyncFacts, Kept

LEMMA QuietInOrder ==
  ASSUME AsyncInv, NoProduct', UNCHANGED <<buf, queue>>,
         \A a \in Arrays : arr'[a].data # None =>
           \E r \in Arrays : arr'[a].data = arr[r].data /\ arr'[a].stream = arr[r].stream
  PROVE  InOrder'
BY AsyncFacts, UnfreedInOrder

\* They may enqueue a command.
LEMMA EnqueuedInOrder ==
  ASSUME AsyncInv, NoProduct', arr' = arr,
         \A b \in Buffers : /\ buf'[b].state = buf[b].state
                            /\ buf'[b].kind = buf[b].kind
                            /\ buf'[b].deleter = buf[b].deleter,
         NEW s, NEW c \in Command, queue' = Push(queue, s, c),
         c.op = "kernel" => buf[c.x].state = "live" /\ buf[c.x].deleter = s
  PROVE  InOrder'
<1>1. LeftSafe(queue', buf) /\ queue' \in [Streams -> Seq(Command)]
  BY AsyncFacts, SafePush, PushType
<1> QED BY <1>1, UnfreedInOrder

\* An array gets an allocation whose deleter is on the array's stream.
LEMMA GainInOrder ==
  ASSUME AsyncInv, TypeOK', NoProduct', NEW a \in Arrays,
         NEW b \in FreeBuffers, NEW s \in Streams, NEW l, NEW B \in [Buffers -> BufType],
         buf' = Allocated(B, b, s, l), arr'[a].data = b, arr'[a].stream = s,
         \A x \in Arrays \ {a} : arr'[x] = arr[x], B[b] = buf[b],
         \A c \in Buffers : B[c].kind = "device" /\ B[c].deleter = buf[c].deleter,
         LeftSafe(queue', B)
  PROVE  InOrder'
<1>1. b \in Buffers /\ buf[b].state = "free"
  BY DEF FreeBuffers
<1>2. /\ buf'[b].kind = "device" /\ buf'[b].deleter = s
      /\ \A c \in Buffers \ {b} : buf'[c] = B[c]
  BY <1>1 DEF Allocated, Unused
<1>3. LeftSafe(queue', buf')
  <2>1. Keeps(B, buf')
    BY <1>1, <1>2 DEF Keeps
  <2>2. queue' \in [Streams -> Seq(Command)]
    BY DEF TypeOK
  <2>3. LeftSafe(queue', B)
    OBVIOUS
  <2> QED BY ONLY <2>1, <2>2, <2>3, SafeMono
<1>4. \A x \in Arrays \ {a} : arr[x].data # None =>
        arr[x].data \in Buffers \ {b} /\ buf[arr[x].data].deleter = arr[x].stream
  BY <1>1, AsyncFacts, ArrayType
     DEF IInv, Owned, NothingDangles, FreedOnOwnStream
<1> QED BY <1>2, <1>3, <1>4 DEF InOrder, AllDevice, FreedOnOwnStream

LEMMA BecomesEmptyInOrder ==
  ASSUME AsyncInv, NEW a \in Arrays, BecomesEmpty(a)
  PROVE  InOrder'
<1>1. UNCHANGED <<buf, queue>> /\ NoProduct'
  BY HostGoesOn DEF BecomesEmpty
<1>2. \A x \in Arrays : arr'[x].data # None => x \in Arrays /\ arr'[x] = arr[x]
  BY AsyncFacts DEF BecomesEmpty, Empty
<1> QED BY <1>1, <1>2, AsyncFacts, QuietInOrder

LEMMA ConstructInOrder ==
  ASSUME AsyncInv, TypeOK', NEW a \in Arrays, NEW n \in Sizes,
         Construct(a, n) \/ \E v \in Values : ConstructFilled(a, n, v)
  PROVE  InOrder'
<1>1. PICK s \in Streams :
        /\ host' = Synchronized({s})
        /\ \/ AllocationFails(a, n, s)
           \/ \E b \in FreeBuffers : \E l :
                /\ AllocateArray(a, n, s, b, l)
                /\ queue' = queue \/ \E v \in Values : queue' = Push(queue, s, Fill(b, v))
  BY DEF Construct, ConstructFilled, FreshStreams
<1>2. NoProduct'
  BY <1>1, HostGoesOn
<1>3. CASE AllocationFails(a, n, s)
  <2>1. /\ UNCHANGED <<buf, queue>>
        /\ \A x \in Arrays : arr'[x].data # None => arr'[x] = arr[x]
    BY <1>3, AsyncFacts DEF AllocationFails
  <2> QED BY <1>2, <2>1, AsyncFacts, QuietInOrder
<1>4. ASSUME NEW b \in FreeBuffers, NEW l, AllocateArray(a, n, s, b, l),
             queue' = queue \/ \E v \in Values : queue' = Push(queue, s, Fill(b, v))
      PROVE  InOrder'
  <2>1. /\ buf' = Allocated(buf, b, s, l) /\ arr'[a].data = b /\ arr'[a].stream = s
        /\ \A x \in Arrays \ {a} : arr'[x] = arr[x]
    BY <1>4, AsyncFacts DEF AllocateArray
  <2>2. LeftSafe(queue', buf)
    <3>1. \A v \in Values : Fill(b, v) \in Command /\ Fill(b, v).op = "fill"
      BY DEF Fill, Command, FreeBuffers
    <3> QED BY <1>4, <3>1, AsyncFacts, SafePush
  <2> QED BY <1>2, <2>1, <2>2, AsyncFacts, GainInOrder
<1> QED BY <1>1, <1>3, <1>4

LEMMA MoveConstructInOrder ==
  ASSUME AsyncInv, NEW a \in Arrays, NEW r \in Arrays, MoveConstruct(a, r)
  PROVE  InOrder'
<1>1. CASE BecomesEmpty(a)
  BY <1>1, BecomesEmptyInOrder
<1>2. CASE ~BecomesEmpty(a)
  <2>1. /\ UNCHANGED <<buf, queue>> /\ NoProduct'
        /\ arr' = [arr EXCEPT ![a] = arr[r], ![r] = Empty]
    BY <1>2, HostGoesOn DEF MoveConstruct
  <2>2. \A x \in Arrays : arr'[x].data # None => arr'[x] = arr[x] \/ arr'[x] = arr[r]
    BY <2>1, AsyncFacts DEF Empty
  <2> QED BY <2>1, <2>2, AsyncFacts, QuietInOrder
<1> QED BY <1>1, <1>2

LEMMA LetGoInOrder ==
  ASSUME AsyncInv, NEW a \in Arrays,
         \/ Destroy(a) \/ Release(a) \/ \E r \in Arrays : MoveAssign(a, r)
  PROVE  InOrder'
<1>1. /\ buf' = Deleted(Last(a)) /\ queue' = FreesQueued(Last(a))
      /\ NoProduct'
  BY HostGoesOn DEF Destroy, Release, MoveAssign
<1>2. \A x \in Arrays : arr'[x].data # None => \E r \in Arrays : arr'[x] = arr[r]
  <2> SUFFICES ASSUME NEW x \in Arrays, arr'[x].data # None
               PROVE  \E r \in Arrays : arr'[x] = arr[r]
    OBVIOUS
  <2>1. arr \in [Arrays -> ArrType]
    BY AsyncFacts
  <2>2. CASE Destroy(a)
    BY <2>1, <2>2 DEF Destroy, Empty
  <2>3. CASE Release(a)
    <3>1. x # a
      BY <2>1, <2>3 DEF Release, ArrType
    <3> QED BY <2>1, <2>3, <3>1 DEF Release
  <2>4. ASSUME NEW r \in Arrays, MoveAssign(a, r)
        PROVE  \E z \in Arrays : arr'[x] = arr[z]
    BY <2>1, <2>4 DEF MoveAssign, Empty
  <2> QED BY <2>2, <2>3, <2>4
<1> QED BY <1>1, <1>2, SafeDelete, Kept

\* A copy shares the stream of what it copies, and its deleter does too.
LEMMA CopyFromInOrder ==
  ASSUME AsyncInv, TypeOK', NEW a \in Arrays, NEW r \in Arrays,
         arr[r].size # 0, CopyFrom(a, r, Last(a))
  PROVE  InOrder'
<1> DEFINE s == arr[r].stream
           B == Deleted(Last(a))
           q == FreesQueued(Last(a))
<1>1. s \in Streams /\ NoProduct'
  BY AsyncFacts, ArrayType, HostGoesOn DEF CopyFrom, IInv, Sized, StreamOrNone
<1>2. /\ LeftSafe(q, B) /\ B \in [Buffers -> BufType]
      /\ q \in [Streams -> Seq(Command)]
      /\ \A c \in Buffers : B[c].kind = "device" /\ B[c].deleter = buf[c].deleter
  BY AsyncFacts, LastFacts, SafeDelete, DeletedType, FreesQueuedType
<1>3. CASE /\ arr' = [arr EXCEPT ![a] = [arr[r] EXCEPT !.data = None]]
           /\ buf' = B /\ queue' = q
  <2>1. \A x \in Arrays : arr'[x].data # None => arr'[x] = arr[x]
    BY <1>3, AsyncFacts DEF ArrType
  <2> QED BY <1>1, <1>2, <1>3, <2>1, Kept
<1>4. ASSUME NEW b \in FreeBuffers, NEW l,
             arr' = [arr EXCEPT ![a] = [arr[r] EXCEPT !.data = b]],
             buf' = Allocated(B, b, s, l),
             \/ queue' = q
             \/ queue' = Push(q, s, Copy(b, arr[r].data)) /\ arr[r].data # None
      PROVE  InOrder'
  <2>1. /\ arr'[a].data = b /\ arr'[a].stream = s
        /\ \A x \in Arrays \ {a} : arr'[x] = arr[x]
    BY <1>4, AsyncFacts DEF ArrType
  <2>2. B[b] = buf[b]
    BY AsyncFacts, LastFacts, DeletedFacts DEF FreeBuffers
  <2>3. arr[r].data # None =>
          /\ Copy(b, arr[r].data) \in Command
          /\ Copy(b, arr[r].data).op # "kernel"
    BY AsyncFacts, ArrayType DEF Copy, Command, FreeBuffers
  <2> HIDE DEF s, B, q
  <2>4. LeftSafe(queue', B)
    BY <1>2, <1>4, <2>3, SafePush
  <2> QED BY <1>1, <1>2, <1>4, <2>1, <2>2, <2>4, GainInOrder
<1> QED BY <1>3, <1>4 DEF CopyFrom

LEMMA CopyInOrder ==
  ASSUME AsyncInv, TypeOK', NEW a \in Arrays, NEW r \in Arrays,
         CopyConstruct(a, r) \/ CopyAssign(a, r)
  PROVE  InOrder'
<1>1. CASE CopyConstruct(a, r)
  <2>1. Last(a) = {}
    BY <1>1, AsyncFacts, UnbuiltLast DEF CopyConstruct
  <2> QED BY <1>1, <2>1, BecomesEmptyInOrder, CopyFromInOrder DEF CopyConstruct
<1>2. CASE CopyAssign(a, r)
  BY <1>2, CopyFromInOrder DEF CopyAssign
<1> QED BY <1>1, <1>2

\* The kernels of every operator: on the stream of the left operand, which is
\* the one its data is freed on.
LEMMA OnLeftStream ==
  ASSUME AsyncInv, NEW x \in Arrays, NEW y \in Arrays, NEW b \in Buffers,
         arr[x].data # None, arr[y].data # None
  PROVE  LET c == Kernel(b, arr[x].data, arr[y].data, None)
         IN  /\ c \in Command /\ c.op = "kernel"
             /\ buf[c.x].state = "live" /\ buf[c.x].deleter = arr[x].stream
<1>1. arr[x].data \in Buffers /\ arr[y].data \in Buffers
  BY AsyncFacts, ArrayType
<1>2. buf[arr[x].data].state = "live" /\ buf[arr[x].data].deleter = arr[x].stream
  BY AsyncFacts DEF IInv, Owned, NothingDangles, FreedOnOwnStream
<1> QED BY <1>1, <1>2 DEF Kernel, Command, BufferOrNone

LEMMA NewFromInOrder ==
  ASSUME AsyncInv, TypeOK', NEW a \in Arrays, NEW x \in Arrays, NEW y \in Arrays,
         NEW S, arr[x].data # None, arr[y].data # None, NewFrom(a, x, y, S)
  PROVE  InOrder'
<1>1. PICK s \in Streams, b \in FreeBuffers :
        /\ arr' = [arr EXCEPT ![a] = [arr[x] EXCEPT !.data = b, !.stream = s]]
        /\ \E l : buf' = Allocated(buf, b, s, l)
        /\ queue' = Push(queue, arr[x].stream,
                         Kernel(b, arr[x].data, arr[y].data, None))
        /\ host' = Synchronized(S \cup {s})
  BY DEF NewFrom, FreshStreams
<1>2. /\ arr'[a].data = b /\ arr'[a].stream = s
      /\ \A z \in Arrays \ {a} : arr'[z] = arr[z]
  BY <1>1, AsyncFacts DEF ArrType
<1>3. LeftSafe(queue', buf)
  <2> DEFINE c == Kernel(b, arr[x].data, arr[y].data, None)
  <2>1. /\ c \in Command
        /\ buf[c.x].state = "live" /\ buf[c.x].deleter = arr[x].stream
    BY OnLeftStream DEF FreeBuffers
  <2>2. queue' = Push(queue, arr[x].stream, c)
    BY <1>1
  <2> HIDE DEF c
  <2> QED BY <2>1, <2>2, AsyncFacts, SafePush
<1> QED BY <1>1, <1>2, <1>3, AsyncFacts, HostGoesOn, GainInOrder

\* The result of a failed launch was used by no kernel.
LEMMA LaunchFailsInOrder ==
  ASSUME AsyncInv, NEW a \in Arrays, LaunchFails(a)
  PROVE  InOrder'
<1>1. PICK s \in Streams, t \in Streams, b \in FreeBuffers :
        /\ arr' = [arr EXCEPT ![a] = [Empty EXCEPT !.stream = t]]
        /\ buf' = Discarded(b, s) /\ queue' = Push(queue, s, Free(b))
  BY DEF LaunchFails, FreshStreams
<1>2. NoProduct'
  BY HostGoesOn DEF LaunchFails
<1>3. /\ b \in Buffers /\ buf[b].state = "free" /\ buf'[b].kind = "device"
      /\ \A c \in Buffers \ {b} : buf'[c] = buf[c]
  BY <1>1, AsyncFacts DEF FreeBuffers, Discarded, Unused
<1>4. AllDevice'
  BY <1>3, AsyncFacts DEF AllDevice
<1>5. FreedOnOwnStream'
  <2>1. \A x \in Arrays : arr'[x].data # None =>
           arr'[x] = arr[x] /\ arr[x].data \in Buffers \ {b}
    BY <1>1, <1>3, AsyncFacts, ArrayType
       DEF Empty, IInv, Owned, NothingDangles
  <2> QED BY <1>3, <2>1, AsyncFacts DEF FreedOnOwnStream
<1>6. LeftSafe(queue', buf)
  <2>1. Free(b) \in Command /\ Free(b).op # "kernel"
    BY <1>3 DEF Free, Command
  <2> QED BY <1>1, <2>1, AsyncFacts, SafePush
<1>7. queue' \in [Streams -> Seq(Command)]
  BY <1>1, <1>3, AsyncFacts, PushType DEF Free, Command
<1>8. LeftSafe(queue', buf')
  <2>1. Keeps(buf, buf')
    BY <1>3 DEF Keeps
  <2> QED BY ONLY <1>6, <1>7, <2>1, SafeMono
<1> QED BY <1>2, <1>4, <1>5, <1>8 DEF InOrder

LEMMA OperatorInOrder ==
  ASSUME AsyncInv, TypeOK', NEW a \in Arrays, NEW x \in Arrays, NEW y \in Arrays,
         \/ Unary(a, x) \/ UnaryNoWait(a, x)
         \/ Elementwise(a, x, y) \/ ElementwiseNoWait(a, x, y)
  PROVE  InOrder'
<1>1. \/ BecomesEmpty(a)
      \/ LaunchFails(a)
      \/ \E z \in Arrays : \E S : /\ arr[x].data # None /\ arr[z].data # None
                                  /\ NewFrom(a, x, z, S)
  BY DEF Unary, UnaryNoWait, Elementwise, ElementwiseNoWait, NoData, Mismatch
<1> QED BY <1>1, BecomesEmptyInOrder, LaunchFailsInOrder, NewFromInOrder

LEMMA InPlaceInOrder ==
  ASSUME AsyncInv, NEW x \in Arrays, NEW y \in Arrays,
         InPlace(x, y) \/ InPlaceNoWait(x, y)
  PROVE  InOrder'
<1>1. /\ arr[x].data # None /\ arr[y].data # None /\ arr' = arr
      /\ NoProduct'
      /\ InPlaceFrom(x, y) \/ UNCHANGED <<buf, queue>>
  BY HostGoesOn DEF InPlace, InPlaceNoWait, Mismatch
<1>2. CASE UNCHANGED <<buf, queue>>
  BY <1>1, <1>2, AsyncFacts, QuietInOrder
<1>3. CASE InPlaceFrom(x, y)
  <2> DEFINE b == arr[x].data
             c == Kernel(b, b, arr[y].data, None)
  <2>1. b \in Buffers
    BY <1>1, AsyncFacts, ArrayType
  <2>2. /\ c \in Command
        /\ buf[c.x].state = "live" /\ buf[c.x].deleter = arr[x].stream
    BY <1>1, <2>1, OnLeftStream
  <2>3. queue' = Push(queue, arr[x].stream, c)
    BY <1>3 DEF InPlaceFrom
  <2>4. \E l : buf' = [buf EXCEPT ![b].logical = l]
    BY <1>3 DEF InPlaceFrom
  <2> HIDE DEF c, b
  <2>5. \A d \in Buffers : /\ buf'[d].state = buf[d].state
                           /\ buf'[d].kind = buf[d].kind
                           /\ buf'[d].deleter = buf[d].deleter
    BY <2>4, AsyncFacts DEF BufType
  <2> QED BY <1>1, <2>2, <2>3, <2>5, EnqueuedInOrder
<1> QED BY <1>1, <1>2, <1>3

LEMMA AccessInOrder ==
  ASSUME AsyncInv, Access
  PROVE  InOrder'
<1>1. \A b \in Buffers : Fetch(b) \in Command /\ Fetch(b).op # "kernel"
  BY DEF Fetch, Command
<1>2. \A b \in Buffers, x \in Values : Fill(b, x) \in Command /\ Fill(b, x).op # "kernel"
  BY DEF Fill, Command
<1>3. ASSUME NEW a \in Arrays, Synchronize(a) PROVE InOrder'
  BY <1>3, HostGoesOn, QuietInOrder DEF Synchronize
<1>4. ASSUME NEW b \in Buffers, NEW s, Fetching(b, s), UNCHANGED <<arr, buf>>
      PROVE  InOrder'
  <2>1. NoProduct'
    BY <1>4 DEF Fetching, Synchronized, Idle, NoProduct
  <2>2. /\ Fetch(b) \in Command /\ Fetch(b).op # "kernel"
        /\ queue' = Push(queue, s, Fetch(b)) /\ arr' = arr /\ buf' = buf
    BY <1>1, <1>4 DEF Fetching
  <2> QED BY <2>1, <2>2, EnqueuedInOrder
<1>5. ASSUME NEW a \in Arrays, Read(a) PROVE InOrder'
  BY <1>4, <1>5, AsyncFacts, ArrayType DEF Read
<1>6. ASSUME NEW v \in Views, view[v].data # None PROVE view[v].data \in Buffers
  BY <1>6, AsyncFacts DEF TypeOK, ViewType, BufferOrNone
<1>7. ASSUME NEW v \in Views, ViewGet(v) PROVE InOrder'
  BY <1>4, <1>6, <1>7 DEF ViewGet
<1>8. ASSUME NEW v \in Views, NEW x \in Values, ViewSet(v, x) PROVE InOrder'
  <2> DEFINE b == view[v].data
  <2>1. /\ b \in Buffers /\ buf' = [buf EXCEPT ![b].logical = x] /\ arr' = arr
        /\ queue' = Push(queue, view[v].stream, Fill(b, x)) /\ NoProduct'
    BY <1>6, <1>8, HostGoesOn DEF ViewSet
  <2> HIDE DEF b
  <2>2. \A d \in Buffers : /\ buf'[d].state = buf[d].state
                           /\ buf'[d].kind = buf[d].kind
                           /\ buf'[d].deleter = buf[d].deleter
    BY <2>1, AsyncFacts DEF BufType
  <2> QED BY <1>2, <2>1, <2>2, EnqueuedInOrder
<1>9. ASSUME NEW v \in Views, DropView(v) \/ \E a \in Arrays : MakeView(v, a)
      PROVE  InOrder'
  BY <1>9, HostGoesOn, QuietInOrder DEF DropView, MakeView
<1> QED BY <1>3, <1>5, <1>7, <1>8, <1>9 DEF Access
-----------------------------------------------------------------------------
(* The device.                                                             *)

LEMMA ExecuteInOrder ==
  ASSUME AsyncInv, NEW s \in Streams, Execute(s)
  PROVE  InOrder'
<1> DEFINE c == Head(queue[s])
<1>1. /\ Apply(c) /\ arr' = arr /\ queue[s] # <<>>
      /\ queue' = [queue EXCEPT ![s] = Tail(@)]
      /\ buf \in [Buffers -> BufType] /\ queue \in [Streams -> Seq(Command)]
  BY AsyncFacts DEF Execute
<1>2. /\ c \in Command /\ 1 \in DOMAIN queue[s] /\ queue[s][1] = c
      /\ \A t \in Streams : \A i \in DOMAIN queue'[t] :
           LET k == IF t = s THEN i + 1 ELSE i
           IN  /\ k \in DOMAIN queue[t] /\ queue'[t][i] = queue[t][k]
               /\ i \in Nat /\ i >= 1
      /\ \A t \in Streams : \A k \in DOMAIN queue[t] :
           \/ t = s /\ k = 1
           \/ LET i == IF t = s THEN k - 1 ELSE k
              IN  i \in DOMAIN queue'[t] /\ queue'[t][i] = queue[t][k]
  BY <1>1, Popped
<1> HIDE DEF c
<1>3. NoProduct'
  BY <1>1, AsyncFacts DEF Apply, TypeOK, HostType, NoProduct
<1>4. c.op = "free" => /\ c.dst \in Buffers /\ c = Free(c.dst)
                       /\ buf[c.dst].state = "freeing"
  BY <1>2, AsyncFacts DEF Command, Free, IInv, FreedOnce, Once
<1>5. /\ \A b \in Buffers : buf'[b].kind = "device"
      /\ \A b \in Buffers : c # Free(b) => /\ buf'[b].state = buf[b].state
                                           /\ buf'[b].deleter = buf[b].deleter
  <2>1. CASE c.op = "free"
    BY <1>1, <1>4, <2>1, AsyncFacts DEF Apply, Unused
  <2>2. CASE c.op = "fetch"
    BY <1>1, <2>2, AsyncFacts DEF Apply
  <2>3. CASE c.op \in {"fill", "kernel", "copy"}
    <3>1. \E m : buf' = [buf EXCEPT ![c.dst].mem = m]
      BY <1>1, <2>3 DEF Apply
    <3> QED BY <1>1, <3>1, AsyncFacts DEF BufType
  <2>4. c.op \in {"free", "fetch", "fill", "kernel", "copy"}
    BY <1>2 DEF Command
  <2> QED BY <2>1, <2>2, <2>3, <2>4
<1>6. \A b \in Buffers : buf[b].state = "live" => c # Free(b)
  BY <1>4 DEF Free
<1>7. FreedOnOwnStream'
  BY <1>1, <1>5, <1>6, AsyncFacts, ArrayType
     DEF FreedOnOwnStream, IInv, Owned, NothingDangles
<1>8. LeftSafe(queue', buf')
  <2> SUFFICES ASSUME NEW t \in Streams, NEW i \in DOMAIN queue'[t],
                      queue'[t][i].op = "kernel"
               PROVE  LET x == queue'[t][i].x
                      IN  \/ buf'[x].state = "live" /\ buf'[x].deleter = t
                          \/ /\ buf'[x].state = "freeing"
                             /\ \E l \in DOMAIN queue'[t] :
                                  l > i /\ queue'[t][l] = Free(x)
    BY DEF LeftSafe
  <2> DEFINE k == IF t = s THEN i + 1 ELSE i
             x == queue'[t][i].x
  <2>1. /\ k \in DOMAIN queue[t] /\ queue'[t][i] = queue[t][k]
        /\ i \in Nat /\ i >= 1
    BY <1>2
  <2>2. \/ buf[x].state = "live" /\ buf[x].deleter = t
        \/ /\ buf[x].state = "freeing"
           /\ \E j \in DOMAIN queue[t] : j > k /\ queue[t][j] = Free(x)
    <3> HIDE DEF k
    <3> QED BY <2>1, AsyncFacts DEF LeftSafe
  <2>3. x \in Buffers
    <3> HIDE DEF k
    <3> QED BY <1>1, <2>1, LeftOperand
  <2>4. CASE buf[x].state = "live" /\ buf[x].deleter = t
    <3> HIDE DEF x, k
    <3> QED BY <1>5, <1>6, <2>3, <2>4 DEF x
  <2>5. ASSUME NEW j \in DOMAIN queue[t], j > k, queue[t][j] = Free(x),
               buf[x].state = "freeing"
        PROVE  /\ buf'[x].state = "freeing"
               /\ \E l \in DOMAIN queue'[t] : l > i /\ queue'[t][l] = Free(x)
    <3> DEFINE l == IF t = s THEN j - 1 ELSE j
    <3>1. j \in Nat /\ j > 1
      <4>1. DOMAIN queue[t] = 1 .. Len(queue[t]) /\ Len(queue[t]) \in Nat
        BY <1>1, LenProperties
      <4> QED BY <2>1, <2>5, <4>1
    <3>2. c # Free(x)
      <4> SUFFICES ASSUME c = Free(x) PROVE FALSE
        OBVIOUS
      <4>1. queue[s][1].op = "free" /\ queue[t][j] = queue[s][1]
        BY <1>2, <2>5 DEF Free
      <4>2. s = t /\ j = 1
        BY <1>2, <4>1, AsyncFacts DEF IInv, FreedOnce, Once
      <4> QED BY <3>1, <4>2
    <3>3. l \in DOMAIN queue'[t] /\ queue'[t][l] = Free(x)
      BY <1>2, <2>5, <3>1
    <3>4. l > i
      BY <2>1, <2>5, <3>1
    <3> HIDE DEF l
    <3> QED BY <1>5, <2>3, <2>5, <3>2, <3>3, <3>4
  <2> QED BY <2>2, <2>4, <2>5
<1> QED BY <1>3, <1>5, <1>7, <1>8, AsyncFacts DEF InOrder, AllDevice
-----------------------------------------------------------------------------
(* The invariant and what follows from it.                                 *)

LEMMA InitInOrder == Init => InOrder
BY DEF Init, InOrder, AllDevice, FreedOnOwnStream, LeftSafe, Idle, Empty, Unused, NoProduct

LEMMA InOrderNext ==
  ASSUME OwnStreams, AsyncInv, TypeOK', [Next]_vars
  PROVE  InOrder'
<1>1. CASE Lifetime
  <2>1. ASSUME NEW a \in Arrays, DefaultConstruct(a) PROVE InOrder'
    BY <2>1, BecomesEmptyInOrder DEF DefaultConstruct
  <2>2. /\ \A a, r \in Arrays : ~ConstructShared(a, r)
        /\ \A a \in Arrays, n \in Sizes : ~ConstructManaged(a, n)
    BY DEF OwnStreams, ConstructShared, ConstructManaged
  <2>3. ASSUME NEW a \in Arrays, AwaitDevice(a) PROVE FALSE
    <3>1. Last(a) \in SUBSET Buffers
      BY AsyncFacts, LastFacts
    <3> QED BY <2>3, <3>1, AsyncFacts DEF AwaitDevice, CanDelete
  <2> QED BY <1>1, <2>1, <2>2, <2>3, ConstructInOrder, CopyInOrder,
             MoveConstructInOrder, LetGoInOrder DEF Lifetime
<1>2. CASE Compute
  <2>1. ASSUME NEW a \in Arrays, NEW x \in Arrays, NEW y \in Arrays, Matmul(a, x, y)
        PROVE  FALSE
    BY <2>1 DEF OwnStreams, Matmul
  <2> QED BY <1>2, <2>1, InPlaceInOrder, OperatorInOrder DEF Compute
<1>3. CASE Access
  BY <1>3, AccessInOrder
<1>4. CASE MatmulCleanup \/ Abandon \/ Return
  <2>1. Return /\ NoProduct' /\ UNCHANGED <<arr, buf, queue>>
    BY <1>4, AsyncFacts DEF MatmulCleanup, Abandon, Return, Idle, NoProduct
  <2> QED BY <2>1, AsyncFacts, QuietInOrder
<1>5. CASE \E s \in Streams : Execute(s)
  BY <1>5, ExecuteInOrder
<1>6. CASE UNCHANGED vars
  BY <1>6, AsyncFacts, HostGoesOn, QuietInOrder DEF vars
<1> QED BY <1>1, <1>2, <1>3, <1>4, <1>5, <1>6 DEF Next

\* The inductive invariant of programs that may go on without waiting.
THEOREM AsyncInvariance ==
  ASSUME OwnStreams
  PROVE  Spec => []AsyncInv
<1>1. Init => AsyncInv
  BY InitType, InitOwned, InitInOrder DEF IInv, AsyncInv
<1>2. AsyncInv /\ [Next]_vars => AsyncInv'
  BY NextType, OwnedNext, SizedStep, InOrderNext DEF IInv, AsyncInv
<1> QED BY <1>1, <1>2, PTL DEF Spec

\* Copies and moves keep data and the stream it is freed on together.
THEOREM FreeFollowsWork ==
  ASSUME OwnStreams
  PROVE  Spec => []FreedOnOwnStream
BY AsyncInvariance, PTL DEF AsyncInv, InOrder

\* The left operand of an operator that did not wait outlives its kernel, even
\* if the array was destroyed, released or assigned to in the meantime.
THEOREM OperandOutlivesKernel ==
  ASSUME OwnStreams
  PROVE  Spec => []LeftOperandOutlives
<1>1. AsyncInv => LeftOperandOutlives
  BY DEF AsyncInv, InOrder, LeftSafe, LeftOperandOutlives, Pending
<1> QED BY <1>1, AsyncInvariance, PTL
=============================================================================
