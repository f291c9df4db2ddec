---------------------------- MODULE NdArrayProof ----------------------------
(***************************************************************************)
(* Proofs about NdArray, for any numbers of arrays, views, allocations and  *)
(* streams and for every program (every Client).                            *)
(***************************************************************************)
EXTENDS NdArray, SequenceTheorems, TLAPS
-----------------------------------------------------------------------------
(* What the operators of the module return.                                *)

\* A new allocation is a well-formed buffer.
LEMMA AllocatedType ==
  ASSUME NEW B \in [Buffers -> BufType], NEW b \in Buffers,
         NEW s \in StreamOrNone, NEW l \in Content
  PROVE  Allocated(B, b, s, l) \in [Buffers -> BufType]
BY DEF Allocated, Unused, BufType, StreamOrNone, Content

LEMMA DiscardedType ==
  ASSUME buf \in [Buffers -> BufType], NEW b, NEW s \in StreamOrNone
  PROVE  Discarded(b, s) \in [Buffers -> BufType]
BY DEF Discarded, Unused, BufType, StreamOrNone, Content

\* Deleting allocations leaves well-formed buffers.
LEMMA DeletedType ==
  ASSUME NEW D, buf \in [Buffers -> BufType]
  PROVE  Deleted(D) \in [Buffers -> BufType]
BY DEF Deleted, Unused, BufType, StreamOrNone, Content

LEMMA ExpiredType ==
  ASSUME NEW D, view \in [Views -> ViewType]
  PROVE  Expired(D) \in [Views -> ViewType]
BY DEF Expired, ViewType, BufferOrNone

\* Enqueueing a command keeps the queues sequences of commands.
LEMMA PushType ==
  ASSUME NEW q \in [Streams -> Seq(Command)], NEW s, NEW c \in Command
  PROVE  Push(q, s, c) \in [Streams -> Seq(Command)]
<1>1. s \in Streams => Append(q[s], c) \in Seq(Command)
  BY AppendProperties
<1> QED BY <1>1 DEF Push

LEMMA FreesQueuedType ==
  ASSUME NEW D \in SUBSET Buffers, queue \in [Streams -> Seq(Command)]
  PROVE  FreesQueued(D) \in [Streams -> Seq(Command)]
<1> SUFFICES ASSUME NEW s \in Streams, NEW b \in D
             PROVE  Append(queue[s], Free(CHOOSE d \in D : TRUE)) \in Seq(Command)
  BY DEF FreesQueued
<1>1. Free(CHOOSE d \in D : TRUE) \in Command
  BY DEF Free, Command
<1> QED BY <1>1, AppendProperties

LEMMA ResultType ==
  ASSUME NEW x \in Content, NEW y \in Content
  PROVE  Result(x, y) \in Content
BY NdArrayAssumption DEF Result, Content

\* The commands the operations enqueue are commands.
LEMMA CommandType ==
  ASSUME NEW b \in Buffers, NEW x \in Buffers, NEW y \in Buffers,
         NEW d \in BufferOrNone, NEW v \in Values
  PROVE  /\ Fill(b, v) \in Command /\ Kernel(b, x, y, d) \in Command
         /\ Copy(b, x) \in Command /\ Fetch(x) \in Command /\ Free(b) \in Command
BY DEF Fill, Kernel, Copy, Fetch, Free, Command
-----------------------------------------------------------------------------
(* Type correctness.                                                       *)

\* What TypeOK says of one array.
LEMMA ArrayType ==
  ASSUME TypeOK, NEW a \in Arrays
  PROVE  /\ arr[a].data \in BufferOrNone /\ arr[a].stream \in StreamOrNone
         /\ arr[a].size \in Sizes \cup {0}
         /\ Last(a) \in SUBSET Buffers
         /\ arr[a].data # None => /\ arr[a].data \in Buffers
                                  /\ buf[arr[a].data].logical \in Content
BY DEF TypeOK, Last, BufferOrNone, ArrType, BufType

\* An array that is given well-formed members keeps the arrays well formed.
LEMMA SetArrayType ==
  ASSUME arr \in [Arrays -> ArrType], NEW a, NEW x \in ArrType
  PROVE  [arr EXCEPT ![a] = x] \in [Arrays -> ArrType]
OBVIOUS

LEMMA InitType == Init => TypeOK
BY DEF Init, TypeOK, Empty, NoView, Unused, Idle, BufferOrNone, StreamOrNone,
       Content, ArrType, ViewType, BufType, HostType

LEMMA SynchronizedType ==
  ASSUME NEW S \in SUBSET StreamOrNone
  PROVE  Synchronized(S) \in HostType /\ Synchronized(S).pc = "wait"
         /\ Synchronized(S).buf = None
BY DEF Synchronized, Idle, StreamOrNone, BufferOrNone, HostType

LEMMA IdleType == Idle \in HostType /\ Idle.pc = "idle"
BY DEF Idle, BufferOrNone, HostType

\* operator* waits with allocations to free.
LEMMA WorkingType ==
  ASSUME NEW S \in SUBSET StreamOrNone, NEW d \in Buffers, NEW b \in Buffers
  PROVE  /\ [Synchronized(S) EXCEPT !.pc = "matmul", !.buf = d] \in HostType
         /\ [Synchronized(S) EXCEPT !.pc = "matmul", !.buf = d,
                                    !.result = b] \in HostType
         /\ [Synchronized(S) EXCEPT !.pc = "abandon", !.buf = d] \in HostType
BY DEF Synchronized, Idle, StreamOrNone, BufferOrNone, HostType, Content

LEMMA BecomesEmptyType ==
  ASSUME TypeOK, NEW a \in Arrays, BecomesEmpty(a)
  PROVE  TypeOK'
BY DEF TypeOK, BecomesEmpty, FreshStreams, Empty, BufferOrNone, StreamOrNone, ArrType

LEMMA AllocateArrayType ==
  ASSUME TypeOK, NEW a \in Arrays, NEW n \in Sizes, NEW s \in Streams,
         NEW b \in FreeBuffers, NEW l \in Content, AllocateArray(a, n, s, b, l)
  PROVE  arr' \in [Arrays -> ArrType] /\ buf' \in [Buffers -> BufType]
<1>1. b \in Buffers /\ s \in StreamOrNone
  BY DEF FreeBuffers, StreamOrNone
<1>2. [data |-> b, stream |-> s, size |-> n] \in ArrType
  BY <1>1 DEF ArrType, BufferOrNone
<1> QED BY <1>1, <1>2, SetArrayType, AllocatedType DEF AllocateArray, TypeOK

LEMMA AllocationFailsType ==
  ASSUME TypeOK, NEW a \in Arrays, NEW n \in Sizes, NEW s \in Streams,
         AllocationFails(a, n, s)
  PROVE  /\ arr' \in [Arrays -> ArrType] /\ buf' \in [Buffers -> BufType]
         /\ queue' \in [Streams -> Seq(Command)]
<1>1. [data |-> None, stream |-> s, size |-> n] \in ArrType
  BY DEF ArrType, BufferOrNone, StreamOrNone
<1> QED BY <1>1, SetArrayType DEF AllocationFails, TypeOK

LEMMA ConstructType ==
  ASSUME TypeOK, NEW a \in Arrays, NEW n \in Sizes, Construct(a, n)
  PROVE  TypeOK'
<1>1. PICK s \in FreshStreams :
        /\ \/ /\ \E b \in FreeBuffers : AllocateArray(a, n, s, b, Undef)
              /\ UNCHANGED queue
           \/ AllocationFails(a, n, s)
        /\ host' = Synchronized({s})
  BY DEF Construct
<1>2. s \in Streams /\ {s} \in SUBSET StreamOrNone /\ Undef \in Content
  BY DEF FreshStreams, StreamOrNone, Content
<1>3. /\ arr' \in [Arrays -> ArrType] /\ buf' \in [Buffers -> BufType]
      /\ queue' \in [Streams -> Seq(Command)]
  BY <1>1, <1>2, AllocateArrayType, AllocationFailsType DEF TypeOK
<1> QED BY <1>1, <1>2, <1>3, SynchronizedType DEF TypeOK, Construct

LEMMA ConstructFilledType ==
  ASSUME TypeOK, NEW a \in Arrays, NEW n \in Sizes, NEW v \in Values,
         ConstructFilled(a, n, v)
  PROVE  TypeOK'
<1>1. PICK s \in FreshStreams :
        /\ \/ \E b \in FreeBuffers :
                \/ /\ AllocateArray(a, n, s, b, v)
                   /\ queue' = Push(queue, s, Fill(b, v))
                \/ /\ "fault" \in Client
                   /\ AllocateArray(a, n, s, b, Undef)
                   /\ UNCHANGED queue
           \/ AllocationFails(a, n, s)
        /\ host' = Synchronized({s})
  BY DEF ConstructFilled
<1>2. /\ s \in Streams /\ {s} \in SUBSET StreamOrNone
      /\ v \in Content /\ Undef \in Content
  BY DEF FreshStreams, StreamOrNone, Content
<1>3. ASSUME NEW b \in FreeBuffers, AllocateArray(a, n, s, b, v),
             queue' = Push(queue, s, Fill(b, v))
      PROVE  /\ arr' \in [Arrays -> ArrType] /\ buf' \in [Buffers -> BufType]
             /\ queue' \in [Streams -> Seq(Command)]
  <2>1. Fill(b, v) \in Command
    BY DEF Fill, Command, FreeBuffers
  <2> QED BY <1>2, <1>3, <2>1, AllocateArrayType, PushType DEF TypeOK
<1>4. /\ arr' \in [Arrays -> ArrType] /\ buf' \in [Buffers -> BufType]
      /\ queue' \in [Streams -> Seq(Command)]
  BY <1>1, <1>2, <1>3, AllocateArrayType, AllocationFailsType DEF TypeOK
<1> QED BY <1>1, <1>2, <1>4, SynchronizedType DEF TypeOK, ConstructFilled

LEMMA ConstructManagedType ==
  ASSUME TypeOK, NEW a \in Arrays, NEW n \in Sizes, ConstructManaged(a, n)
  PROVE  TypeOK'
<1>1. PICK s \in FreshStreams :
        \/ /\ \E b \in FreeBuffers :
                /\ arr' = [arr EXCEPT ![a] = [data |-> b, stream |-> s, size |-> n]]
                /\ buf' = [buf EXCEPT ![b] = [Unused EXCEPT !.state = "live",
                                                           !.kind = "managed"]]
           /\ UNCHANGED queue
        \/ AllocationFails(a, n, s)
  BY DEF ConstructManaged
<1>2. s \in Streams /\ s \in StreamOrNone
  BY DEF FreshStreams, StreamOrNone
<1>3. [Unused EXCEPT !.state = "live", !.kind = "managed"] \in BufType
  BY DEF Unused, BufType, StreamOrNone, Content
<1>4. \A b \in FreeBuffers : [data |-> b, stream |-> s, size |-> n] \in ArrType
  BY <1>2 DEF ArrType, BufferOrNone, FreeBuffers
<1>5. CASE AllocationFails(a, n, s)
  <2>1. /\ arr' \in [Arrays -> ArrType] /\ buf' \in [Buffers -> BufType]
        /\ queue' \in [Streams -> Seq(Command)]
    BY <1>2, <1>5, AllocationFailsType DEF TypeOK
  <2> QED BY <2>1 DEF TypeOK, ConstructManaged
<1>6. ASSUME NEW b \in FreeBuffers, UNCHANGED queue,
             arr' = [arr EXCEPT ![a] = [data |-> b, stream |-> s, size |-> n]],
             buf' = [buf EXCEPT ![b] = [Unused EXCEPT !.state = "live",
                                                     !.kind = "managed"]]
      PROVE  /\ arr' \in [Arrays -> ArrType] /\ buf' \in [Buffers -> BufType]
             /\ queue' \in [Streams -> Seq(Command)]
  BY <1>3, <1>4, <1>6 DEF TypeOK
<1>7. CASE \E b \in FreeBuffers :
             /\ arr' = [arr EXCEPT ![a] = [data |-> b, stream |-> s, size |-> n]]
             /\ buf' = [buf EXCEPT ![b] = [Unused EXCEPT !.state = "live",
                                                        !.kind = "managed"]]
             /\ UNCHANGED queue
  BY <1>6, <1>7 DEF TypeOK, ConstructManaged
<1> QED BY <1>1, <1>5, <1>7

LEMMA CopyFromType ==
  ASSUME TypeOK, NEW a \in Arrays, NEW r \in Arrays, NEW D \in SUBSET Buffers,
         CopyFrom(a, r, D)
  PROVE  TypeOK'
<1> DEFINE s == arr[r].stream
<1>0. /\ buf \in [Buffers -> BufType] /\ queue \in [Streams -> Seq(Command)]
      /\ arr[r] \in ArrType /\ s \in StreamOrNone /\ Undef \in Content
  BY DEF TypeOK, ArrType, Content
<1>1. /\ Deleted(D) \in [Buffers -> BufType]
      /\ FreesQueued(D) \in [Streams -> Seq(Command)]
  BY <1>0, DeletedType, FreesQueuedType
<1>2. view' \in [Views -> ViewType]
  BY ExpiredType DEF CopyFrom, TypeOK
<1>3. ASSUME NEW b \in BufferOrNone
      PROVE  [arr EXCEPT ![a] = [arr[r] EXCEPT !.data = b]] \in [Arrays -> ArrType]
  BY <1>0 DEF TypeOK, ArrType
<1>4. ASSUME NEW b \in FreeBuffers, arr[r].data # None
      PROVE  /\ Allocated(Deleted(D), b, s, buf[arr[r].data].logical)
                   \in [Buffers -> BufType]
             /\ Push(FreesQueued(D), s, Copy(b, arr[r].data))
                   \in [Streams -> Seq(Command)]
  <2>1. b \in Buffers /\ arr[r].data \in Buffers
    BY <1>4, <1>0 DEF FreeBuffers, ArrType, BufferOrNone
  <2>2. buf[arr[r].data].logical \in Content
    BY <2>1, <1>0 DEF BufType
  <2>3. Copy(b, arr[r].data) \in Command
    BY <2>1 DEF Copy, Command
  <2> QED BY <2>1, <2>2, <2>3, <1>0, <1>1, AllocatedType, PushType
<1>5. ASSUME NEW b \in FreeBuffers
      PROVE  /\ b \in BufferOrNone
             /\ Allocated(Deleted(D), b, s, Undef) \in [Buffers -> BufType]
  BY <1>0, <1>1, AllocatedType DEF FreeBuffers, BufferOrNone
<1>6. None \in BufferOrNone
  BY DEF BufferOrNone
<1>7. /\ arr' \in [Arrays -> ArrType] /\ buf' \in [Buffers -> BufType]
      /\ queue' \in [Streams -> Seq(Command)]
  <2>1. CASE \E b \in FreeBuffers :
               /\ arr' = [arr EXCEPT ![a] = [arr[r] EXCEPT !.data = b]]
               /\ IF arr[r].data = None
                  THEN buf' = Allocated(Deleted(D), b, s, Undef) /\ queue' = FreesQueued(D)
                  ELSE /\ buf' = Allocated(Deleted(D), b, s, buf[arr[r].data].logical)
                       /\ queue' = Push(FreesQueued(D), s, Copy(b, arr[r].data))
    BY <2>1, <1>1, <1>3, <1>4, <1>5
  <2>2. CASE /\ arr' = [arr EXCEPT ![a] = [arr[r] EXCEPT !.data = None]]
             /\ buf' = Deleted(D) /\ queue' = FreesQueued(D)
    BY <2>2, <1>1, <1>3, <1>6
  <2> QED BY <2>1, <2>2 DEF CopyFrom
<1>8. built' \in SUBSET Arrays /\ host' = Synchronized({s}) /\ {s} \in SUBSET StreamOrNone
  BY <1>0 DEF CopyFrom, TypeOK
<1> QED BY <1>2, <1>7, <1>8, SynchronizedType DEF TypeOK

\* What letting go of the data of array a does to the types.
LEMMA DropType ==
  ASSUME TypeOK, NEW a \in Arrays
  PROVE  /\ Deleted(Last(a)) \in [Buffers -> BufType]
         /\ FreesQueued(Last(a)) \in [Streams -> Seq(Command)]
         /\ Expired(Last(a)) \in [Views -> ViewType]
<1>1. Last(a) \in SUBSET Buffers
  BY ArrayType
<1> QED BY <1>1, DeletedType, FreesQueuedType, ExpiredType DEF TypeOK

LEMMA LifetimeType ==
  ASSUME TypeOK, NEW a \in Arrays, NEW r \in Arrays,
         \/ ConstructShared(a, r) \/ CopyConstruct(a, r) \/ CopyAssign(a, r)
         \/ MoveConstruct(a, r) \/ MoveAssign(a, r) \/ Destroy(a) \/ Release(a)
  PROVE  TypeOK'
<1>0. /\ arr[a] \in ArrType /\ arr[r] \in ArrType /\ Empty \in ArrType
      /\ {arr[r].stream} \in SUBSET StreamOrNone
  BY DEF TypeOK, ArrType, Empty, BufferOrNone, StreamOrNone
<1>1. CASE ConstructShared(a, r)
  <2>1. \A s \in FreshStreams : [arr[r] EXCEPT !.stream = s] \in ArrType
    BY <1>0 DEF FreshStreams, ArrType, StreamOrNone
  <2> QED BY <1>1, <2>1, SetArrayType DEF ConstructShared, TypeOK
<1>2. CASE CopyConstruct(a, r)
  BY <1>2, BecomesEmptyType, CopyFromType DEF CopyConstruct
<1>3. CASE CopyAssign(a, r)
  BY <1>3, ArrayType, CopyFromType DEF CopyAssign
<1>4. CASE MoveConstruct(a, r)
  <2>1. CASE BecomesEmpty(a)
    BY <2>1, BecomesEmptyType
  <2>2. CASE /\ built' = built \cup {a}
             /\ arr' = [arr EXCEPT ![a] = arr[r], ![r] = Empty]
             /\ host' = Synchronized({arr[r].stream})
             /\ UNCHANGED <<view, buf, queue>>
    <3>1. arr' \in [Arrays -> ArrType]
      BY <2>2, <1>0 DEF TypeOK
    <3> QED BY <2>2, <3>1, <1>0, SynchronizedType DEF TypeOK
  <2> QED BY <1>4, <2>1, <2>2 DEF MoveConstruct
<1>5. CASE MoveAssign(a, r)
  <2>1. [Empty EXCEPT !.stream = arr[a].stream] \in ArrType
    BY <1>0 DEF Empty, ArrType
  <2>2. arr' \in [Arrays -> ArrType]
    BY <1>5, <2>1, <1>0 DEF MoveAssign, TypeOK
  <2> QED BY <1>5, <2>2, <1>0, DropType, SynchronizedType DEF MoveAssign, TypeOK
<1>6. CASE Destroy(a)
  BY <1>6, <1>0, DropType, SetArrayType, IdleType DEF Destroy, TypeOK
<1>7. CASE Release(a)
  <2>1. arr' \in [Arrays -> ArrType]
    BY <1>7, <1>0 DEF Release, TypeOK, ArrType, BufferOrNone
  <2> QED BY <1>7, <2>1, DropType, IdleType DEF Release, TypeOK
<1> QED BY <1>1, <1>2, <1>3, <1>4, <1>5, <1>6, <1>7

LEMMA AwaitDeviceType ==
  ASSUME TypeOK, NEW a \in Arrays, AwaitDevice(a)
  PROVE  TypeOK'
<1>1. host' \in HostType /\ host'.pc = "delete"
  BY ArrayType DEF AwaitDevice, Idle, HostType, BufferOrNone
<1> QED BY <1>1 DEF AwaitDevice, TypeOK

\* Operands that match have data of a known content.
LEMMA OperandType ==
  ASSUME TypeOK, NEW x \in Arrays, NEW y \in Arrays,
         arr[x].data # None, arr[y].data # None
  PROVE  /\ arr[x].data \in Buffers /\ arr[y].data \in Buffers
         /\ Result(buf[arr[x].data].logical, buf[arr[y].data].logical) \in Content
BY ArrayType, ResultType

LEMMA NewFromType ==
  ASSUME TypeOK, NEW a \in Arrays, NEW x \in Arrays, NEW y \in Arrays,
         arr[x].data # None, arr[y].data # None, NEW also \in SUBSET StreamOrNone,
         NewFrom(a, x, y, also)
  PROVE  TypeOK'
<1> DEFINE l == Result(buf[arr[x].data].logical, buf[arr[y].data].logical)
<1>1. PICK s \in FreshStreams, b \in FreeBuffers :
        /\ built' = built \cup {a}
        /\ arr' = [arr EXCEPT ![a] = [arr[x] EXCEPT !.data = b, !.stream = s]]
        /\ buf' = Allocated(buf, b, s, l)
        /\ queue' = Push(queue, arr[x].stream,
                         Kernel(b, arr[x].data, arr[y].data, None))
        /\ host' = Synchronized(also \cup {s})
        /\ UNCHANGED view
  BY DEF NewFrom
<1>2. /\ s \in StreamOrNone /\ b \in Buffers /\ b \in BufferOrNone
      /\ None \in BufferOrNone
  BY DEF FreshStreams, FreeBuffers, StreamOrNone, BufferOrNone
<1>3. [arr[x] EXCEPT !.data = b, !.stream = s] \in ArrType
  BY <1>2 DEF TypeOK, ArrType
<1>4. Kernel(b, arr[x].data, arr[y].data, None) \in Command
  BY <1>2, OperandType DEF Kernel, Command
<1>5. buf' \in [Buffers -> BufType]
  BY <1>1, <1>2, OperandType, AllocatedType DEF TypeOK
<1>6. queue' \in [Streams -> Seq(Command)]
  BY <1>1, <1>4, PushType DEF TypeOK
<1>7. arr' \in [Arrays -> ArrType]
  BY <1>1, <1>3, SetArrayType DEF TypeOK
<1> QED BY <1>1, <1>2, <1>5, <1>6, <1>7, SynchronizedType DEF TypeOK

\* An array that is to have no data gets a stream.
LEMMA WithoutDataType ==
  ASSUME TypeOK, NEW a \in Arrays, NEW s \in FreshStreams,
         arr' = [arr EXCEPT ![a] = [Empty EXCEPT !.stream = s]]
  PROVE  arr' \in [Arrays -> ArrType] /\ s \in Streams
BY SetArrayType DEF FreshStreams, Empty, ArrType, StreamOrNone, BufferOrNone, TypeOK

\* An allocation that is discarded on stream s.
LEMMA DiscardType ==
  ASSUME TypeOK, NEW b \in FreeBuffers, NEW s \in StreamOrNone,
         buf' = Discarded(b, s), queue' = Push(queue, s, Free(b))
  PROVE  buf' \in [Buffers -> BufType] /\ queue' \in [Streams -> Seq(Command)]
<1>1. Free(b) \in Command
  BY DEF Free, Command, FreeBuffers
<1> QED BY <1>1, DiscardedType, PushType DEF TypeOK

LEMMA LaunchFailsType ==
  ASSUME TypeOK, NEW a \in Arrays, LaunchFails(a)
  PROVE  TypeOK'
<1>1. PICK s \in FreshStreams, t \in FreshStreams, b \in FreeBuffers :
        /\ arr' = [arr EXCEPT ![a] = [Empty EXCEPT !.stream = t]]
        /\ buf' = Discarded(b, s) /\ queue' = Push(queue, s, Free(b))
  BY DEF LaunchFails
<1>2. s \in StreamOrNone
  BY DEF FreshStreams, StreamOrNone
<1>3. /\ arr' \in [Arrays -> ArrType] /\ buf' \in [Buffers -> BufType]
      /\ queue' \in [Streams -> Seq(Command)]
  BY <1>1, <1>2, WithoutDataType, DiscardType
<1> QED BY <1>3 DEF LaunchFails, TypeOK

LEMMA MatmulFailsType ==
  ASSUME TypeOK, NEW a \in Arrays, NEW k \in StreamOrNone, MatmulFails(a, k)
  PROVE  TypeOK'
<1>1. arr' \in [Arrays -> ArrType] /\ built' \in SUBSET Arrays /\ view' = view
  BY WithoutDataType DEF MatmulFails, TypeOK
<1>2. {k} \in SUBSET StreamOrNone /\ Undef \in Content
  BY DEF Content
<1>3. CASE host' = Synchronized({k}) /\ UNCHANGED <<buf, queue>>
  BY <1>1, <1>2, <1>3, SynchronizedType DEF TypeOK
<1>4. ASSUME NEW d \in FreeBuffers, buf' = Discarded(d, k),
             queue' = Push(queue, k, Free(d)), host' = Synchronized({k})
      PROVE  TypeOK'
  BY <1>1, <1>2, <1>4, DiscardType, SynchronizedType DEF TypeOK
<1>5. ASSUME NEW d \in FreeBuffers, buf' = Allocated(buf, d, k, Undef),
             host' = [Synchronized({k}) EXCEPT !.pc = "abandon", !.buf = d],
             UNCHANGED queue
      PROVE  TypeOK'
  <2>1. d \in Buffers
    BY DEF FreeBuffers
  <2>2. buf' \in [Buffers -> BufType]
    BY <1>2, <1>5, <2>1, AllocatedType DEF TypeOK
  <2>3. host' \in HostType
    BY <1>2, <1>5, <2>1, WorkingType
  <2>4. host'.buf \in Buffers
    BY <1>5, <2>1 DEF Synchronized, Idle
  <2> QED BY <1>1, <1>5, <2>2, <2>3, <2>4 DEF TypeOK
<1>6. ASSUME NEW d \in FreeBuffers, NEW b \in FreeBuffers \ {d},
             buf' = Allocated(Allocated(buf, d, k, Undef), b, k, Undef),
             host' = [Synchronized({k}) EXCEPT !.pc = "matmul", !.buf = d,
                                               !.result = b],
             UNCHANGED queue
      PROVE  TypeOK'
  <2>1. d \in Buffers /\ b \in Buffers
    BY DEF FreeBuffers
  <2>2. buf' \in [Buffers -> BufType]
    BY <1>2, <1>6, <2>1, AllocatedType DEF TypeOK
  <2>3. host' \in HostType
    BY <1>2, <1>6, <2>1, WorkingType
  <2>4. host'.buf \in Buffers
    BY <1>6, <2>1 DEF Synchronized, Idle
  <2> QED BY <1>1, <1>6, <2>2, <2>3, <2>4 DEF TypeOK
<1> QED BY <1>3, <1>4, <1>5, <1>6 DEF MatmulFails

LEMMA MatmulType ==
  ASSUME TypeOK, NEW a \in Arrays, NEW x \in Arrays, NEW y \in Arrays,
         Matmul(a, x, y)
  PROVE  TypeOK'
<1> DEFINE k == arr[x].stream
           l == Result(buf[arr[x].data].logical, buf[arr[y].data].logical)
<1>1. CASE BecomesEmpty(a)
  BY <1>1, BecomesEmptyType
<1>2. CASE MatmulFails(a, k)
  BY <1>2, ArrayType, MatmulFailsType
<1>3. CASE /\ ~Mismatch(x, y)
           /\ \E s \in FreshStreams, b, d \in FreeBuffers :
                /\ b # d
                /\ built' = built \cup {a}
                /\ arr' = [arr EXCEPT ![a] = [arr[x] EXCEPT !.data = b, !.stream = s]]
                /\ buf' = Allocated(Allocated(buf, d, k, Undef), b, k, l)
                /\ queue' = Push(queue, k, Kernel(b, arr[x].data, arr[y].data, d))
                /\ host' = [Synchronized({k}) EXCEPT !.pc = "matmul", !.buf = d]
                /\ UNCHANGED view
  <2>1. PICK s \in FreshStreams, b \in FreeBuffers, d \in FreeBuffers :
          /\ built' = built \cup {a}
          /\ arr' = [arr EXCEPT ![a] = [arr[x] EXCEPT !.data = b, !.stream = s]]
          /\ buf' = Allocated(Allocated(buf, d, k, Undef), b, k, l)
          /\ queue' = Push(queue, k, Kernel(b, arr[x].data, arr[y].data, d))
          /\ host' = [Synchronized({k}) EXCEPT !.pc = "matmul", !.buf = d]
          /\ UNCHANGED view
    BY <1>3
  <2>2. /\ s \in StreamOrNone /\ b \in Buffers /\ d \in Buffers
        /\ b \in BufferOrNone /\ d \in BufferOrNone
        /\ k \in StreamOrNone /\ Undef \in Content
    BY ArrayType DEF FreshStreams, FreeBuffers, StreamOrNone, BufferOrNone, Content
  <2>3. arr[x].data # None /\ arr[y].data # None
    BY <1>3 DEF Mismatch
  <2>4. [arr[x] EXCEPT !.data = b, !.stream = s] \in ArrType
    BY <2>2 DEF TypeOK, ArrType
  <2>5. Kernel(b, arr[x].data, arr[y].data, d) \in Command
    BY <2>2, <2>3, OperandType DEF Kernel, Command
  <2>6. buf' \in [Buffers -> BufType]
    BY <2>1, <2>2, <2>3, OperandType, AllocatedType DEF TypeOK
  <2>7. queue' \in [Streams -> Seq(Command)]
    BY <2>1, <2>5, PushType DEF TypeOK
  <2>8. arr' \in [Arrays -> ArrType]
    BY <2>1, <2>4, SetArrayType DEF TypeOK
  <2>9. host' \in HostType /\ host'.buf \in Buffers
    <3>1. {k} \in SUBSET StreamOrNone
      BY <2>2
    <3>2. host' \in HostType
      BY <2>1, <2>2, <3>1, WorkingType
    <3> QED BY <2>1, <2>2, <3>2 DEF Synchronized, Idle
  <2> QED BY <2>1, <2>6, <2>7, <2>8, <2>9 DEF TypeOK
<1> QED BY <1>1, <1>2, <1>3 DEF Matmul

LEMMA ComputeType ==
  ASSUME TypeOK, NEW a \in Arrays, NEW x \in Arrays, NEW y \in Arrays,
         \/ Unary(a, x) \/ UnaryNoWait(a, x)
         \/ Elementwise(a, x, y) \/ ElementwiseNoWait(a, x, y)
  PROVE  TypeOK'
<1>1. {} \in SUBSET StreamOrNone /\ {arr[x].stream} \in SUBSET StreamOrNone
  BY ArrayType
<1>2. CASE BecomesEmpty(a)
  BY <1>2, BecomesEmptyType
<1>3. ASSUME NEW also \in {{}, {arr[x].stream}}, NewFrom(a, x, x, also), ~NoData(x)
      PROVE  TypeOK'
  BY <1>1, <1>3, NewFromType DEF NoData
<1>4. ASSUME NEW also \in {{}, {arr[x].stream}}, NewFrom(a, x, y, also), ~Mismatch(x, y)
      PROVE  TypeOK'
  BY <1>1, <1>4, NewFromType DEF Mismatch
<1>5. CASE LaunchFails(a)
  BY <1>5, LaunchFailsType
<1> QED BY <1>2, <1>3, <1>4, <1>5
           DEF Unary, UnaryNoWait, Elementwise, ElementwiseNoWait

LEMMA InPlaceType ==
  ASSUME TypeOK, NEW x \in Arrays, NEW y \in Arrays,
         \/ InPlace(x, y) \/ InPlaceNoWait(x, y)
  PROVE  TypeOK'
<1>1. arr[x].data # None /\ arr[y].data # None
  BY DEF InPlace, InPlaceNoWait, Mismatch
<1>2. InPlaceFrom(x, y) => /\ buf' \in [Buffers -> BufType]
                           /\ queue' \in [Streams -> Seq(Command)]
  <2> SUFFICES ASSUME InPlaceFrom(x, y)
               PROVE  /\ buf' \in [Buffers -> BufType]
                      /\ queue' \in [Streams -> Seq(Command)]
    OBVIOUS
  <2>1. Kernel(arr[x].data, arr[x].data, arr[y].data, None) \in Command
    BY <1>1, OperandType DEF Kernel, Command, BufferOrNone
  <2>2. queue' \in [Streams -> Seq(Command)]
    BY <2>1, PushType DEF InPlaceFrom, TypeOK
  <2>3. buf' \in [Buffers -> BufType]
    BY <1>1, OperandType DEF InPlaceFrom, TypeOK, BufType
  <2> QED BY <2>2, <2>3
<1>3. {arr[x].stream} \in SUBSET StreamOrNone
  BY ArrayType
<1>4. CASE InPlace(x, y)
  BY <1>2, <1>3, <1>4, SynchronizedType DEF InPlace, TypeOK
<1>5. CASE InPlaceNoWait(x, y)
  BY <1>2, <1>5 DEF InPlaceNoWait, TypeOK
<1> QED BY <1>4, <1>5

LEMMA FetchingType ==
  ASSUME TypeOK, NEW b \in Buffers, NEW s \in StreamOrNone, Fetching(b, s)
  PROVE  /\ queue' \in [Streams -> Seq(Command)]
         /\ host' \in HostType /\ host'.pc \notin {"matmul", "abandon"}
<1>1. Fetch(b) \in Command
  BY DEF Fetch, Command
<1>2. queue' \in [Streams -> Seq(Command)]
  BY <1>1, PushType DEF Fetching, TypeOK
<1>3. host' \in HostType /\ host'.pc \notin {"matmul", "abandon"}
  BY DEF Fetching, Synchronized, Idle, HostType, StreamOrNone, BufferOrNone
<1> QED BY <1>2, <1>3

LEMMA AccessType == TypeOK /\ Access => TypeOK'
<1> SUFFICES ASSUME TypeOK, Access PROVE TypeOK'
  OBVIOUS
<1>1. ASSUME NEW a \in Arrays, Synchronize(a) PROVE TypeOK'
  <2>1. {arr[a].stream} \in SUBSET StreamOrNone
    BY ArrayType
  <2> QED BY <1>1, <2>1, SynchronizedType DEF Synchronize, TypeOK
<1>2. ASSUME NEW a \in Arrays, Read(a) PROVE TypeOK'
  BY <1>2, ArrayType, FetchingType DEF Read, TypeOK
<1>3. ASSUME NEW v \in Views PROVE /\ view[v].data # None => view[v].data \in Buffers
                                  /\ view[v].stream \in StreamOrNone
  BY DEF TypeOK, ViewType, BufferOrNone
<1>4. ASSUME NEW v \in Views, DropView(v) PROVE TypeOK'
  BY <1>4 DEF DropView, TypeOK, NoView, ViewType, BufferOrNone, StreamOrNone
<1>5. ASSUME NEW v \in Views, ViewGet(v) PROVE TypeOK'
  BY <1>3, <1>5, FetchingType DEF ViewGet, TypeOK
<1>6. ASSUME NEW v \in Views, NEW a \in Arrays, MakeView(v, a) PROVE TypeOK'
  <2>1. PICK s \in FreshStreams :
          view' = [view EXCEPT ![v] = [data |-> arr[a].data, stream |-> s]]
    BY <1>6 DEF MakeView
  <2>2. [data |-> arr[a].data, stream |-> s] \in ViewType
    BY ArrayType DEF ViewType, FreshStreams, StreamOrNone
  <2> QED BY <1>6, <2>1, <2>2 DEF MakeView, TypeOK
<1>7. ASSUME NEW v \in Views, NEW x \in Values, ViewSet(v, x) PROVE TypeOK'
  <2>1. view[v].data \in Buffers /\ {view[v].stream} \in SUBSET StreamOrNone
    BY <1>3, <1>7 DEF ViewSet
  <2>2. Fill(view[v].data, x) \in Command
    BY <2>1 DEF Fill, Command
  <2>3. queue' \in [Streams -> Seq(Command)]
    BY <1>7, <2>2, PushType DEF ViewSet, TypeOK
  <2>4. buf' \in [Buffers -> BufType]
    <3>1. buf' = [buf EXCEPT ![view[v].data].logical = x] /\ buf \in [Buffers -> BufType]
      BY <1>7 DEF ViewSet, TypeOK
    <3>2. \A b \in Buffers : [buf[b] EXCEPT !.logical = x] \in BufType
      BY <3>1 DEF BufType, Content
    <3> QED BY ONLY <2>1, <3>1, <3>2
  <2>5. /\ host' = Synchronized({view[v].stream}) /\ UNCHANGED <<built, arr, view>>
    BY <1>7 DEF ViewSet
  <2>6. /\ Synchronized({view[v].stream}) \in HostType
        /\ Synchronized({view[v].stream}).pc = "wait"
    BY <2>1, SynchronizedType
  <2>7. host' \in HostType /\ host'.pc \notin {"matmul", "abandon"}
    BY <2>5, <2>6
  <2> QED BY <2>3, <2>4, <2>5, <2>7 DEF TypeOK
<1> QED BY <1>1, <1>2, <1>4, <1>5, <1>6, <1>7 DEF Access

LEMMA HostReturnType ==
  ASSUME TypeOK, MatmulCleanup \/ Abandon \/ Return
  PROVE  TypeOK'
<1>1. ASSUME host.buf \in Buffers, buf' = Deleted({host.buf}),
             queue' = FreesQueued({host.buf})
      PROVE  /\ buf' \in [Buffers -> BufType]
             /\ queue' \in [Streams -> Seq(Command)]
  <2>1. {host.buf} \in SUBSET Buffers
    BY <1>1
  <2> QED BY <1>1, <2>1, DeletedType, FreesQueuedType DEF TypeOK
<1>2. CASE MatmulCleanup
  <2>1. host.buf \in Buffers /\ host.wait \in SUBSET StreamOrNone
        /\ host.result \in BufferOrNone
    BY <1>2 DEF MatmulCleanup, TypeOK, HostType, StreamOrNone
  <2>2. /\ host' \in HostType
        /\ host'.pc \in {"matmul", "abandon"} => host'.buf \in Buffers
    <3>1. CASE host.result = None
      BY <1>2, <2>1, <3>1, SynchronizedType DEF MatmulCleanup
    <3>2. CASE host.result # None
      <4>1. host.result \in Buffers
        BY <2>1, <3>2 DEF BufferOrNone
      <4>2. host' = [Synchronized(host.wait) EXCEPT !.pc = "abandon",
                                                    !.buf = host.result]
        BY <1>2, <3>2 DEF MatmulCleanup
      <4>3. host' \in HostType
        BY <2>1, <4>1, <4>2, WorkingType
      <4> QED BY <4>1, <4>2, <4>3 DEF Synchronized, Idle
    <3> QED BY <3>1, <3>2
  <2> QED BY <1>1, <1>2, <2>1, <2>2 DEF MatmulCleanup, TypeOK
<1>3. CASE Abandon
  <2>1. host.buf \in Buffers
    BY <1>3 DEF Abandon, TypeOK
  <2> QED BY <1>1, <1>3, <2>1, IdleType DEF Abandon, TypeOK
<1>4. CASE Return
  BY <1>4, IdleType DEF Return, TypeOK
<1> QED BY <1>2, <1>3, <1>4

LEMMA ExecuteType ==
  ASSUME TypeOK, NEW s \in Streams, Execute(s)
  PROVE  TypeOK'
<1> DEFINE c == Head(queue[s])
<1>1. queue[s] \in Seq(Command) /\ queue[s] # <<>>
  BY DEF Execute, TypeOK
<1>2. c \in Command /\ Tail(queue[s]) \in Seq(Command)
  BY <1>1, HeadTailProperties
<1>3. queue' \in [Streams -> Seq(Command)]
  BY <1>2 DEF Execute, TypeOK
<1>4. Apply(c)
  BY DEF Execute
<1>5. CASE c.op = "fill"
  <2>1. c.dst \in Buffers /\ c.v \in Content
    BY <1>2, <1>5 DEF Command, Content
  <2>2. buf' = [buf EXCEPT ![c.dst].mem = c.v] /\ host' = host
    BY <1>4, <1>5 DEF Apply
  <2> QED BY <2>1, <2>2, <1>3 DEF Execute, TypeOK, BufType
<1>6. CASE c.op = "kernel"
  <2>1. c.dst \in Buffers /\ c.x \in Buffers /\ c.y \in Buffers
    BY <1>2, <1>6 DEF Command
  <2>2. buf' = [buf EXCEPT ![c.dst].mem = Result(buf[c.x].mem, buf[c.y].mem)]
        /\ host' = host
    BY <1>4, <1>6 DEF Apply
  <2>3. Result(buf[c.x].mem, buf[c.y].mem) \in Content
    BY <2>1, ResultType DEF TypeOK, BufType
  <2> QED BY <2>1, <2>2, <2>3, <1>3 DEF Execute, TypeOK, BufType
<1>7. CASE c.op = "copy"
  <2>1. c.dst \in Buffers /\ c.x \in Buffers
    BY <1>2, <1>7 DEF Command
  <2>2. buf' = [buf EXCEPT ![c.dst].mem = buf[c.x].mem] /\ host' = host
    BY <1>4, <1>7 DEF Apply
  <2> QED BY <2>1, <2>2, <1>3 DEF Execute, TypeOK, BufType
<1>8. CASE c.op = "free"
  <2>1. c.dst \in Buffers
    BY <1>2, <1>8 DEF Command
  <2>2. buf' = [buf EXCEPT ![c.dst] = Unused] /\ host' = host
    BY <1>4, <1>8 DEF Apply
  <2>3. Unused \in BufType
    BY DEF Unused, BufType, StreamOrNone, Content
  <2> QED BY <2>1, <2>2, <2>3, <1>3 DEF Execute, TypeOK
<1>9. CASE c.op = "fetch"
  <2>1. c.x \in Buffers
    BY <1>2, <1>9 DEF Command
  <2>2. buf' = buf /\ host' = [host EXCEPT !.got = buf[c.x].mem]
    BY <1>4, <1>9 DEF Apply
  <2>3. host' \in HostType /\ (host'.pc \in {"matmul", "abandon"} => host'.buf \in Buffers)
    BY <2>1, <2>2 DEF TypeOK, HostType, BufType
  <2> QED BY <2>2, <2>3, <1>3 DEF Execute, TypeOK
<1> QED BY <1>2, <1>5, <1>6, <1>7, <1>8, <1>9 DEF Command

LEMMA NextType == TypeOK /\ [Next]_vars => TypeOK'
<1> SUFFICES ASSUME TypeOK, [Next]_vars PROVE TypeOK'
  OBVIOUS
<1>1. CASE Lifetime
  <2>1. ASSUME NEW a \in Arrays, DefaultConstruct(a) PROVE TypeOK'
    BY <2>1, BecomesEmptyType DEF DefaultConstruct
  <2> QED BY <1>1, <2>1, ConstructType, ConstructFilledType, ConstructManagedType,
             LifetimeType, AwaitDeviceType DEF Lifetime
<1>2. CASE Compute
  BY <1>2, ComputeType, InPlaceType, MatmulType DEF Compute
<1>3. CASE Access
  BY <1>3, AccessType
<1>4. CASE MatmulCleanup \/ Abandon \/ Return
  BY <1>4, HostReturnType
<1>5. CASE \E s \in Streams : Execute(s)
  BY <1>5, ExecuteType
<1>6. CASE UNCHANGED vars
  BY <1>6 DEF vars, TypeOK
<1> QED BY <1>1, <1>2, <1>3, <1>4, <1>5, <1>6 DEF Next

\* The types of the arrays, allocations, queues and host, for every program.
THEOREM TypeCorrectness == Spec => []TypeOK
BY InitType, NextType, PTL DEF Spec
-----------------------------------------------------------------------------
(* Frees: what the queue operations do to Once.                            *)

LEMMA OnceMono ==
  ASSUME NEW q \in [Streams -> Seq(Command)], NEW B, NEW C, Once(q, B),
         \A b \in Buffers : B[b].state = "freeing" => C[b].state = "freeing"
  PROVE  Once(q, C)
<1>1. ASSUME NEW s \in Streams, NEW i \in DOMAIN q[s], q[s][i].op = "free"
      PROVE  q[s][i].dst \in Buffers
  <2>1. q[s][i] \in Command
    BY ElementOfSeq
  <2> QED BY <1>1, <2>1 DEF Command
<1> QED BY <1>1 DEF Once

\* The elements of a queue after a command was enqueued.
LEMMA Pushed ==
  ASSUME NEW q \in [Streams -> Seq(Command)], NEW s \in Streams, NEW c \in Command,
         NEW t \in Streams, NEW i \in DOMAIN Push(q, s, c)[t]
  PROVE  \/ i \in DOMAIN q[t] /\ Push(q, s, c)[t][i] = q[t][i]
         \/ t = s /\ i = Len(q[s]) + 1 /\ Push(q, s, c)[t][i] = c
BY AppendProperties DEF Push

LEMMA OncePush ==
  ASSUME NEW q \in [Streams -> Seq(Command)], NEW s, NEW c \in Command,
         NEW B, Once(q, B), c.op # "free"
  PROVE  Once(Push(q, s, c), B)
<1> DEFINE p == Push(q, s, c)
<1>1. ASSUME NEW t \in Streams, NEW i \in DOMAIN p[t], p[t][i].op = "free"
      PROVE  i \in DOMAIN q[t] /\ p[t][i] = q[t][i]
  <2>1. CASE s \in Streams
    BY <1>1, <2>1, Pushed
  <2>2. CASE s \notin Streams
    BY <1>1, <2>2 DEF Push
  <2> QED BY <2>1, <2>2
<1>2. ASSUME NEW t \in Streams, NEW i \in DOMAIN p[t],
             NEW u \in Streams, NEW j \in DOMAIN p[u],
             p[t][i].op = "free", p[u][j] = p[t][i]
      PROVE  t = u /\ i = j
  BY <1>1, <1>2 DEF Once
<1>3. ASSUME NEW t \in Streams, NEW i \in DOMAIN p[t], p[t][i].op = "free"
      PROVE  B[p[t][i].dst].state = "freeing"
  BY <1>1, <1>3 DEF Once
<1> QED BY <1>2, <1>3 DEF Once

LEMMA OncePushFree ==
  ASSUME queue \in [Streams -> Seq(Command)], FreedOnce, NEW s \in Streams,
         NEW b \in Buffers, NEW C, buf[b].state # "freeing", C[b].state = "freeing",
         Once(queue, C)
  PROVE  Once(Push(queue, s, Free(b)), C)
<1>1. Free(b) \in Command /\ Free(b).op = "free" /\ Free(b).dst = b
  BY DEF Free, Command
<1>2. \A t \in Streams : \A i \in DOMAIN queue[t] : queue[t][i] # Free(b)
  BY <1>1 DEF Once, FreedOnce
<1> DEFINE p == Push(queue, s, Free(b))
<1>0. \A t \in Streams : \A i \in DOMAIN p[t] :
        \/ i \in DOMAIN queue[t] /\ p[t][i] = queue[t][i]
        \/ t = s /\ i = Len(queue[s]) + 1 /\ p[t][i] = Free(b)
  BY <1>1, Pushed
<1> HIDE DEF p
<1>3. ASSUME NEW t \in Streams, NEW i \in DOMAIN p[t], p[t][i].op = "free"
      PROVE  C[p[t][i].dst].state = "freeing"
  <2>1. CASE i \in DOMAIN queue[t] /\ p[t][i] = queue[t][i]
    <3>1. queue[t][i].op = "free"
      BY <1>3, <2>1
    <3>2. C[queue[t][i].dst].state = "freeing"
      BY <2>1, <3>1 DEF Once
    <3> QED BY <2>1, <3>2
  <2>2. CASE p[t][i] = Free(b)
    BY <1>1, <2>2
  <2> QED BY <1>0, <2>1, <2>2
<1>4. ASSUME NEW t \in Streams, NEW i \in DOMAIN p[t],
             NEW u \in Streams, NEW j \in DOMAIN p[u],
             p[t][i].op = "free", p[u][j] = p[t][i]
      PROVE  t = u /\ i = j
  BY <1>0, <1>2, <1>4 DEF Once
<1> QED BY <1>3, <1>4 DEF Once, p

\* Executing the head of a queue, which frees b if it is a Free(b).
LEMMA OnceTail ==
  ASSUME TypeOK, FreedOnce, NEW s \in Streams, queue[s] # <<>>,
         queue' = [queue EXCEPT ![s] = Tail(@)],
         \A d \in Buffers : buf[d].state = "freeing" =>
            buf'[d].state = "freeing" \/ Head(queue[s]) = Free(d)
  PROVE  FreedOnce'
<1> DEFINE shift(t) == IF t = s THEN 1 ELSE 0
<1>0. /\ queue \in [Streams -> Seq(Command)] /\ queue[s] \in Seq(Command)
      /\ Len(queue[s]) \in Nat /\ Len(queue[s]) # 0
  BY EmptySeq, LenProperties DEF TypeOK
<1>1. ASSUME NEW t \in Streams, NEW i \in DOMAIN queue'[t]
      PROVE  /\ i + shift(t) \in DOMAIN queue[t] /\ i \in Nat /\ i >= 1
             /\ queue'[t][i] = queue[t][i + shift(t)]
  <2>1. CASE t = s
    BY <2>1, <1>0, HeadTailProperties, LenProperties
  <2>2. CASE t # s
    <3>1. DOMAIN queue[t] = 1 .. Len(queue[t])
      BY <1>0, LenProperties
    <3> QED BY <1>0, <2>2, <3>1
  <2> QED BY <2>1, <2>2
<1>2. 1 \in DOMAIN queue[s] /\ queue[s][1] = Head(queue[s])
  BY <1>0, HeadTailProperties, LenProperties
<1>3. ASSUME NEW t \in Streams, NEW i \in DOMAIN queue'[t], queue'[t][i].op = "free"
      PROVE  buf'[queue'[t][i].dst].state = "freeing"
  <2>1. PICK k \in DOMAIN queue[t] :
          k = i + shift(t) /\ queue'[t][i] = queue[t][k]
    BY <1>1
  <2>2. PICK d \in Buffers : queue[t][k] = Free(d) /\ queue'[t][i].dst = d
    <3>1. queue[t][k] \in Command
      BY <1>0, ElementOfSeq
    <3> QED BY <1>3, <2>1, <3>1 DEF Command, Free
  <2>3. buf[d].state = "freeing"
    BY <2>2 DEF Once, FreedOnce, Free
  <2>4. Head(queue[s]) # Free(d)
    <3> SUFFICES ASSUME Head(queue[s]) = Free(d) PROVE FALSE
      OBVIOUS
    <3>1. queue[s][1] = queue[t][k] /\ queue[t][k].op = "free"
      BY <1>2, <2>2 DEF Free
    <3>2. t = s /\ k = 1
      BY <1>2, <3>1 DEF Once, FreedOnce
    <3> QED BY <3>2, <2>1, <1>1
  <2> QED BY <2>2, <2>3, <2>4
<1>4. ASSUME NEW t \in Streams, NEW i \in DOMAIN queue'[t],
             NEW u \in Streams, NEW j \in DOMAIN queue'[u],
             queue'[t][i].op = "free", queue'[u][j] = queue'[t][i]
      PROVE  t = u /\ i = j
  <2> DEFINE k == i + shift(t)
             l == j + shift(u)
  <2>1. /\ k \in DOMAIN queue[t] /\ queue'[t][i] = queue[t][k]
        /\ l \in DOMAIN queue[u] /\ queue'[u][j] = queue[u][l]
    BY <1>1
  <2> HIDE DEF k, l
  <2>2. t = u /\ k = l
    BY <1>4, <2>1 DEF Once, FreedOnce
  <2> USE DEF k, l
  <2> QED BY <2>2, <1>1
<1> QED BY <1>3, <1>4 DEF Once, FreedOnce

\* What is left of the queues when the head of one was executed.
LEMMA Popped ==
  ASSUME queue \in [Streams -> Seq(Command)], NEW s \in Streams, queue[s] # <<>>,
         queue' = [queue EXCEPT ![s] = Tail(@)]
  PROVE  /\ Head(queue[s]) \in Command /\ 1 \in DOMAIN queue[s]
         /\ queue[s][1] = Head(queue[s])
         /\ \A t \in Streams : \A i \in DOMAIN queue'[t] :
              LET k == IF t = s THEN i + 1 ELSE i
              IN  /\ k \in DOMAIN queue[t] /\ queue'[t][i] = queue[t][k]
                  /\ i \in Nat /\ i >= 1
         /\ \A t \in Streams : \A k \in DOMAIN queue[t] :
              \/ t = s /\ k = 1
              \/ LET i == IF t = s THEN k - 1 ELSE k
                 IN  i \in DOMAIN queue'[t] /\ queue'[t][i] = queue[t][k]
<1>1. /\ queue[s] \in Seq(Command) /\ Len(queue[s]) \in Nat /\ Len(queue[s]) # 0
  BY EmptySeq, LenProperties
<1>2. /\ Tail(queue[s]) \in Seq(Command) /\ Len(Tail(queue[s])) = Len(queue[s]) - 1
      /\ \A i \in 1 .. Len(Tail(queue[s])) : Tail(queue[s])[i] = queue[s][i + 1]
      /\ Head(queue[s]) \in Command /\ Head(queue[s]) = queue[s][1]
  BY <1>1, HeadTailProperties
<1>3. /\ DOMAIN queue[s] = 1 .. Len(queue[s])
      /\ DOMAIN Tail(queue[s]) = 1 .. (Len(queue[s]) - 1)
  BY <1>1, <1>2, LenProperties
<1>4. queue'[s] = Tail(queue[s]) /\ \A t \in Streams \ {s} : queue'[t] = queue[t]
  OBVIOUS
<1>5. \A t \in Streams : \A i \in DOMAIN queue[t] : i \in Nat /\ i >= 1
  BY LenProperties
<1>6. ASSUME NEW t \in Streams, NEW i \in DOMAIN queue'[t]
      PROVE  LET k == IF t = s THEN i + 1 ELSE i
             IN  /\ k \in DOMAIN queue[t] /\ queue'[t][i] = queue[t][k]
                 /\ i \in Nat /\ i >= 1
  BY <1>1, <1>2, <1>3, <1>4, <1>5
<1>7. ASSUME NEW t \in Streams, NEW k \in DOMAIN queue[t]
      PROVE  \/ t = s /\ k = 1
             \/ LET i == IF t = s THEN k - 1 ELSE k
                IN  i \in DOMAIN queue'[t] /\ queue'[t][i] = queue[t][k]
  <2>1. CASE t = s /\ k # 1
    <3>1. k - 1 \in 1 .. (Len(queue[s]) - 1) /\ (k - 1) + 1 = k
      BY <1>1, <1>3, <2>1
    <3> QED BY <1>2, <1>3, <1>4, <2>1, <3>1
  <2>2. CASE t # s
    BY <1>4, <2>2
  <2> QED BY <2>1, <2>2
<1> QED BY <1>1, <1>2, <1>3, <1>6, <1>7
-----------------------------------------------------------------------------
(* Ownership: who will free an allocation, and that nobody else refers to   *)
(* it then.                                                                *)

\* What operator* is to free belongs to nobody else: the scratch memory and the
\* result of a failed launch, which are two allocations.
Scratch ==
  /\ host.pc = "matmul" => host.buf # host.result
  /\ \A b \in Temporary :
       /\ buf[b].state = "live"
       /\ \A a \in Arrays : arr[a].data # b
       /\ \A v \in Views : view[v].data # b

\* An array that is not constructed owns nothing.
Unbuilt == \A a \in Arrays \ built : arr[a].data = None

Owned == NothingDangles /\ NothingLeaks /\ Scratch /\ Unbuilt

\* An array with a size has a stream, also when its allocation failed: the
\* copy operations give that stream to the deleter.
Sized == \A a \in Arrays : arr[a].size # 0 => arr[a].stream # None

\* The inductive invariant.
IInv == TypeOK /\ Owned /\ FreedOnce /\ Sized

\* When operator* has nothing to free.
LEMMA NothingTemporary ==
  /\ Ready => Temporary = {}
  /\ \A a : MayDelete(a) => Temporary = {}
  /\ \A S : host' = Synchronized(S) => Temporary' = {}
  /\ \A S, b : host' = [Synchronized(S) EXCEPT !.pc = "read", !.buf = b] =>
                Temporary' = {}
  /\ host' = Idle => Temporary' = {}
  /\ host' = host => Temporary' = Temporary
<1>1. host.pc \notin {"matmul", "abandon"} => Temporary = {}
  BY DEF Temporary
<1>2. host'.pc \notin {"matmul", "abandon"} => Temporary' = {}
  BY DEF Temporary
<1>3. Idle.pc = "idle" /\ \A S : Synchronized(S).pc = "wait"
  BY DEF Synchronized, Idle
<1>4. \A S, b : [Synchronized(S) EXCEPT !.pc = "read", !.buf = b].pc = "read"
  BY DEF Synchronized, Idle
<1>5. \/ Ready \/ \E a : MayDelete(a)
      => Temporary = {}
  BY <1>1 DEF Ready, MayDelete
<1>6. host' = host => Temporary' = Temporary
  BY DEF Temporary
<1> QED BY <1>2, <1>3, <1>4, <1>5, <1>6

LEMMA NoScratch ==
  ASSUME TypeOK', Temporary' = {}
  PROVE  Scratch'
<1>1. host'.pc # "matmul"
  <2> SUFFICES ASSUME host'.pc = "matmul" PROVE FALSE
    OBVIOUS
  <2>1. host'.buf \in Buffers /\ host'.buf # None
    BY NdArrayAssumption DEF TypeOK
  <2>2. Temporary' = {host'.buf, host'.result} \ {None}
    BY DEF Temporary
  <2> QED BY <2>1, <2>2
<1> QED BY <1>1 DEF Scratch

LEMMA InitOwned == Init => Owned /\ FreedOnce /\ Sized
BY DEF Init, Temporary, Owned, NothingDangles, NothingLeaks, Scratch, Unbuilt, FreedOnce,
       Once, Sized, Empty, NoView, Unused, Idle

\* When the allocations N are made and the allocations D deleted, ownership is
\* kept if the arrays that remain refer to what arrays referred to before, or
\* to N, if what is not deleted stays referred to, and if no view keeps D.
LEMMA OwnedStep ==
  ASSUME IInv, Temporary = {}, NEW D \in SUBSET Buffers, NEW N \in SUBSET Buffers,
         \A b \in N : /\ buf[b].state = "free" /\ buf'[b].state = "live"
                      /\ buf'[b].kind = "device" => buf'[b].deleter # None,
         \A b \in D : buf'[b].state # "live",
         \A b \in Buffers \ (D \cup N) :
            /\ buf'[b].state = buf[b].state /\ buf'[b].kind = buf[b].kind
            /\ buf'[b].deleter = buf[b].deleter,
         \A a \in Arrays : arr'[a].data # None =>
            /\ arr'[a].stream # None /\ arr'[a].size # 0
            /\ \/ arr'[a].data \in N
               \/ /\ \E r \in Arrays : arr[r].data = arr'[a].data
                  /\ arr'[a].data \notin D,
         \A a \in Arrays : \/ arr[a].data \in D \cup {None}
                           \/ \E r \in Arrays : arr'[r].data = arr[a].data,
         \A b \in N : \/ \E a \in Arrays : arr'[a].data = b
                      \/ b \in Temporary',
         \A a \in Arrays \ built' : arr'[a].data = None,
         \A v \in Views : view'[v].data # None =>
            /\ view'[v].data \notin D
            /\ \/ view'[v].data = view[v].data
               \/ \E r \in Arrays : arr[r].data = view'[v].data,
         Temporary' \subseteq N,
         \A a \in Arrays : arr'[a].data \notin Temporary',
         host'.pc = "matmul" => host'.buf # host'.result,
         arr' \in [Arrays -> ArrType], view' \in [Views -> ViewType]
  PROVE  Owned'
<1> USE DEF IInv, Owned
<1>0. \A a \in Arrays : arr'[a].data \in Buffers \cup {None}
  BY DEF ArrType, BufferOrNone
<1>1. \A v \in Views : view'[v].data \in Buffers \cup {None}
  BY DEF ViewType, BufferOrNone
<1>2. \A a \in Arrays : arr[a].data # None => buf[arr[a].data].state = "live"
  BY DEF NothingDangles
<1>3. ASSUME NEW a \in Arrays, arr'[a].data # None
      PROVE  buf'[arr'[a].data].state = "live"
  BY <1>0, <1>2, <1>3
<1>4. ASSUME NEW v \in Views, view'[v].data # None
      PROVE  buf'[view'[v].data].state = "live" /\ view'[v].data \notin N
  BY <1>1, <1>2, <1>4 DEF NothingDangles
<1>5. NothingDangles'
  BY <1>3, <1>4 DEF NothingDangles
<1>6. ASSUME NEW b \in Buffers, buf'[b].state = "live"
      PROVE  /\ b \in Temporary' \/ \E a \in built' : arr'[a].data = b
             /\ buf'[b].kind = "device" => buf'[b].deleter # None
  <2>0. b \notin D /\ b # None
    BY <1>6, NdArrayAssumption
  <2>1. CASE b \in N
    BY <2>0, <2>1
  <2>2. CASE b \notin N
    <3>1. buf[b].state = "live" /\ buf'[b].kind = buf[b].kind
          /\ buf'[b].deleter = buf[b].deleter
      BY <1>6, <2>0, <2>2
    <3>2. PICK a \in built : arr[a].data = b
      BY <3>1 DEF NothingLeaks, Ready
    <3>3. a \in Arrays
      BY <3>2 DEF TypeOK
    <3> QED BY <2>0, <3>1, <3>2, <3>3 DEF NothingLeaks
  <2> QED BY <2>1, <2>2
<1>7. NothingLeaks'
  BY <1>6 DEF NothingLeaks
<1>8. Scratch'
  BY <1>4, NdArrayAssumption DEF Scratch
<1> QED BY <1>5, <1>7, <1>8 DEF Unbuilt
-----------------------------------------------------------------------------
(* What the deleters do.                                                   *)

LEMMA DeletedFacts ==
  ASSUME buf \in [Buffers -> BufType], NEW D \in SUBSET Buffers
  PROVE  /\ \A b \in D : Deleted(D)[b].state # "live"
         /\ \A b \in Buffers \ D : Deleted(D)[b] = buf[b]
         /\ \A b \in Buffers : buf[b].state = "freeing" /\ b \notin D =>
              Deleted(D)[b].state = "freeing"
BY DEF Deleted, Unused, BufType

LEMMA AllocatedFacts ==
  ASSUME NEW B \in [Buffers -> BufType], NEW b \in Buffers, NEW s \in Streams, NEW l
  PROVE  /\ Allocated(B, b, s, l)[b].state = "live"
         /\ Allocated(B, b, s, l)[b].deleter # None
         /\ \A c \in Buffers \ {b} : Allocated(B, b, s, l)[c] = B[c]
BY NdArrayAssumption DEF Allocated, Unused, BufType

LEMMA ExpiredFacts ==
  ASSUME NEW D \in SUBSET Buffers, NEW v \in Views, view \in [Views -> ViewType],
         Expired(D)[v].data # None
  PROVE  Expired(D)[v].data \notin D /\ Expired(D)[v].data = view[v].data
BY DEF Expired, ViewType

\* What Last is for: nobody else refers to it, and it is alive.
LEMMA LastFacts ==
  ASSUME IInv, NEW a \in Arrays
  PROVE  /\ Last(a) \in SUBSET Buffers
         /\ \A b \in Last(a) : buf[b].state = "live"
         /\ \A b, c \in Last(a) : b = c
         /\ \A r \in Arrays \ {a} : arr[r].data \notin Last(a)
         /\ \/ arr[a].data \in Last(a) \cup {None}
            \/ \E r \in Arrays \ {a} : arr[r].data = arr[a].data
BY ArrayType DEF IInv, Owned, NothingDangles, Last

\* Deleting live memory, at most one allocation, frees it once.
LEMMA FreesOnce ==
  ASSUME IInv, NEW D \in SUBSET Buffers,
         \A b \in D : buf[b].state = "live", \A b, c \in D : b = c
  PROVE  Once(FreesQueued(D), Deleted(D))
<1> USE DEF IInv, TypeOK
<1>1. \A b \in Buffers : buf[b].state = "freeing" => Deleted(D)[b].state = "freeing"
  BY DeletedFacts
<1>2. Once(queue, Deleted(D))
  BY <1>1, OnceMono DEF FreedOnce
<1>3. CASE \A b \in D : ~(buf[b].kind = "device" /\ buf[b].deleter \in Streams)
  <2>1. FreesQueued(D) = queue
    BY <1>3 DEF FreesQueued
  <2> QED BY <2>1, <1>2
<1>4. ASSUME NEW b \in D, buf[b].kind = "device", buf[b].deleter \in Streams
      PROVE  Once(FreesQueued(D), Deleted(D))
  <2>1. D = {b} /\ (CHOOSE c \in D : TRUE) = b
    OBVIOUS
  <2>2. FreesQueued(D) = Push(queue, buf[b].deleter, Free(b))
    BY <1>4, <2>1 DEF FreesQueued, Push
  <2>3. Deleted(D)[b].state = "freeing"
    BY <1>4 DEF Deleted, BufType
  <2>4. b \in Buffers /\ buf[b].state # "freeing"
    OBVIOUS
  <2>5. Once(Push(queue, buf[b].deleter, Free(b)), Deleted(D))
    BY <1>2, <1>4, <2>3, <2>4, OncePushFree
  <2> QED BY <2>2, <2>5
<1> QED BY <1>3, <1>4
-----------------------------------------------------------------------------
(* Every action keeps ownership.                                           *)

\* Calls that neither allocate nor free nor move.
LEMMA QuietOwned ==
  ASSUME IInv, TypeOK', Temporary = {}, Temporary' = {}, UNCHANGED <<built, arr, view>>,
         \A b \in Buffers : /\ buf'[b].state = buf[b].state
                            /\ buf'[b].kind = buf[b].kind
                            /\ buf'[b].deleter = buf[b].deleter
  PROVE  Owned'
<1> USE DEF IInv, Owned, TypeOK
<1>1. NothingDangles'
  BY DEF NothingDangles, ArrType, ViewType, BufferOrNone
<1>2. NothingLeaks'
  BY DEF NothingLeaks
<1> QED BY <1>1, <1>2, NoScratch DEF Unbuilt

LEMMA BecomesEmptyOwned ==
  ASSUME IInv, TypeOK', NEW a \in Arrays \ built, Temporary = {}, BecomesEmpty(a)
  PROVE  Owned' /\ FreedOnce'
<1>1. PICK s \in Streams : arr' = [arr EXCEPT ![a] = [Empty EXCEPT !.stream = s]]
  BY DEF BecomesEmpty, FreshStreams
<1>2. FreedOnce'
  BY DEF IInv, FreedOnce, BecomesEmpty
<1>3. Scratch' /\ Temporary' = {}
  BY NothingTemporary, NoScratch DEF BecomesEmpty
<1>4. Owned'
  BY <1>1, <1>3 DEF IInv, Owned, TypeOK, NothingDangles, NothingLeaks, Unbuilt,
     BecomesEmpty, Empty
<1> QED BY <1>2, <1>4

\* Calls in which array a lets go of its data.
LEMMA LetGo ==
  ASSUME IInv, TypeOK', Temporary = {}, NEW a \in Arrays, Temporary' = {},
         buf' = Deleted(Last(a)), queue' = FreesQueued(Last(a)),
         view' = Expired(Last(a)),
         \A r \in Arrays : arr'[r].data # None =>
            /\ arr'[r].stream # None /\ arr'[r].size # 0
            /\ \E x \in Arrays \ {a} : arr[x].data = arr'[r].data,
         \A x \in Arrays \ {a} : \/ arr[x].data = None
                                 \/ \E r \in Arrays : arr'[r].data = arr[x].data,
         \A r \in Arrays \ built' : arr'[r].data = None
  PROVE  Owned' /\ FreedOnce'
<1> DEFINE D == Last(a)
<1>1. FreedOnce'
  BY LastFacts, FreesOnce DEF FreedOnce
<1>2. buf \in [Buffers -> BufType] /\ view \in [Views -> ViewType]
      /\ arr' \in [Arrays -> ArrType] /\ view' \in [Views -> ViewType]
  BY DEF IInv, TypeOK
<1>3. \A v \in Views : view'[v].data # None =>
        view'[v].data \notin D /\ view'[v].data = view[v].data
  BY <1>2, LastFacts, ExpiredFacts
<1>4. /\ \A b \in D : buf'[b].state # "live"
      /\ \A b \in Buffers \ D : buf'[b] = buf[b]
  BY <1>2, LastFacts, DeletedFacts
<1>5. \A r \in Arrays : arr'[r].data # None =>
        /\ arr'[r].stream # None /\ arr'[r].size # 0
        /\ \E x \in Arrays : arr[x].data = arr'[r].data
        /\ arr'[r].data \notin D
  BY LastFacts
<1>6. \A x \in Arrays : \/ arr[x].data \in D \cup {None}
                        \/ \E r \in Arrays : arr'[r].data = arr[x].data
  BY LastFacts
<1>7. Owned'
  <2> DEFINE N == {}
  <2>1. /\ D \in SUBSET Buffers /\ N \in SUBSET Buffers
        /\ \A b \in Buffers \ (D \cup N) :
             /\ buf'[b].state = buf[b].state /\ buf'[b].kind = buf[b].kind
             /\ buf'[b].deleter = buf[b].deleter
    BY <1>4, LastFacts
  <2>2. D \subseteq D \cup N /\ \A b : b \notin N
    OBVIOUS
  <2>3. /\ Temporary' \subseteq N
        /\ \A x \in Arrays : arr'[x].data \notin Temporary'
        /\ host'.pc = "matmul" => host'.buf # host'.result
    BY NoScratch DEF Scratch
  <2> HIDE DEF D, N
  <2> QED BY <1>2, <1>3, <1>4, <1>5, <1>6, <2>1, <2>2, <2>3, OwnedStep, Zenon
<1> QED BY <1>1, <1>7

LEMMA DestroyOwned ==
  ASSUME IInv, TypeOK', NEW a \in Arrays, Destroy(a)
  PROVE  Owned' /\ FreedOnce'
<1>1. \A r \in Arrays : arr'[r] = IF r = a THEN Empty ELSE arr[r]
  BY DEF Destroy, IInv, TypeOK
<1>2. /\ Temporary = {} /\ Temporary' = {} /\ buf' = Deleted(Last(a))
      /\ queue' = FreesQueued(Last(a)) /\ view' = Expired(Last(a))
      /\ built' = built \ {a}
  BY NothingTemporary DEF Destroy
<1>3. \A r \in Arrays : arr'[r].data # None =>
         /\ arr'[r].stream # None /\ arr'[r].size # 0
         /\ \E x \in Arrays \ {a} : arr[x].data = arr'[r].data
  BY <1>1 DEF IInv, Owned, NothingDangles, Empty
<1>4. \A r \in Arrays \ built' : arr'[r].data = None
  BY <1>1, <1>2 DEF IInv, Owned, Unbuilt, Empty
<1> QED BY <1>1, <1>2, <1>3, <1>4, LetGo

LEMMA ReleaseOwned ==
  ASSUME IInv, TypeOK', NEW a \in Arrays, Release(a)
  PROVE  Owned' /\ FreedOnce'
<1>1. \A r \in Arrays : \/ r = a /\ arr'[r].data = None
                        \/ r # a /\ arr'[r] = arr[r]
  BY DEF Release, IInv, TypeOK, ArrType
<1>2. /\ Temporary = {} /\ Temporary' = {} /\ buf' = Deleted(Last(a))
      /\ queue' = FreesQueued(Last(a)) /\ view' = Expired(Last(a))
      /\ built' = built
  BY NothingTemporary DEF Release
<1>3. \A r \in Arrays : arr'[r].data # None =>
         /\ arr'[r].stream # None /\ arr'[r].size # 0
         /\ \E x \in Arrays \ {a} : arr[x].data = arr'[r].data
  BY <1>1 DEF IInv, Owned, NothingDangles
<1>4. \A r \in Arrays \ built' : arr'[r].data = None
  BY <1>1, <1>2 DEF IInv, Owned, Unbuilt
<1> QED BY <1>1, <1>2, <1>3, <1>4, LetGo

LEMMA MoveAssignOwned ==
  ASSUME IInv, TypeOK', NEW a \in Arrays, NEW r \in Arrays, MoveAssign(a, r)
  PROVE  Owned' /\ FreedOnce'
<1>1. \A x \in Arrays : \/ x = a /\ a # r /\ arr'[x] = arr[r]
                        \/ x \in {a, r} /\ arr'[x].data = None
                        \/ x \notin {a, r} /\ arr'[x] = arr[x]
  BY DEF MoveAssign, IInv, TypeOK, Empty, ArrType
<1>2. a # r => arr'[a] = arr[r]
  BY DEF MoveAssign, IInv, TypeOK
<1>3. /\ Temporary = {} /\ Temporary' = {} /\ buf' = Deleted(Last(a))
      /\ queue' = FreesQueued(Last(a)) /\ view' = Expired(Last(a))
      /\ built' = built /\ a \in built
  BY NothingTemporary DEF MoveAssign
<1>4. \A x \in Arrays : arr'[x].data # None =>
         /\ arr'[x].stream # None /\ arr'[x].size # 0
         /\ \E y \in Arrays \ {a} : arr[y].data = arr'[x].data
  BY <1>1 DEF IInv, Owned, NothingDangles
<1>5. \A x \in Arrays \ built' : arr'[x].data = None
  BY <1>1, <1>3 DEF IInv, Owned, Unbuilt
<1>6. \A x \in Arrays \ {a} : \/ arr[x].data = None
                              \/ \E y \in Arrays : arr'[y].data = arr[x].data
  BY <1>1, <1>2
<1> QED BY <1>3, <1>4, <1>5, <1>6, LetGo

\* An array that is not constructed lets go of nothing.
LEMMA UnbuiltLast ==
  ASSUME IInv, NEW a \in Arrays \ built
  PROVE  /\ Last(a) = {} /\ Deleted(Last(a)) = buf
         /\ FreesQueued(Last(a)) = queue /\ Expired(Last(a)) = view
<1>1. Last(a) = {}
  BY DEF IInv, Owned, Unbuilt, Last
<1> QED BY <1>1 DEF IInv, TypeOK, Deleted, FreesQueued, Expired

\* Calls in which array a lets go of its data and gets the allocation b.
LEMMA Gain ==
  ASSUME IInv, TypeOK', Temporary = {}, NEW a \in Arrays, NEW b \in FreeBuffers,
         Temporary' = {}, built' = built \cup {a}, view' = Expired(Last(a)),
         arr'[a].data = b, arr'[a].stream # None, arr'[a].size # 0,
         \A r \in Arrays \ {a} : arr'[r] = arr[r],
         buf'[b].state = "live", buf'[b].kind = "device" => buf'[b].deleter # None,
         \A c \in Buffers \ {b} : buf'[c] = Deleted(Last(a))[c]
  PROVE  Owned'
<1> DEFINE D == Last(a)
           N == {b}
<1>1. buf \in [Buffers -> BufType] /\ view \in [Views -> ViewType]
      /\ arr' \in [Arrays -> ArrType] /\ view' \in [Views -> ViewType]
  BY DEF IInv, TypeOK
<1>2. b \in Buffers /\ buf[b].state = "free" /\ b \notin D
  BY LastFacts DEF FreeBuffers
<1>3. \A v \in Views : view'[v].data # None =>
        view'[v].data \notin D /\ view'[v].data = view[v].data
  BY <1>1, LastFacts, ExpiredFacts
<1>4. /\ \A c \in D : buf'[c].state # "live"
      /\ \A c \in Buffers \ (D \cup N) : buf'[c] = buf[c]
  BY <1>1, <1>2, LastFacts, DeletedFacts
<1>5. \A r \in Arrays : arr'[r].data # None =>
        /\ arr'[r].stream # None /\ arr'[r].size # 0
        /\ \/ arr'[r].data \in N
           \/ /\ \E x \in Arrays : arr[x].data = arr'[r].data
              /\ arr'[r].data \notin D
  BY LastFacts DEF IInv, Owned, NothingDangles
<1>6. \A x \in Arrays : \/ arr[x].data \in D \cup {None}
                        \/ \E r \in Arrays : arr'[r].data = arr[x].data
  <2>1. \A x \in Arrays \ {a} : arr'[x].data = arr[x].data
    OBVIOUS
  <2> QED BY <2>1, LastFacts
<1>7. \A r \in Arrays \ built' : arr'[r].data = None
  BY DEF IInv, Owned, Unbuilt
<1>8. /\ D \in SUBSET Buffers /\ N \in SUBSET Buffers
      /\ \A c \in Buffers \ (D \cup N) :
           /\ buf'[c].state = buf[c].state /\ buf'[c].kind = buf[c].kind
           /\ buf'[c].deleter = buf[c].deleter
  BY <1>2, <1>4, LastFacts
<1>9. \A c \in N : /\ buf[c].state = "free" /\ buf'[c].state = "live"
                   /\ buf'[c].kind = "device" => buf'[c].deleter # None
  BY <1>2
<1>10. \A c \in N : \/ \E x \in Arrays : arr'[x].data = c
                    \/ c \in Temporary'
  OBVIOUS
<1> HIDE DEF D, N
<1>11. \A c \in D : buf'[c].state # "live"
  BY <1>4
<1>12. \A v \in Views : view'[v].data # None =>
         /\ view'[v].data \notin D
         /\ \/ view'[v].data = view[v].data
            \/ \E r \in Arrays : arr[r].data = view'[v].data
  BY <1>3
<1>13. /\ Temporary' \subseteq N
       /\ \A x \in Arrays : arr'[x].data \notin Temporary'
       /\ host'.pc = "matmul" => host'.buf # host'.result
  BY NoScratch DEF Scratch
<1> QED BY <1>1, <1>5, <1>6, <1>7, <1>8, <1>9, <1>10, <1>11, <1>12, <1>13,
           OwnedStep, ZenonT(40)

\* The queues of such calls, and of those whose allocation fails.
LEMMA GainFreedOnce ==
  ASSUME IInv, NEW a \in Arrays, NEW s, NEW c \in Command, c.op # "free",
         queue' = FreesQueued(Last(a)) \/ queue' = Push(FreesQueued(Last(a)), s, c),
         \A d \in Buffers : Deleted(Last(a))[d].state = "freeing" =>
                              buf'[d].state = "freeing"
  PROVE  FreedOnce'
<1>1. FreesQueued(Last(a)) \in [Streams -> Seq(Command)]
  BY LastFacts, FreesQueuedType DEF IInv, TypeOK
<1>2. Once(FreesQueued(Last(a)), Deleted(Last(a)))
  BY LastFacts, FreesOnce
<1>3. Once(FreesQueued(Last(a)), buf')
  BY <1>1, <1>2, OnceMono
<1>4. Once(queue', buf')
  BY <1>1, <1>3, OncePush
<1> QED BY <1>4 DEF FreedOnce

LEMMA AllocateArrayOwned ==
  ASSUME IInv, TypeOK', Temporary = {}, NEW a \in Arrays \ built, NEW n \in Sizes,
         NEW s \in Streams, NEW b \in FreeBuffers, NEW l \in Content,
         AllocateArray(a, n, s, b, l), built' = built \cup {a},
         \/ queue' = queue
         \/ \E v \in Values : queue' = Push(queue, s, Fill(b, v)),
         Temporary' = {}, view' = view
  PROVE  Owned' /\ FreedOnce'
<1>1. b \in Buffers /\ buf[b].state = "free" /\ buf \in [Buffers -> BufType]
  BY DEF FreeBuffers, IInv, TypeOK
<1>2. arr'[a] = [data |-> b, stream |-> s, size |-> n]
      /\ \A r \in Arrays \ {a} : arr'[r] = arr[r]
  BY DEF AllocateArray, IInv, TypeOK
<1>3. /\ buf'[b].state = "live" /\ buf'[b].deleter # None
      /\ \A c \in Buffers \ {b} : buf'[c] = buf[c]
  BY <1>1, AllocatedFacts DEF AllocateArray
<1>4. Owned'
  BY <1>1, <1>2, <1>3, UnbuiltLast, Gain, NdArrayAssumption
<1>5. PICK c \in Command :
        c.op # "free" /\ (queue' = queue \/ queue' = Push(queue, s, c))
  <2>1. \A v \in Values : Fill(b, v) \in Command /\ Fill(b, v).op # "free"
    BY <1>1 DEF Fill, Command
  <2>2. Fetch(b) \in Command /\ Fetch(b).op # "free"
    BY <1>1 DEF Fetch, Command
  <2> QED BY <2>1, <2>2
<1>6. \A d \in Buffers : buf[d].state = "freeing" => buf'[d].state = "freeing"
  BY <1>1, <1>3
<1>7. FreedOnce'
  BY <1>5, <1>6, UnbuiltLast, GainFreedOnce
<1> QED BY <1>4, <1>7

\* A constructor or an assignment that ends up without data.
LEMMA AllocationFailsOwned ==
  ASSUME IInv, TypeOK', Temporary = {}, NEW a \in Arrays, arr'[a].data = None,
         \A r \in Arrays \ {a} : arr'[r] = arr[r],
         buf' = Deleted(Last(a)), queue' = FreesQueued(Last(a)),
         view' = Expired(Last(a)), built' = built \cup {a}, Temporary' = {}
  PROVE  Owned' /\ FreedOnce'
<1>1. \A r \in Arrays : arr'[r].data # None =>
         /\ arr'[r].stream # None /\ arr'[r].size # 0
         /\ \E x \in Arrays \ {a} : arr[x].data = arr'[r].data
  BY DEF IInv, Owned, NothingDangles
<1>2. \A r \in Arrays \ built' : arr'[r].data = None
  BY DEF IInv, Owned, Unbuilt
<1>3. \A x \in Arrays \ {a} : arr'[x].data = arr[x].data
  OBVIOUS
<1> QED BY <1>1, <1>2, <1>3, LetGo

\* The case of a constructor whose allocation fails.
LEMMA FailedConstruction ==
  ASSUME IInv, TypeOK', Temporary = {}, NEW a \in Arrays \ built, NEW n \in Sizes,
         NEW s \in Streams, AllocationFails(a, n, s), built' = built \cup {a},
         view' = view, Temporary' = {}
  PROVE  Owned' /\ FreedOnce'
<1>1. arr'[a].data = None /\ \A r \in Arrays \ {a} : arr'[r] = arr[r]
  BY DEF AllocationFails, IInv, TypeOK
<1>2. buf' = buf /\ queue' = queue
  BY DEF AllocationFails
<1> QED BY <1>1, <1>2, UnbuiltLast, AllocationFailsOwned

LEMMA ConstructOwned ==
  ASSUME IInv, TypeOK', NEW a \in Arrays, NEW n \in Sizes,
         Construct(a, n) \/ \E v \in Values : ConstructFilled(a, n, v)
  PROVE  Owned' /\ FreedOnce'
<1>1. PICK s \in FreshStreams :
        /\ \/ \E b \in FreeBuffers :
                \/ \E v \in Values :
                   /\ AllocateArray(a, n, s, b, v)
                   /\ queue' = Push(queue, s, Fill(b, v))
                \/ /\ AllocateArray(a, n, s, b, Undef)
                   /\ UNCHANGED queue
           \/ AllocationFails(a, n, s)
        /\ host' = Synchronized({s})
  BY DEF Construct, ConstructFilled
<1>2. /\ Temporary = {} /\ a \notin built /\ built' = built \cup {a} /\ view' = view
  BY NothingTemporary DEF Construct, ConstructFilled
<1>3. s \in Streams /\ Temporary' = {} /\ Values \cup {Undef} \subseteq Content
  BY <1>1, NothingTemporary DEF FreshStreams, Content
<1>4. ASSUME NEW b \in FreeBuffers, NEW l \in Content, AllocateArray(a, n, s, b, l),
             \/ queue' = queue
             \/ \E v \in Values : queue' = Push(queue, s, Fill(b, v))
      PROVE  Owned' /\ FreedOnce'
  BY <1>2, <1>3, <1>4, AllocateArrayOwned
<1>5. CASE AllocationFails(a, n, s)
  BY <1>2, <1>3, <1>5, FailedConstruction
<1> QED BY <1>1, <1>3, <1>4, <1>5

LEMMA ConstructManagedOwned ==
  ASSUME IInv, TypeOK', NEW a \in Arrays, NEW n \in Sizes, ConstructManaged(a, n)
  PROVE  Owned' /\ FreedOnce'
<1>1. /\ Temporary = {} /\ a \notin built /\ built' = built \cup {a} /\ view' = view
      /\ Temporary' = {}
  BY NothingTemporary DEF ConstructManaged
<1>2. PICK s \in FreshStreams :
        \/ /\ \E b \in FreeBuffers :
                /\ arr' = [arr EXCEPT ![a] = [data |-> b, stream |-> s, size |-> n]]
                /\ buf' = [buf EXCEPT ![b] = [Unused EXCEPT !.state = "live",
                                                           !.kind = "managed"]]
           /\ UNCHANGED queue
        \/ AllocationFails(a, n, s)
  BY DEF ConstructManaged
<1>3. s \in Streams /\ s # None
  BY NdArrayAssumption DEF FreshStreams
<1>4. CASE AllocationFails(a, n, s)
  BY <1>1, <1>3, <1>4, FailedConstruction
<1>5. ASSUME NEW b \in FreeBuffers,
             arr' = [arr EXCEPT ![a] = [data |-> b, stream |-> s, size |-> n]],
             buf' = [buf EXCEPT ![b] = [Unused EXCEPT !.state = "live",
                                                     !.kind = "managed"]],
             UNCHANGED queue
      PROVE  Owned' /\ FreedOnce'
  <2>1. /\ arr'[a].data = b /\ arr'[a].stream # None /\ arr'[a].size # 0
        /\ \A r \in Arrays \ {a} : arr'[r] = arr[r]
    BY <1>3, <1>5, NdArrayAssumption DEF IInv, TypeOK
  <2>2. /\ buf'[b].state = "live" /\ buf'[b].kind = "managed"
        /\ buf[b].state = "free" /\ \A c \in Buffers \ {b} : buf'[c] = buf[c]
    BY <1>5 DEF IInv, TypeOK, Unused, FreeBuffers
  <2>3. Owned'
    BY <1>1, <2>1, <2>2, UnbuiltLast, Gain
  <2>4. \A d \in Buffers : buf[d].state = "freeing" => buf'[d].state = "freeing"
    BY <2>2
  <2>5. Once(queue, buf) /\ queue \in [Streams -> Seq(Command)]
    BY DEF IInv, FreedOnce, TypeOK
  <2>6. Once(queue, buf')
    BY <2>4, <2>5, OnceMono
  <2>7. FreedOnce'
    BY <1>5, <2>6 DEF FreedOnce
  <2> QED BY <2>3, <2>7
<1> QED BY <1>2, <1>4, <1>5

\* Calls in which arrays come to refer to what other arrays refer to.
LEMMA Rewire ==
  ASSUME IInv, TypeOK', Temporary = {}, UNCHANGED <<view, buf, queue>>, Temporary' = {},
         \A x \in Arrays : arr'[x].data # None =>
            /\ arr'[x].stream # None /\ arr'[x].size # 0
            /\ \E y \in Arrays : arr[y].data = arr'[x].data,
         \A x \in Arrays : \/ arr[x].data = None
                           \/ \E y \in Arrays : arr'[y].data = arr[x].data,
         \A x \in Arrays \ built' : arr'[x].data = None
  PROVE  Owned' /\ FreedOnce'
<1>1. FreedOnce'
  BY DEF IInv, FreedOnce
<1>2. NothingDangles'
  BY DEF IInv, Owned, NothingDangles
<1>3. ASSUME NEW b \in Buffers, buf[b].state = "live"
      PROVE  /\ \E x \in built' : arr'[x].data = b
             /\ buf[b].kind = "device" => buf[b].deleter # None
  <2>1. PICK a \in built : arr[a].data = b
    BY <1>3 DEF IInv, Owned, NothingLeaks
  <2>2. PICK y \in Arrays : arr'[y].data = b
    BY <2>1, NdArrayAssumption DEF IInv, TypeOK
  <2>3. y \in built'
    BY <2>2, NdArrayAssumption
  <2> QED BY <1>3, <2>2, <2>3 DEF IInv, Owned, NothingLeaks
<1>4. NothingLeaks'
  BY <1>3 DEF NothingLeaks
<1> QED BY <1>1, <1>2, <1>4, NoScratch DEF Owned, Unbuilt

LEMMA ConstructSharedOwned ==
  ASSUME IInv, TypeOK', NEW a \in Arrays, NEW r \in Arrays, ConstructShared(a, r)
  PROVE  Owned' /\ FreedOnce'
<1>1. PICK s \in Streams : arr' = [arr EXCEPT ![a] = [arr[r] EXCEPT !.stream = s]]
  BY DEF ConstructShared, FreshStreams
<1>2. /\ a \notin built /\ built' = built \cup {a} /\ UNCHANGED <<view, buf, queue, host>>
      /\ Temporary = {}
  BY NothingTemporary DEF ConstructShared
<1>3. /\ arr'[a].data = arr[r].data /\ arr'[a].stream = s /\ arr'[a].size = arr[r].size
      /\ \A x \in Arrays \ {a} : arr'[x] = arr[x]
      /\ arr[a].data = None /\ s # None
  BY <1>1, <1>2, NdArrayAssumption DEF IInv, TypeOK, Owned, Unbuilt, ArrType
<1>4. \A x \in Arrays : arr'[x].data # None =>
        /\ arr'[x].stream # None /\ arr'[x].size # 0
        /\ \E y \in Arrays : arr[y].data = arr'[x].data
  BY <1>3 DEF IInv, Owned, NothingDangles
<1>5. \A x \in Arrays : \/ arr[x].data = None
                        \/ \E y \in Arrays : arr'[y].data = arr[x].data
  BY <1>3
<1>6. \A x \in Arrays \ built' : arr'[x].data = None
  BY <1>2, <1>3 DEF IInv, Owned, Unbuilt
<1>7. Temporary' = {}
  BY <1>2, NothingTemporary
<1> QED BY <1>2, <1>4, <1>5, <1>6, <1>7, Rewire

LEMMA MoveConstructOwned ==
  ASSUME IInv, TypeOK', NEW a \in Arrays, NEW r \in Arrays, MoveConstruct(a, r)
  PROVE  Owned' /\ FreedOnce'
<1>1. Temporary = {} /\ a \notin built /\ r \in built
  BY NothingTemporary DEF MoveConstruct
<1>2. CASE BecomesEmpty(a)
  BY <1>1, <1>2, BecomesEmptyOwned
<1>3. CASE ~BecomesEmpty(a)
  <2>1. /\ built' = built \cup {a} /\ arr' = [arr EXCEPT ![a] = arr[r], ![r] = Empty]
        /\ host' = Synchronized({arr[r].stream}) /\ UNCHANGED <<view, buf, queue>>
    BY <1>3 DEF MoveConstruct
  <2>2. /\ arr'[a] = arr[r] /\ arr'[r].data = None /\ arr[a].data = None
        /\ \A x \in Arrays \ {a, r} : arr'[x] = arr[x]
        /\ Temporary' = {}
    BY <1>1, <2>1, NothingTemporary DEF IInv, TypeOK, Owned, Unbuilt, Empty
  <2>3. \A x \in Arrays : arr'[x].data # None =>
          /\ arr'[x].stream # None /\ arr'[x].size # 0
          /\ \E y \in Arrays : arr[y].data = arr'[x].data
    BY <2>2 DEF IInv, Owned, NothingDangles
  <2>4. \A x \in Arrays : \/ arr[x].data = None
                          \/ \E y \in Arrays : arr'[y].data = arr[x].data
    BY <2>2
  <2>5. \A x \in Arrays \ built' : arr'[x].data = None
    BY <1>1, <2>1, <2>2 DEF IInv, Owned, Unbuilt
  <2> QED BY <1>1, <2>1, <2>2, <2>3, <2>4, <2>5, Rewire
<1> QED BY <1>2, <1>3

\* What the copy constructor and copy assignment have in common.
LEMMA CopyFromOwned ==
  ASSUME IInv, TypeOK', Temporary = {}, NEW a \in Arrays, NEW r \in Arrays,
         arr[r].size # 0, CopyFrom(a, r, Last(a))
  PROVE  Owned' /\ FreedOnce'
<1> DEFINE D == Last(a)
           B == Deleted(D)
<1>1. /\ built' = built \cup {a} /\ view' = Expired(D) /\ Temporary' = {}
  BY NothingTemporary DEF CopyFrom
<1>2. B \in [Buffers -> BufType] /\ buf \in [Buffers -> BufType]
  BY DeletedType DEF IInv, TypeOK
<1>3. CASE /\ arr' = [arr EXCEPT ![a] = [arr[r] EXCEPT !.data = None]]
           /\ buf' = B /\ queue' = FreesQueued(D)
  <2>1. arr'[a].data = None /\ \A x \in Arrays \ {a} : arr'[x] = arr[x]
    BY <1>3 DEF IInv, TypeOK, ArrType
  <2> QED BY <1>1, <1>3, <2>1, AllocationFailsOwned
<1>4. ASSUME NEW b \in FreeBuffers, NEW l,
             arr' = [arr EXCEPT ![a] = [arr[r] EXCEPT !.data = b]],
             buf' = Allocated(B, b, arr[r].stream, l),
             \/ queue' = FreesQueued(D)
             \/ /\ queue' = Push(FreesQueued(D), arr[r].stream, Copy(b, arr[r].data))
                /\ arr[r].data # None,
             arr[r].stream # None
      PROVE  Owned' /\ FreedOnce'
  <2>0. b \in Buffers /\ arr[r].stream \in Streams /\ buf[b].state = "free"
        /\ b \notin D
    BY <1>4, ArrayType, LastFacts DEF IInv, FreeBuffers, StreamOrNone
  <2>1. /\ arr'[a].data = b /\ arr'[a].stream = arr[r].stream
        /\ arr'[a].size = arr[r].size /\ \A x \in Arrays \ {a} : arr'[x] = arr[x]
    BY <1>4 DEF IInv, TypeOK, ArrType
  <2>2. /\ buf'[b].state = "live" /\ buf'[b].deleter # None
        /\ \A c \in Buffers \ {b} : buf'[c] = B[c]
    BY <1>2, <1>4, <2>0, AllocatedFacts
  <2>3. Owned'
    BY <1>1, <1>4, <2>1, <2>2, Gain
  <2>4. B[b] = buf[b]
    BY <1>2, <2>0, LastFacts, DeletedFacts
  <2>5. \A d \in Buffers : B[d].state = "freeing" => buf'[d].state = "freeing"
    BY <2>0, <2>2, <2>4
  <2>6. CASE queue' = FreesQueued(D)
    <3>1. Fetch(b) \in Command /\ Fetch(b).op # "free"
      BY <2>0 DEF Fetch, Command
    <3>2. FreedOnce'
      BY <2>5, <2>6, <3>1, GainFreedOnce
    <3> QED BY <2>3, <3>2
  <2>7. CASE /\ queue' = Push(FreesQueued(D), arr[r].stream, Copy(b, arr[r].data))
             /\ arr[r].data # None
    <3>1. Copy(b, arr[r].data) \in Command /\ Copy(b, arr[r].data).op # "free"
      BY <2>0, <2>7, ArrayType DEF IInv, Copy, Command
    <3>2. FreedOnce'
      BY <2>5, <2>7, <3>1, GainFreedOnce
    <3> QED BY <2>3, <3>2
  <2> QED BY <1>4, <2>6, <2>7
<1>5. arr[r].stream # None
  BY DEF IInv, Sized
<1> QED BY <1>3, <1>4, <1>5 DEF CopyFrom

LEMMA CopyOwned ==
  ASSUME IInv, TypeOK', NEW a \in Arrays, NEW r \in Arrays,
         CopyConstruct(a, r) \/ CopyAssign(a, r)
  PROVE  Owned' /\ FreedOnce'
<1>1. CASE CopyConstruct(a, r)
  <2>1. Temporary = {} /\ a \notin built
    BY <1>1, NothingTemporary DEF CopyConstruct
  <2>2. CASE BecomesEmpty(a)
    BY <2>1, <2>2, BecomesEmptyOwned
  <2>3. CASE arr[r].size # 0 /\ CopyFrom(a, r, {})
    <3>1. Last(a) = {}
      BY <2>1 DEF IInv, Owned, Unbuilt, Last
    <3> QED BY <2>1, <2>3, <3>1, CopyFromOwned
  <2> QED BY <1>1, <2>2, <2>3 DEF CopyConstruct
<1>2. CASE CopyAssign(a, r)
  BY <1>2, NothingTemporary, CopyFromOwned DEF CopyAssign
<1> QED BY <1>1, <1>2

\* The result of an operator.
LEMMA NewFromOwned ==
  ASSUME IInv, TypeOK', Temporary = {}, NEW a \in Arrays \ built, NEW x \in Arrays,
         NEW y \in Arrays, arr[x].data # None, arr[y].data # None, NEW also,
         NewFrom(a, x, y, also)
  PROVE  Owned' /\ FreedOnce'
<1>1. PICK s \in FreshStreams, b \in FreeBuffers :
        /\ built' = built \cup {a}
        /\ arr' = [arr EXCEPT ![a] = [arr[x] EXCEPT !.data = b, !.stream = s]]
        /\ buf' = Allocated(buf, b, s, Result(buf[arr[x].data].logical,
                                             buf[arr[y].data].logical))
        /\ queue' = Push(queue, arr[x].stream,
                         Kernel(b, arr[x].data, arr[y].data, None))
        /\ host' = Synchronized(also \cup {s})
        /\ UNCHANGED view
  BY DEF NewFrom
<1>2. /\ s \in Streams /\ s # None /\ b \in Buffers /\ buf[b].state = "free"
      /\ buf \in [Buffers -> BufType] /\ Temporary' = {}
  BY <1>1, NothingTemporary, NdArrayAssumption
     DEF FreshStreams, FreeBuffers, IInv, TypeOK
<1>3. /\ arr'[a].data = b /\ arr'[a].stream = s /\ arr'[a].size = arr[x].size
      /\ \A r \in Arrays \ {a} : arr'[r] = arr[r]
  BY <1>1 DEF IInv, TypeOK, ArrType
<1>4. arr[x].size # 0
  BY DEF IInv, Owned, NothingDangles
<1>5. /\ buf'[b].state = "live" /\ buf'[b].deleter # None
      /\ \A c \in Buffers \ {b} : buf'[c] = buf[c]
  BY <1>1, <1>2, AllocatedFacts
<1>0. /\ view' = Expired(Last(a)) /\ built' = built \cup {a}
      /\ \A c \in Buffers \ {b} : buf'[c] = Deleted(Last(a))[c]
  BY <1>1, <1>5, UnbuiltLast
<1>6. Owned'
  BY <1>0, <1>2, <1>3, <1>4, <1>5, Gain
<1>7. /\ Kernel(b, arr[x].data, arr[y].data, None) \in Command
      /\ Kernel(b, arr[x].data, arr[y].data, None).op # "free"
  BY <1>2, ArrayType DEF IInv, Kernel, Command, BufferOrNone
<1>8. \A d \in Buffers : buf[d].state = "freeing" => buf'[d].state = "freeing"
  BY <1>2, <1>5
<1>9. FreedOnce'
  BY <1>1, <1>7, <1>8, UnbuiltLast, GainFreedOnce
<1> QED BY <1>6, <1>9

\* The free of an allocation that is discarded is the only one.
LEMMA OnceDiscarded ==
  ASSUME TypeOK, FreedOnce, NEW s \in Streams, NEW b \in Buffers,
         buf[b].state = "free"
  PROVE  Once(Push(queue, s, Free(b)), Discarded(b, s))
<1>1. /\ Discarded(b, s)[b].state = "freeing"
      /\ \A c \in Buffers : buf[c].state = "freeing"
                            => Discarded(b, s)[c].state = "freeing"
  BY DEF Discarded, Unused, TypeOK
<1>2. queue \in [Streams -> Seq(Command)]
  BY DEF TypeOK
<1>3. Once(queue, Discarded(b, s))
  BY <1>1, <1>2, OnceMono DEF FreedOnce
<1> QED BY <1>1, <1>2, <1>3, OncePushFree

\* An allocation is made and discarded; array a has no data.
LEMMA DiscardOwned ==
  ASSUME IInv, TypeOK', Temporary = {}, Temporary' = {}, NEW a \in Arrays \ built,
         NEW s \in Streams, NEW b \in FreeBuffers, arr'[a].data = None,
         \A r \in Arrays \ {a} : arr'[r] = arr[r], buf' = Discarded(b, s),
         queue' = Push(queue, s, Free(b)), built' = built \cup {a}, view' = view
  PROVE  Owned' /\ FreedOnce'
<1>1. /\ b \in Buffers /\ buf[b].state = "free" /\ buf \in [Buffers -> BufType]
      /\ queue \in [Streams -> Seq(Command)] /\ Once(queue, buf)
  BY DEF FreeBuffers, IInv, TypeOK, FreedOnce
<1>2. buf'[b].state = "freeing" /\ \A c \in Buffers \ {b} : buf'[c] = buf[c]
  BY <1>1 DEF Discarded, Unused
<1>3. FreedOnce'
  BY <1>1, OnceDiscarded DEF FreedOnce, IInv
<1>4. /\ \A c \in Buffers : buf'[c].state = "live" <=> buf[c].state = "live"
      /\ \A c \in Buffers : buf[c].state = "live" => buf'[c] = buf[c]
  BY <1>1, <1>2
<1>5. arr[a].data = None
  BY DEF IInv, Owned, Unbuilt
<1>6. \A r \in Arrays : arr'[r].data = arr[r].data
  BY <1>5
<1>7. NothingDangles'
  <2>1. \A r \in Arrays : arr[r].data \in Buffers \cup {None}
    BY DEF IInv, TypeOK, ArrType, BufferOrNone
  <2>2. \A v \in Views : view[v].data \in Buffers \cup {None}
    BY DEF IInv, TypeOK, ViewType, BufferOrNone
  <2> QED BY <1>4, <1>5, <1>6, <2>1, <2>2 DEF IInv, Owned, NothingDangles
<1>8. NothingLeaks'
  BY <1>4, <1>6 DEF IInv, TypeOK, Owned, NothingLeaks
<1>9. Unbuilt'
  BY <1>6 DEF IInv, Owned, Unbuilt
<1> QED BY <1>3, <1>7, <1>8, <1>9, NoScratch DEF Owned

LEMMA LaunchFailsOwned ==
  ASSUME IInv, TypeOK', Temporary = {}, NEW a \in Arrays \ built, LaunchFails(a)
  PROVE  Owned' /\ FreedOnce'
<1>1. PICK s \in FreshStreams, t \in FreshStreams, b \in FreeBuffers :
        /\ arr' = [arr EXCEPT ![a] = [Empty EXCEPT !.stream = t]]
        /\ buf' = Discarded(b, s) /\ queue' = Push(queue, s, Free(b))
  BY DEF LaunchFails
<1>2. /\ s \in Streams /\ arr'[a].data = None
      /\ \A r \in Arrays \ {a} : arr'[r] = arr[r]
  BY <1>1 DEF FreshStreams, Empty, IInv, TypeOK
<1>3. Temporary' = {} /\ built' = built \cup {a} /\ view' = view
  BY NothingTemporary DEF LaunchFails
<1> QED BY <1>1, <1>2, <1>3, DiscardOwned

LEMMA OperatorOwned ==
  ASSUME IInv, TypeOK', NEW a \in Arrays, NEW x \in Arrays, NEW y \in Arrays,
         \/ Unary(a, x) \/ UnaryNoWait(a, x)
         \/ Elementwise(a, x, y) \/ ElementwiseNoWait(a, x, y)
  PROVE  Owned' /\ FreedOnce'
<1>1. Temporary = {} /\ a \notin built
  BY NothingTemporary DEF Unary, UnaryNoWait, Elementwise, ElementwiseNoWait
<1>2. \/ BecomesEmpty(a) \/ LaunchFails(a)
      \/ ~NoData(x) /\ \E also : NewFrom(a, x, x, also)
      \/ ~Mismatch(x, y) /\ \E also : NewFrom(a, x, y, also)
  BY DEF Unary, UnaryNoWait, Elementwise, ElementwiseNoWait
<1>3. CASE BecomesEmpty(a)
  BY <1>1, <1>3, BecomesEmptyOwned
<1>4. CASE ~NoData(x) /\ \E also : NewFrom(a, x, x, also)
  BY <1>1, <1>4, NewFromOwned DEF NoData
<1>5. CASE ~Mismatch(x, y) /\ \E also : NewFrom(a, x, y, also)
  BY <1>1, <1>5, NewFromOwned DEF Mismatch
<1> QED BY <1>1, <1>2, <1>3, <1>4, <1>5, LaunchFailsOwned

\* operator* makes the allocations N: one may be the data of its result, the
\* others it is to free.
LEMMA WorkOwned ==
  ASSUME IInv, TypeOK', Temporary = {}, NEW a \in Arrays \ built,
         NEW N \in SUBSET FreeBuffers, arr'[a].data \in N \cup {None},
         arr'[a].data # None => arr'[a].stream # None /\ arr'[a].size # 0,
         \A r \in Arrays \ {a} : arr'[r] = arr[r],
         \A c \in N : buf'[c].state = "live" /\ buf'[c].deleter # None,
         \A c \in Buffers \ N : buf'[c] = buf[c],
         Temporary' = N \ {arr'[a].data},
         host'.pc = "matmul" => host'.buf # host'.result,
         built' = built \cup {a}, view' = view
  PROVE  Owned' /\ \A c \in Buffers : buf[c].state = "freeing" => buf'[c].state = "freeing"
<1> DEFINE D == {}
<1>1. /\ D \in SUBSET Buffers /\ N \in SUBSET Buffers
      /\ arr' \in [Arrays -> ArrType] /\ view' \in [Views -> ViewType]
      /\ \A c \in N : buf[c].state = "free" /\ c # None
  BY NdArrayAssumption DEF FreeBuffers, IInv, TypeOK
<1>2. \A c \in N : /\ buf[c].state = "free" /\ buf'[c].state = "live"
                   /\ buf'[c].kind = "device" => buf'[c].deleter # None
  BY <1>1
<1>3. \A c \in D : buf'[c].state # "live"
  OBVIOUS
<1>4. \A c \in Buffers \ (D \cup N) :
        /\ buf'[c].state = buf[c].state /\ buf'[c].kind = buf[c].kind
        /\ buf'[c].deleter = buf[c].deleter
  OBVIOUS
<1>5. \A r \in Arrays : arr[r].data # None =>
        /\ arr[r].stream # None /\ arr[r].size # 0 /\ buf[arr[r].data].state = "live"
  BY DEF IInv, Owned, NothingDangles
<1>6. \A r \in Arrays : arr'[r].data # None =>
        /\ arr'[r].stream # None /\ arr'[r].size # 0
        /\ \/ arr'[r].data \in N
           \/ /\ \E z \in Arrays : arr[z].data = arr'[r].data
              /\ arr'[r].data \notin D
  BY <1>5
<1>7. arr[a].data = None
  BY DEF IInv, Owned, Unbuilt
<1>8. \A r \in Arrays : \/ arr[r].data \in D \cup {None}
                        \/ \E z \in Arrays : arr'[z].data = arr[r].data
  BY <1>7
<1>9. \A c \in N : \/ \E r \in Arrays : arr'[r].data = c
                   \/ c \in Temporary'
  OBVIOUS
<1>10. \A r \in Arrays \ built' : arr'[r].data = None
  BY DEF IInv, Owned, Unbuilt
<1>11. \A v \in Views : view'[v].data # None =>
         /\ view'[v].data \notin D
         /\ \/ view'[v].data = view[v].data
            \/ \E r \in Arrays : arr[r].data = view'[v].data
  OBVIOUS
<1>12. Temporary' \subseteq N /\ \A r \in Arrays : arr'[r].data \notin Temporary'
  <2>1. \A r \in Arrays \ {a} : arr'[r].data \notin N
    BY <1>1, <1>5
  <2> QED BY <2>1
<1>13. ASSUME NEW c \in Buffers, buf[c].state = "freeing"
       PROVE  buf'[c].state = "freeing"
  BY <1>1, <1>13
<1> HIDE DEF D
<1>14. Owned'
  BY <1>1, <1>2, <1>3, <1>4, <1>6, <1>8, <1>9, <1>10, <1>11, <1>12, OwnedStep,
     ZenonT(40)
<1> QED BY <1>13, <1>14

\* The allocations of operator* as Temporary sees them.
LEMMA TemporaryFacts ==
  ASSUME NEW d \in Buffers, NEW b \in Buffers, NEW S
  PROVE  /\ host' = [Synchronized(S) EXCEPT !.pc = "matmul", !.buf = d] =>
              /\ Temporary' = {d} /\ host'.buf # host'.result
         /\ host' = [Synchronized(S) EXCEPT !.pc = "matmul", !.buf = d,
                                            !.result = b] =>
              /\ Temporary' = {d, b} /\ host'.buf = d /\ host'.result = b
         /\ host' = [Synchronized(S) EXCEPT !.pc = "abandon", !.buf = d] =>
              /\ Temporary' = {d} /\ host'.pc # "matmul"
BY NdArrayAssumption DEF Temporary, Synchronized, Idle

\* What operator* allocates on stream k.
LEMMA AllocatedTwice ==
  ASSUME buf \in [Buffers -> BufType], NEW d \in Buffers, NEW b \in Buffers \ {d},
         NEW k \in Streams, NEW l,
         buf' = Allocated(Allocated(buf, d, k, Undef), b, k, l)
  PROVE  /\ \A c \in {b, d} : buf'[c].state = "live" /\ buf'[c].deleter # None
         /\ \A c \in Buffers \ {b, d} : buf'[c] = buf[c]
<1>1. Allocated(buf, d, k, Undef) \in [Buffers -> BufType]
  BY AllocatedType DEF StreamOrNone, Content
<1> QED BY <1>1, AllocatedFacts

\* A product that fails frees what it allocated, now or in MatmulCleanup and
\* Abandon.
LEMMA MatmulFailsOwned ==
  ASSUME IInv, TypeOK', Temporary = {}, NEW a \in Arrays \ built, NEW k \in Streams,
         MatmulFails(a, k)
  PROVE  Owned' /\ FreedOnce'
<1>1. /\ arr'[a].data = None /\ \A r \in Arrays \ {a} : arr'[r] = arr[r]
      /\ built' = built \cup {a} /\ view' = view
  BY DEF MatmulFails, IInv, TypeOK, Empty
<1>2. /\ buf \in [Buffers -> BufType] /\ queue \in [Streams -> Seq(Command)]
      /\ Once(queue, buf) /\ \A b \in FreeBuffers : b \in Buffers /\ b # None
  BY NdArrayAssumption DEF IInv, TypeOK, FreedOnce, FreeBuffers
<1>3. CASE host' = Synchronized({k}) /\ UNCHANGED <<buf, queue>>
  BY <1>1, <1>3, NothingTemporary, UnbuiltLast, AllocationFailsOwned
<1>4. ASSUME NEW d \in FreeBuffers, buf' = Discarded(d, k),
             queue' = Push(queue, k, Free(d)), host' = Synchronized({k})
      PROVE  Owned' /\ FreedOnce'
  BY <1>1, <1>4, NothingTemporary, DiscardOwned
<1>5. ASSUME NEW N \in SUBSET FreeBuffers, Temporary' = N, UNCHANGED queue,
             \A c \in N : buf'[c].state = "live" /\ buf'[c].deleter # None,
             \A c \in Buffers \ N : buf'[c] = buf[c],
             host'.pc = "matmul" => host'.buf # host'.result
      PROVE  Owned' /\ FreedOnce'
  <2>1. Temporary' = N \ {arr'[a].data}
    BY <1>1, <1>2, <1>5
  <2>2. Owned' /\ \A c \in Buffers : buf[c].state = "freeing" => buf'[c].state = "freeing"
    BY <1>1, <1>5, <2>1, WorkOwned
  <2>3. Once(queue, buf')
    BY <1>2, <2>2, OnceMono
  <2> QED BY <1>5, <2>2, <2>3 DEF FreedOnce
<1>6. ASSUME NEW d \in FreeBuffers, buf' = Allocated(buf, d, k, Undef),
             host' = [Synchronized({k}) EXCEPT !.pc = "abandon", !.buf = d],
             UNCHANGED queue
      PROVE  Owned' /\ FreedOnce'
  <2> DEFINE N == {d}
  <2>1. Temporary' = N /\ host'.pc # "matmul"
    BY <1>2, <1>6, TemporaryFacts
  <2>2. /\ \A c \in N : buf'[c].state = "live" /\ buf'[c].deleter # None
        /\ \A c \in Buffers \ N : buf'[c] = buf[c]
    BY <1>2, <1>6, AllocatedFacts
  <2>3. N \in SUBSET FreeBuffers
    OBVIOUS
  <2> HIDE DEF N
  <2> QED BY <1>5, <1>6, <2>1, <2>2, <2>3
<1>7. ASSUME NEW d \in FreeBuffers, NEW b \in FreeBuffers \ {d},
             buf' = Allocated(Allocated(buf, d, k, Undef), b, k, Undef),
             host' = [Synchronized({k}) EXCEPT !.pc = "matmul", !.buf = d,
                                               !.result = b],
             UNCHANGED queue
      PROVE  Owned' /\ FreedOnce'
  <2> DEFINE N == {b, d}
  <2>1. Temporary' = N /\ host'.buf # host'.result
    <3>1. Temporary' = {d, b} /\ host'.buf = d /\ host'.result = b
      BY <1>2, <1>7, TemporaryFacts
    <3> QED BY <3>1
  <2>2. /\ \A c \in N : buf'[c].state = "live" /\ buf'[c].deleter # None
        /\ \A c \in Buffers \ N : buf'[c] = buf[c]
    BY <1>2, <1>7, AllocatedTwice
  <2>3. N \in SUBSET FreeBuffers
    OBVIOUS
  <2> HIDE DEF N
  <2> QED BY <1>5, <1>7, <2>1, <2>2, <2>3
<1> QED BY <1>3, <1>4, <1>6, <1>7 DEF MatmulFails

LEMMA MatmulOwned ==
  ASSUME IInv, TypeOK', NEW a \in Arrays, NEW x \in Arrays, NEW y \in Arrays,
         Matmul(a, x, y)
  PROVE  Owned' /\ FreedOnce'
<1> DEFINE k == arr[x].stream
<1>1. Temporary = {} /\ a \in Arrays \ built
  BY NothingTemporary DEF Matmul
<1>2. CASE BecomesEmpty(a)
  BY <1>1, <1>2, BecomesEmptyOwned
<1>3. ASSUME ~Mismatch(x, y)
      PROVE  /\ arr[x].data \in Buffers /\ arr[y].data \in Buffers
             /\ k \in Streams /\ arr[x].size # 0
  BY <1>3, ArrayType DEF IInv, Owned, NothingDangles, Mismatch, StreamOrNone
<1>4. CASE ~Mismatch(x, y) /\ MatmulFails(a, k)
  BY <1>1, <1>3, <1>4, MatmulFailsOwned
<1>5. ASSUME NEW s \in FreshStreams, NEW b \in FreeBuffers, NEW d \in FreeBuffers,
             NEW l,
             b # d, ~Mismatch(x, y), built' = built \cup {a},
             arr' = [arr EXCEPT ![a] = [arr[x] EXCEPT !.data = b, !.stream = s]],
             buf' = Allocated(Allocated(buf, d, k, Undef), b, k, l),
             queue' = Push(queue, k, Kernel(b, arr[x].data, arr[y].data, d)),
             host' = [Synchronized({k}) EXCEPT !.pc = "matmul", !.buf = d],
             UNCHANGED view
      PROVE  Owned' /\ FreedOnce'
  <2> DEFINE N == {b, d}
  <2>1. /\ b \in Buffers /\ d \in Buffers /\ N \in SUBSET FreeBuffers
        /\ buf \in [Buffers -> BufType] /\ s # None
    BY NdArrayAssumption DEF FreeBuffers, FreshStreams, IInv, TypeOK
  <2>2. /\ \A c \in N : buf'[c].state = "live" /\ buf'[c].deleter # None
        /\ \A c \in Buffers \ N : buf'[c] = buf[c]
    BY <1>3, <1>5, <2>1, AllocatedTwice
  <2>3. /\ arr'[a].data = b /\ arr'[a].stream = s /\ arr'[a].size = arr[x].size
        /\ \A r \in Arrays \ {a} : arr'[r] = arr[r]
    BY <1>5 DEF IInv, TypeOK, ArrType
  <2>4. Temporary' = N \ {arr'[a].data} /\ host'.buf # host'.result
    <3>1. Temporary' = {d} /\ host'.buf # host'.result
      BY <1>5, <2>1, TemporaryFacts
    <3> QED BY <1>5, <2>3, <3>1
  <2>5. arr'[a].data \in N
    BY <2>3
  <2>6. /\ Kernel(b, arr[x].data, arr[y].data, d) \in Command
        /\ Kernel(b, arr[x].data, arr[y].data, d).op # "free"
    BY <1>3, <1>5, <2>1 DEF Kernel, Command, BufferOrNone
  <2> HIDE DEF N
  <2>7. Owned' /\ \A c \in Buffers : buf[c].state = "freeing" => buf'[c].state = "freeing"
    BY <1>1, <1>3, <1>5, <2>1, <2>2, <2>3, <2>4, <2>5, WorkOwned
  <2>8. FreedOnce'
    BY <1>1, <1>5, <2>6, <2>7, UnbuiltLast, GainFreedOnce
  <2> QED BY <2>7, <2>8
<1>6. CASE ~Mismatch(x, y) /\ ~MatmulFails(a, k) /\ ~BecomesEmpty(a)
  <2>1. PICK s \in FreshStreams, b \in FreeBuffers, d \in FreeBuffers :
          /\ b # d /\ built' = built \cup {a}
          /\ arr' = [arr EXCEPT ![a] = [arr[x] EXCEPT !.data = b, !.stream = s]]
          /\ buf' = Allocated(Allocated(buf, d, k, Undef), b, k,
                              Result(buf[arr[x].data].logical,
                                     buf[arr[y].data].logical))
          /\ queue' = Push(queue, k, Kernel(b, arr[x].data, arr[y].data, d))
          /\ host' = [Synchronized({k}) EXCEPT !.pc = "matmul", !.buf = d]
          /\ UNCHANGED view
    BY <1>6 DEF Matmul
  <2> QED BY <1>5, <1>6, <2>1
<1> QED BY <1>2, <1>4, <1>6 DEF Matmul

\* In place, element and host access: only meant contents change, and what is
\* enqueued frees nothing.
LEMMA AccessOwned ==
  ASSUME IInv, TypeOK', Temporary = {}, NEW s, NEW c \in Command, c.op # "free",
         queue' = queue \/ queue' = Push(queue, s, c), UNCHANGED <<built, arr, view>>,
         Temporary' = {},
         \A b \in Buffers : /\ buf'[b].state = buf[b].state
                            /\ buf'[b].kind = buf[b].kind
                            /\ buf'[b].deleter = buf[b].deleter
  PROVE  Owned' /\ FreedOnce'
<1>1. Owned'
  BY QuietOwned
<1>2. queue \in [Streams -> Seq(Command)] /\ Once(queue, buf)
  BY DEF IInv, TypeOK, FreedOnce
<1>3. Once(queue, buf')
  BY <1>2, OnceMono
<1>4. Once(queue', buf')
  BY <1>2, <1>3, OncePush
<1> QED BY <1>1, <1>4 DEF FreedOnce

\* Setting what is meant to be in one allocation keeps whose it is.
LEMMA LogicalOnly ==
  ASSUME buf \in [Buffers -> BufType], NEW d, NEW l,
         buf' = [buf EXCEPT ![d].logical = l]
  PROVE  \A b \in Buffers : /\ buf'[b].state = buf[b].state
                            /\ buf'[b].kind = buf[b].kind
                            /\ buf'[b].deleter = buf[b].deleter
BY DEF BufType

LEMMA InPlaceOwned ==
  ASSUME IInv, TypeOK', NEW x \in Arrays, NEW y \in Arrays,
         InPlace(x, y) \/ InPlaceNoWait(x, y)
  PROVE  Owned' /\ FreedOnce'
<1> DEFINE c == Kernel(arr[x].data, arr[x].data, arr[y].data, None)
<1>1. /\ Temporary = {} /\ UNCHANGED <<built, arr, view>> /\ Temporary' = {}
      /\ ~Mismatch(x, y)
      /\ InPlaceFrom(x, y) \/ UNCHANGED <<buf, queue>>
  BY NothingTemporary DEF InPlace, InPlaceNoWait
<1>2. c \in Command /\ c.op # "free"
  BY <1>1, ArrayType DEF IInv, Mismatch, Kernel, Command, BufferOrNone
<1>3. queue' = queue \/ queue' = Push(queue, arr[x].stream, c)
  BY <1>1 DEF InPlaceFrom
<1>4. \A b \in Buffers : /\ buf'[b].state = buf[b].state
                         /\ buf'[b].kind = buf[b].kind
                         /\ buf'[b].deleter = buf[b].deleter
  BY <1>1, LogicalOnly DEF InPlaceFrom, IInv, TypeOK
<1> HIDE DEF c
<1> QED BY <1>1, <1>2, <1>3, <1>4, AccessOwned

LEMMA ViewSetOwned ==
  ASSUME IInv, TypeOK', NEW v \in Views, NEW x \in Values, ViewSet(v, x)
  PROVE  Owned' /\ FreedOnce'
<1> DEFINE c == Fill(view[v].data, x)
<1>1. /\ Temporary = {} /\ UNCHANGED <<built, arr, view>> /\ Temporary' = {}
      /\ queue' = Push(queue, view[v].stream, c)
  BY NothingTemporary DEF ViewSet
<1>2. c \in Command /\ c.op # "free"
  BY DEF ViewSet, IInv, TypeOK, ViewType, BufferOrNone, Fill, Command
<1>3. \A b \in Buffers : /\ buf'[b].state = buf[b].state
                         /\ buf'[b].kind = buf[b].kind
                         /\ buf'[b].deleter = buf[b].deleter
  BY LogicalOnly DEF ViewSet, IInv, TypeOK
<1> HIDE DEF c
<1> QED BY <1>1, <1>2, <1>3, AccessOwned

LEMMA FetchingOwned ==
  ASSUME IInv, TypeOK', NEW b \in Buffers, NEW s, Temporary = {},
         UNCHANGED <<built, arr, view, buf>>, Fetching(b, s)
  PROVE  Owned' /\ FreedOnce'
<1>1. Fetch(b) \in Command /\ Fetch(b).op # "free"
  BY DEF Fetch, Command
<1>2. Temporary' = {}
  BY NothingTemporary DEF Fetching
<1>3. queue' = queue \/ queue' = Push(queue, s, Fetch(b))
  BY DEF Fetching
<1> QED BY <1>1, <1>2, <1>3, AccessOwned

\* A view comes to refer to what an array refers to, or to nothing.
LEMMA ViewOwned ==
  ASSUME IInv, TypeOK', NEW v \in Views,
         DropView(v) \/ \E a \in Arrays : MakeView(v, a)
  PROVE  Owned' /\ FreedOnce'
<1>1. Temporary = {} /\ UNCHANGED <<built, arr, buf, queue, host>>
  BY NothingTemporary DEF MakeView, DropView
<1>2. /\ \/ view'[v].data = None
         \/ \E a \in Arrays : view'[v].data = arr[a].data
      /\ \A w \in Views \ {v} : view'[w] = view[w]
  BY DEF MakeView, DropView, NoView, IInv, TypeOK
<1>3. NothingDangles'
  BY <1>1, <1>2 DEF IInv, Owned, NothingDangles
<1>4. Temporary' = {}
  BY <1>1, NothingTemporary
<1> QED BY <1>1, <1>3, <1>4, NoScratch
           DEF IInv, Owned, NothingLeaks, Unbuilt, FreedOnce

LEMMA SynchronizeOwned ==
  ASSUME IInv, TypeOK', NEW a \in Arrays, Synchronize(a)
  PROVE  Owned' /\ FreedOnce'
<1>1. /\ Temporary = {} /\ Temporary' = {} /\ UNCHANGED <<built, arr, view, buf, queue>>
  BY NothingTemporary DEF Synchronize
<1> QED BY <1>1, QuietOwned DEF IInv, FreedOnce

\* A deleter starts to wait for the device.
LEMMA AwaitDeviceOwned ==
  ASSUME IInv, TypeOK', NEW a \in Arrays, AwaitDevice(a)
  PROVE  Owned' /\ FreedOnce'
<1>1. /\ Temporary = {} /\ Temporary' = {} /\ UNCHANGED <<built, arr, view, buf, queue>>
  BY NothingTemporary DEF AwaitDevice, Temporary, Idle
<1> QED BY <1>1, QuietOwned DEF IInv, FreedOnce

LEMMA ReturnOwned ==
  ASSUME IInv, TypeOK', Return
  PROVE  Owned' /\ FreedOnce'
<1>1. /\ Temporary = {} /\ Temporary' = {} /\ UNCHANGED <<built, arr, view, buf, queue>>
  BY NothingTemporary DEF Return, Temporary
<1> QED BY <1>1, QuietOwned DEF IInv, FreedOnce

\* operator* frees an allocation of its own, which nobody else refers to.
LEMMA TemporaryFreed ==
  ASSUME IInv, TypeOK', host.buf \in Temporary, Temporary' = Temporary \ {host.buf},
         host'.pc # "matmul", buf' = Deleted({host.buf}),
         queue' = FreesQueued({host.buf}), UNCHANGED <<built, arr, view>>
  PROVE  Owned' /\ FreedOnce'
<1> DEFINE D == {host.buf}
<1>1. /\ \A b \in Temporary : /\ buf[b].state = "live"
                              /\ \A a \in Arrays : arr[a].data # b
                              /\ \A v \in Views : view[v].data # b
      /\ Temporary \in SUBSET Buffers /\ buf \in [Buffers -> BufType]
  BY DEF IInv, TypeOK, Owned, Scratch, Temporary, HostType, BufferOrNone
<1>2. /\ D \in SUBSET Buffers /\ \A b \in D : buf[b].state = "live"
      /\ \A b, c \in D : b = c
  BY <1>1
<1>3. /\ \A b \in D : buf'[b].state # "live"
      /\ \A b \in Buffers \ D : buf'[b] = buf[b]
  <2>1. buf \in [Buffers -> BufType] /\ D \in SUBSET Buffers
    BY <1>1, <1>2
  <2> QED BY <2>1, DeletedFacts
<1>4. FreedOnce'
  BY <1>2, FreesOnce DEF FreedOnce
<1>5. /\ \A a \in Arrays : arr[a].data \notin D /\ arr[a].data \in Buffers \cup {None}
      /\ \A v \in Views : view[v].data \notin D /\ view[v].data \in Buffers \cup {None}
      /\ Temporary' = Temporary \ D
  BY <1>1 DEF IInv, TypeOK, ArrType, ViewType, BufferOrNone
<1> HIDE DEF D
<1>6. NothingDangles'
  BY <1>3, <1>5 DEF IInv, Owned, NothingDangles
<1>7. NothingLeaks'
  BY <1>3, <1>5 DEF IInv, Owned, NothingLeaks
<1>8. Scratch'
  BY <1>1, <1>3, <1>5 DEF Scratch
<1> QED BY <1>4, <1>6, <1>7, <1>8 DEF IInv, Owned, Unbuilt

LEMMA MatmulCleanupOwned ==
  ASSUME IInv, TypeOK', MatmulCleanup
  PROVE  Owned' /\ FreedOnce'
<1>1. /\ host.pc = "matmul" /\ host.buf \in Buffers /\ host.buf # None
      /\ host.result \in Buffers \cup {None} /\ host.buf # host.result
  BY NdArrayAssumption
     DEF MatmulCleanup, IInv, TypeOK, HostType, BufferOrNone, Owned, Scratch
<1>2. host.buf \in Temporary /\ Temporary = {host.buf, host.result} \ {None}
  BY <1>1 DEF Temporary
<1>3. Temporary' = Temporary \ {host.buf} /\ host'.pc # "matmul"
  <2>1. CASE host.result = None
    <3>1. host' = Synchronized(host.wait)
      BY <2>1 DEF MatmulCleanup
    <3> QED BY <1>2, <2>1, <3>1, NothingTemporary DEF Synchronized, Idle
  <2>2. CASE host.result # None
    <3>1. host' = [Synchronized(host.wait) EXCEPT !.pc = "abandon",
                                                  !.buf = host.result]
      BY <2>2 DEF MatmulCleanup
    <3>2. Temporary' = {host.result} /\ host'.pc # "matmul"
      BY <1>1, <2>2, <3>1, TemporaryFacts
    <3> QED BY <1>1, <1>2, <2>2, <3>2
  <2> QED BY <2>1, <2>2
<1> QED BY <1>2, <1>3, TemporaryFreed DEF MatmulCleanup

LEMMA AbandonOwned ==
  ASSUME IInv, TypeOK', Abandon
  PROVE  Owned' /\ FreedOnce'
<1>1. /\ Temporary = {host.buf} /\ Temporary' = {} /\ host'.pc # "matmul"
  BY DEF Abandon, Temporary, Idle
<1> QED BY <1>1, TemporaryFreed DEF Abandon

\* The device only ever frees memory that was given up, and frees it once.
LEMMA ExecuteOwned ==
  ASSUME IInv, TypeOK', NEW s \in Streams, Execute(s)
  PROVE  Owned' /\ FreedOnce'
<1> DEFINE c == Head(queue[s])
<1>1. /\ queue[s] # <<>> /\ queue' = [queue EXCEPT ![s] = Tail(@)]
      /\ UNCHANGED <<built, arr, view>> /\ Apply(c)
  BY DEF Execute
<1>2. /\ queue \in [Streams -> Seq(Command)] /\ queue[s] \in Seq(Command)
      /\ Once(queue, buf) /\ buf \in [Buffers -> BufType]
  BY DEF IInv, TypeOK, FreedOnce
<1>3. c \in Command /\ 1 \in DOMAIN queue[s] /\ queue[s][1] = c
  BY <1>1, <1>2, HeadTailProperties, EmptySeq, LenProperties
<1>4. /\ host'.pc = host.pc /\ host'.buf = host.buf /\ host'.result = host.result
      /\ Temporary' = Temporary
  BY <1>1 DEF Apply, IInv, TypeOK, HostType, Temporary
<1>5. \A b \in Buffers :
        \/ /\ buf'[b].state = buf[b].state /\ buf'[b].kind = buf[b].kind
           /\ buf'[b].deleter = buf[b].deleter
        \/ buf[b].state = "freeing" /\ buf'[b].state = "free" /\ c = Free(b)
  <2>1. CASE c.op = "free"
    BY <1>2, <1>3, <1>1, <2>1 DEF Once, Command, Free, Apply, Unused
  <2>2. CASE c.op \in {"fill", "kernel", "copy"}
    <3>1. \E m : buf' = [buf EXCEPT ![c.dst].mem = m]
      BY <1>1, <2>2 DEF Apply
    <3> QED BY <1>2, <3>1 DEF BufType
  <2>3. CASE c.op = "fetch"
    BY <1>1, <2>3 DEF Apply
  <2> QED BY <1>3, <2>1, <2>2, <2>3 DEF Command
<1>6. FreedOnce'
  <2>1. \A d \in Buffers : buf[d].state = "freeing" =>
          buf'[d].state = "freeing" \/ Head(queue[s]) = Free(d)
    BY <1>5
  <2> QED BY <1>1, <2>1, OnceTail DEF IInv
<1> HIDE DEF c
<1>7. \A b \in Buffers :
        /\ buf[b].state = "live" <=> buf'[b].state = "live"
        /\ buf[b].state = "live" => /\ buf'[b].kind = buf[b].kind
                                   /\ buf'[b].deleter = buf[b].deleter
  BY <1>5
<1>8. NothingDangles'
  <2>1. /\ \A a \in Arrays : arr[a].data \in Buffers \cup {None}
        /\ \A v \in Views : view[v].data \in Buffers \cup {None}
    BY DEF IInv, TypeOK, ArrType, ViewType, BufferOrNone
  <2> QED BY <1>1, <1>7, <2>1 DEF IInv, Owned, NothingDangles
<1>9. NothingLeaks'
  BY <1>1, <1>4, <1>7 DEF IInv, Owned, NothingLeaks
<1>10. Scratch'
  <2>1. Temporary \in SUBSET Buffers
    BY DEF IInv, TypeOK, Temporary, HostType, BufferOrNone
  <2> QED BY <1>1, <1>4, <1>7, <2>1 DEF IInv, Owned, Scratch
<1> QED BY <1>1, <1>6, <1>8, <1>9, <1>10 DEF IInv, Owned, Unbuilt

\* The stream of an array is missing only when it is empty.
LEMMA SizedStep ==
  ASSUME IInv, [Next]_vars
  PROVE  Sized'
<1> USE DEF IInv, Sized
<1>1. ASSUME NEW a \in Arrays, NEW s \in Streams, NEW x,
             arr' = [arr EXCEPT ![a] = x], x.stream = s
      PROVE  Sized'
  <2>1. s # None
    BY NdArrayAssumption
  <2> QED BY <1>1, <2>1 DEF TypeOK
<1>2. ASSUME NEW a \in Arrays, NEW r \in Arrays, NEW b,
             arr' = [arr EXCEPT ![a] = [arr[r] EXCEPT !.data = b]]
      PROVE  Sized'
  BY <1>2 DEF TypeOK, ArrType
<1>3. ASSUME NEW a \in Arrays, BecomesEmpty(a) PROVE Sized'
  BY <1>3 DEF BecomesEmpty, Empty, TypeOK
<1>4. ASSUME NEW a \in Arrays,
             \/ DefaultConstruct(a) \/ Destroy(a) \/ Release(a) \/ AwaitDevice(a)
             \/ \E n \in Sizes : Construct(a, n) \/ ConstructManaged(a, n)
             \/ \E n \in Sizes, v \in Values : ConstructFilled(a, n, v)
      PROVE  Sized'
  <2>1. CASE DefaultConstruct(a)
    BY <1>3, <2>1 DEF DefaultConstruct
  <2>2. CASE Destroy(a)
    BY <2>2 DEF Destroy, Empty, TypeOK
  <2>3. CASE Release(a)
    BY <2>3 DEF Release, TypeOK, ArrType
  <2>4. CASE \/ \E n \in Sizes : Construct(a, n) \/ ConstructManaged(a, n)
             \/ \E n \in Sizes, v \in Values : ConstructFilled(a, n, v)
    <3>1. PICK s \in FreshStreams, n \in Sizes, b \in BufferOrNone :
            arr' = [arr EXCEPT ![a] = [data |-> b, stream |-> s, size |-> n]]
      BY <2>4 DEF Construct, ConstructManaged, ConstructFilled, AllocateArray,
                  AllocationFails, FreeBuffers, BufferOrNone
    <3>2. s \in Streams
      BY DEF FreshStreams
    <3> QED BY <3>1, <3>2, <1>1
  <2>5. CASE AwaitDevice(a)
    BY <2>5 DEF AwaitDevice
  <2> QED BY <1>4, <2>1, <2>2, <2>3, <2>4, <2>5
<1>5. ASSUME NEW a \in Arrays, NEW r \in Arrays,
             \/ ConstructShared(a, r) \/ CopyConstruct(a, r) \/ CopyAssign(a, r)
             \/ MoveConstruct(a, r) \/ MoveAssign(a, r)
      PROVE  Sized'
  <2>1. CASE ConstructShared(a, r)
    BY <2>1, NdArrayAssumption DEF ConstructShared, FreshStreams, TypeOK, ArrType
  <2>2. CASE CopyConstruct(a, r) \/ CopyAssign(a, r)
    <3>1. BecomesEmpty(a) \/ \E D : CopyFrom(a, r, D)
      BY <2>2 DEF CopyConstruct, CopyAssign
    <3> QED BY <3>1, <1>2, <1>3 DEF CopyFrom
  <2>3. CASE MoveConstruct(a, r)
    <3>1. CASE arr' = [arr EXCEPT ![a] = arr[r], ![r] = Empty]
      BY <3>1 DEF Empty, TypeOK
    <3> QED BY <1>3, <2>3, <3>1 DEF MoveConstruct
  <2>4. CASE MoveAssign(a, r)
    BY <2>4 DEF MoveAssign, Empty, TypeOK
  <2> QED BY <1>5, <2>1, <2>2, <2>3, <2>4
<1>6. CASE Lifetime
  BY <1>4, <1>5, <1>6 DEF Lifetime
<1>7. ASSUME NEW a \in Arrays, NEW x \in Arrays, NEW y \in Arrays,
             \/ Unary(a, x) \/ UnaryNoWait(a, x)
             \/ Elementwise(a, x, y) \/ ElementwiseNoWait(a, x, y) \/ Matmul(a, x, y)
      PROVE  Sized'
  <2>1. \/ BecomesEmpty(a)
        \/ \E s \in FreshStreams :
             \/ arr' = [arr EXCEPT ![a] = [Empty EXCEPT !.stream = s]]
             \/ \E b : arr' = [arr EXCEPT ![a] = [arr[x] EXCEPT !.data = b,
                                                               !.stream = s]]
    BY <1>7 DEF Unary, UnaryNoWait, Elementwise, ElementwiseNoWait, Matmul, NewFrom,
                LaunchFails, MatmulFails
  <2>2. ASSUME NEW s \in FreshStreams, NEW b,
               \/ arr' = [arr EXCEPT ![a] = [Empty EXCEPT !.stream = s]]
               \/ arr' = [arr EXCEPT ![a] = [arr[x] EXCEPT !.data = b, !.stream = s]]
        PROVE  Sized'
    <3>1. s # None
      BY NdArrayAssumption DEF FreshStreams
    <3>2. arr'[a].stream = s
      BY <2>2 DEF TypeOK, ArrType, Empty
    <3>3. \A r \in Arrays \ {a} : arr'[r] = arr[r]
      BY <2>2 DEF TypeOK
    <3> QED BY <3>1, <3>2, <3>3
  <2> QED BY <2>1, <2>2, <1>3
<1>8. CASE Compute
  <2>1. ASSUME NEW x \in Arrays, NEW y \in Arrays, InPlace(x, y) \/ InPlaceNoWait(x, y)
        PROVE  Sized'
    BY <2>1 DEF InPlace, InPlaceNoWait
  <2> QED BY <1>7, <1>8, <2>1 DEF Compute
<1>9. CASE Access \/ MatmulCleanup \/ Abandon \/ Return \/ (\E s \in Streams : Execute(s))
  BY <1>9 DEF Access, Synchronize, Read, DropView, ViewGet, MakeView, ViewSet,
     MatmulCleanup, Abandon, Return, Execute
<1>10. CASE UNCHANGED vars
  BY <1>10 DEF vars
<1> QED BY <1>6, <1>8, <1>9, <1>10 DEF Next
-----------------------------------------------------------------------------
(* The invariant.                                                          *)

LEMMA OwnedNext ==
  ASSUME IInv, TypeOK', [Next]_vars
  PROVE  Owned' /\ FreedOnce'
<1>1. CASE Lifetime
  <2>1. ASSUME NEW a \in Arrays, DefaultConstruct(a)
        PROVE  Owned' /\ FreedOnce'
    BY <2>1, NothingTemporary, BecomesEmptyOwned DEF DefaultConstruct
  <2> QED BY <1>1, <2>1, ConstructOwned, ConstructManagedOwned,
             ConstructSharedOwned, CopyOwned, MoveConstructOwned, MoveAssignOwned,
             DestroyOwned, ReleaseOwned, AwaitDeviceOwned DEF Lifetime
<1>2. CASE Compute
  BY <1>2, InPlaceOwned, OperatorOwned, MatmulOwned DEF Compute
<1>3. CASE Access
  <2>1. ASSUME NEW a \in Arrays, Read(a) PROVE Owned' /\ FreedOnce'
    BY <2>1, NothingTemporary, ArrayType, FetchingOwned DEF Read, IInv
  <2>2. ASSUME NEW v \in Views, ViewGet(v) PROVE Owned' /\ FreedOnce'
    <3>1. view[v].data \in Buffers
      BY <2>2 DEF ViewGet, IInv, TypeOK, ViewType, BufferOrNone
    <3> QED BY <2>2, <3>1, NothingTemporary, FetchingOwned DEF ViewGet
  <2> QED BY <1>3, <2>1, <2>2, SynchronizeOwned, ViewOwned, ViewSetOwned DEF Access
<1>4. CASE MatmulCleanup \/ Abandon \/ Return \/ (\E s \in Streams : Execute(s))
  BY <1>4, MatmulCleanupOwned, AbandonOwned, ReturnOwned, ExecuteOwned
<1>5. CASE UNCHANGED vars
  BY <1>5 DEF vars, IInv, Owned, NothingDangles, NothingLeaks, Scratch, Temporary,
              Unbuilt, FreedOnce
<1> QED BY <1>1, <1>2, <1>3, <1>4, <1>5 DEF Next

\* The inductive invariant holds in every program.
THEOREM Invariance == Spec => []IInv
<1>1. Init => IInv
  BY InitType, InitOwned DEF IInv
<1>2. IInv /\ [Next]_vars => IInv'
  BY NextType, OwnedNext, SizedStep DEF IInv
<1> QED BY <1>1, <1>2, PTL DEF Spec

\* No array or view of any program refers to memory that was freed or is about
\* to be: what ~NdArray, release(), cleanup() and the moves are for.
THEOREM NoDanglingData == Spec => []NothingDangles
BY Invariance, PTL DEF IInv, Owned

\* Every allocation of any program has an owner and a stream to free it on, also when
\* allocations and launches fail half-way through an operator.
THEOREM NoLeakedData == Spec => []NothingLeaks
BY Invariance, PTL DEF IInv, Owned

\* No program makes the device free an allocation twice, or free live memory.
THEOREM NoDoubleFree == Spec => []FreedOnce
BY Invariance, PTL DEF IInv
=============================================================================
