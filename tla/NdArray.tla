------------------------------- MODULE NdArray -------------------------------
(***************************************************************************)
(* NdArray and NdView over a CUDA device, with one host thread.  The host   *)
(* enqueues kernels, copies and frees on the streams of the arrays; the     *)
(* device executes each stream in order and different streams in any        *)
(* order.  A call that ends in synchronize() blocks the host until the      *)
(* stream is empty.                                                         *)
(*                                                                          *)
(* The contents of an array are one abstract value and its dimensions one   *)
(* size; strides follow from them.  Beside what is in a buffer (mem) the    *)
(* model keeps what the program, read in program order, means to be there   *)
(* (logical): no action of the code reads logical.                          *)
(***************************************************************************)
EXTENDS Naturals, Sequences, FiniteSets

CONSTANTS Arrays,         \* NdArray variables of the program
          Views,          \* NdView variables of the program
          Buffers,        \* device and managed allocations
          Streams,        \* CUDA streams
          Sizes,          \* non-zero values of m_Size
          Values,         \* contents of an array
          Undef,          \* contents of memory nobody has written
          None,           \* null pointer, null stream
          Combine(_, _),  \* what an elementwise or matmul kernel computes
          Client,         \* the operations the program uses, see Operations
          QueueBound      \* bound on what operations that do not wait enqueue

\* The operations a program may be restricted from.  "plus" stands for the
\* three that return an unfinished result, operator+(array), abs and tanh,
\* "divassign" for operator/=(array), "fault" for failing allocations and
\* kernel launches.
Operations == {"plus", "divassign", "release", "share", "managed", "matmul",
               "view", "copy", "fault"}

ASSUME NdArrayAssumption ==
         /\ 0 \notin Sizes
         /\ Undef \notin Values
         /\ None \notin Buffers \cup Streams \cup Values \cup {Undef}
         /\ \A x, y \in Values : Combine(x, y) \in Values
         /\ Client \subseteq Operations
         /\ QueueBound \in Nat

VARIABLES built,   \* the constructed arrays
          arr,     \* m_Data, m_Stream and m_Size of every array
          view,    \* m_Data (a weak_ptr) and m_Stream of every view
          buf,     \* every allocation: its state, deleter and contents
          queue,   \* what every stream has still to execute
          host     \* what the host thread is doing

vars == <<built, arr, view, buf, queue, host>>

Empty  == [data |-> None, stream |-> None, size |-> 0]
NoView == [data |-> None, stream |-> None]
Unused == [state |-> "free", kind |-> "device", deleter |-> None,
           mem |-> Undef, logical |-> Undef]
Idle   == [pc |-> "idle", wait |-> {}, buf |-> None, result |-> None,
           got |-> None]

Content == Values \cup {Undef}
BufferOrNone == Buffers \cup {None}
StreamOrNone == Streams \cup {None}

\* A command on a stream: dst is written or freed, x, y and aux are read.
Command ==
  [op : {"fill"}, dst : Buffers, v : Values]
    \cup [op : {"kernel"}, dst : Buffers, x : Buffers, y : Buffers,
          aux : BufferOrNone]
    \cup [op : {"copy"}, dst : Buffers, x : Buffers]
    \cup [op : {"fetch"}, x : Buffers]
    \cup [op : {"free"}, dst : Buffers]

ArrType  == [data : BufferOrNone, stream : StreamOrNone, size : Sizes \cup {0}]
ViewType == [data : BufferOrNone, stream : StreamOrNone]
BufType  == [state : {"free", "live", "freeing"}, kind : {"device", "managed"},
             deleter : StreamOrNone, mem : Content, logical : Content]

\* pc: "wait" in a call that ends when the streams wait are empty, "read" in one
\* that goes on with what it fetches from buf, "matmul" in operator* before it
\* frees its scratch memory buf, "abandon" in operator* before it drops buf and
\* returns without data, "delete" in a deleter that waits for the device to
\* free buf.  A result is the one a failed launch leaves operator* with.
HostType == [pc : {"idle", "wait", "read", "matmul", "abandon", "delete"},
             wait : SUBSET Streams, buf : BufferOrNone, result : BufferOrNone,
             got : Content \cup {None}]

TypeOK == /\ built \in SUBSET Arrays
          /\ arr \in [Arrays -> ArrType]
          /\ view \in [Views -> ViewType]
          /\ buf \in [Buffers -> BufType]
          /\ queue \in [Streams -> Seq(Command)]
          /\ host \in HostType
          /\ host.pc \in {"matmul", "abandon"} => host.buf \in Buffers

Init == /\ built = {}
        /\ arr = [a \in Arrays |-> Empty]
        /\ view = [v \in Views |-> NoView]
        /\ buf = [b \in Buffers |-> Unused]
        /\ queue = [s \in Streams |-> <<>>]
        /\ host = Idle
-----------------------------------------------------------------------------
(* Commands.                                                               *)

Fill(b, v) == [op |-> "fill", dst |-> b, v |-> v]
Kernel(b, x, y, d) == [op |-> "kernel", dst |-> b, x |-> x, y |-> y, aux |-> d]
Copy(b, x) == [op |-> "copy", dst |-> b, x |-> x]
Fetch(x) == [op |-> "fetch", x |-> x]
Free(b) == [op |-> "free", dst |-> b]

Push(q, s, c) == [q EXCEPT ![s] = Append(@, c)]

\* What a computation on two contents leaves.
Result(x, y) == IF Undef \in {x, y} THEN Undef ELSE Combine(x, y)

(* Resources.                                                              *)

\* A stream exists as long as an array, a view or the deleter of an
\* allocation shares it (module Stream); destroyed, it still finishes its work.
\* (An expired view keeps the deleter it shares, but nothing uses that any more.)
Held(s) == \/ \E a \in Arrays : arr[a].stream = s
           \/ \E v \in Views : view[v].stream = s
           \/ \E b \in Buffers : buf[b].state = "live" /\ buf[b].deleter = s

FreshStreams == {s \in Streams : ~Held(s) /\ queue[s] = <<>>}
FreeBuffers  == {b \in Buffers : buf[b].state = "free"}

\* allocate<Device>(n, s) into a shared_ptr with DeviceDeleter(s), where the
\* program means l to be stored.
Allocated(B, b, s, l) == [B EXCEPT ![b] = [Unused EXCEPT !.state = "live",
                                             !.deleter = s, !.logical = l]]

\* Mutant of Last: as if m_Data were not shared.
LastUnshared(a) == {arr[a].data} \ {None}

\* The allocation array a alone refers to, as a set: what its shared_ptr
\* deletes when it lets go.
Last(a) == {arr[a].data} \ ({None} \cup {arr[x].data : x \in Arrays \ {a}})

\* b was allocated on stream s and is freed on it before anything uses it.
Discarded(b, s) == [buf EXCEPT ![b] = [Unused EXCEPT !.state = "freeing",
                                                     !.deleter = s]]

\* The deleters of D run.  DeviceDeleter enqueues cudaFreeAsync on its own
\* stream; ManagedDeleter calls cudaFree, which waits for the whole device.
DeviceIdle == \A s \in Streams : queue[s] = <<>>
CanDelete(D) == (\E b \in D : buf[b].kind = "managed") => DeviceIdle
Deleted(D) == [b \in Buffers |->
                 IF b \notin D THEN buf[b]
                 ELSE IF buf[b].kind = "managed" THEN Unused
                 ELSE [buf[b] EXCEPT !.state = "freeing"]]
FreesQueuedLost(D) == queue  \* mutant of FreesQueued: cudaFreeAsync is not called
FreesQueued(D) ==
  [s \in Streams |->
     IF \E b \in D : buf[b].kind = "device" /\ buf[b].deleter = s
     THEN Append(queue[s], Free(CHOOSE b \in D : TRUE))
     ELSE queue[s]]
ExpiredNever(D) == view  \* mutant of Expired: views hold a plain pointer
Expired(D) == [v \in Views |-> IF view[v].data \in D
                               THEN [view[v] EXCEPT !.data = None]
                               ELSE view[v]]

(* The host.                                                               *)

Ready == host.pc = "idle"

\* The allocations operator* has made and will free itself.
Temporary == CASE host.pc = "matmul"  -> {host.buf, host.result} \ {None}
               [] host.pc = "abandon" -> {host.buf}
               [] OTHER               -> {}

\* Mutant of Synchronized: the null stream is not refused.
SynchronizedUnchecked(S) == [Idle EXCEPT !.pc = "wait", !.wait = S]

\* synchronize() on the streams S; on a null stream it returns an error.
Synchronized(S) == [Idle EXCEPT !.pc = "wait", !.wait = S \ {None}]

\* Array a may give up its data now: its deleter does not wait, or has waited.
MayDelete(a) == \/ Ready /\ CanDelete(Last(a))
                \/ host.pc = "delete" /\ Last(a) = {host.buf} /\ DeviceIdle

\* Array a becomes an array without data on a new stream.
BecomesEmpty(a) ==
  \E s \in FreshStreams :
    /\ built' = built \cup {a}
    /\ arr' = [arr EXCEPT ![a] = [Empty EXCEPT !.stream = s]]
    /\ UNCHANGED <<view, buf, queue, host>>
-----------------------------------------------------------------------------
(* Constructors, assignments and destructor.                               *)

\* NdArray()
DefaultConstruct(a) == /\ Ready /\ a \notin built
                       /\ BecomesEmpty(a)

\* allocate into a new array of size n on stream s, where l is meant to be
\* stored.  A failed allocation leaves null data and the size.
AllocateArray(a, n, s, b, l) ==
  /\ arr' = [arr EXCEPT ![a] = [data |-> b, stream |-> s, size |-> n]]
  /\ buf' = Allocated(buf, b, s, l)
AllocationFails(a, n, s) ==
  /\ "fault" \in Client
  /\ arr' = [arr EXCEPT ![a] = [data |-> None, stream |-> s, size |-> n]]
  /\ UNCHANGED <<buf, queue>>

\* NdArray(dims): allocate on a new stream and wait
Construct(a, n) ==
  /\ Ready /\ a \notin built
  /\ built' = built \cup {a}
  /\ \E s \in FreshStreams :
       /\ \/ /\ \E b \in FreeBuffers : AllocateArray(a, n, s, b, Undef)
             /\ UNCHANGED queue
          \/ AllocationFails(a, n, s)
       /\ host' = Synchronized({s})
  /\ UNCHANGED view

\* zeros, ones, full, arange, eye, random and fromHost, and the constructors
\* from nested sequences: as before, but the memory is filled before the wait.
\* A fill that fails leaves it as it was.
ConstructFilled(a, n, v) ==
  /\ Ready /\ a \notin built
  /\ built' = built \cup {a}
  /\ \E s \in FreshStreams :
       /\ \/ \E b \in FreeBuffers :
               \/ /\ AllocateArray(a, n, s, b, v)
                  /\ queue' = Push(queue, s, Fill(b, v))
               \/ /\ "fault" \in Client
                  /\ AllocateArray(a, n, s, b, Undef)
                  /\ UNCHANGED queue
          \/ AllocationFails(a, n, s)
       /\ host' = Synchronized({s})
  /\ UNCHANGED view

\* managed(dims): unified memory with a ManagedDeleter, nothing to wait for
ConstructManaged(a, n) ==
  /\ Ready /\ a \notin built /\ "managed" \in Client
  /\ built' = built \cup {a}
  /\ \E s \in FreshStreams :
       \/ /\ \E b \in FreeBuffers :
               /\ arr' = [arr EXCEPT ![a] = [data |-> b, stream |-> s, size |-> n]]
               /\ buf' = [buf EXCEPT ![b] = [Unused EXCEPT !.state = "live",
                                                          !.kind = "managed"]]
          /\ UNCHANGED queue
       \/ AllocationFails(a, n, s)
  /\ UNCHANGED <<view, host>>

\* NdArray(std::shared_ptr<T>, dims) with the data of r, which
\* NdView::getShared() gives out: a second owner, on a stream of its own
ConstructShared(a, r) ==
  /\ Ready /\ a \notin built /\ r \in built /\ "share" \in Client
  /\ arr[r].data # None
  /\ built' = built \cup {a}
  /\ \E s \in FreshStreams :
       arr' = [arr EXCEPT ![a] = [arr[r] EXCEPT !.stream = s]]
  /\ UNCHANGED <<view, buf, queue, host>>

\* The common part of the copy constructor and copy assignment when rhs is not
\* empty, after the deletion of D: a new allocation on the stream of r, a copy
\* on it and a wait.  The copy fails on a null pointer, an error both ignore.
CopyFrom(a, r, D) ==
  LET s == arr[r].stream
      B == Deleted(D)
      q == FreesQueued(D)
  IN  /\ built' = built \cup {a}
      /\ \/ \E b \in FreeBuffers :
              /\ arr' = [arr EXCEPT ![a] = [arr[r] EXCEPT !.data = b]]
              /\ IF arr[r].data = None
                 THEN buf' = Allocated(B, b, s, Undef) /\ queue' = q
                 ELSE /\ buf' = Allocated(B, b, s, buf[arr[r].data].logical)
                      /\ queue' = Push(q, s, Copy(b, arr[r].data))
         \/ /\ "fault" \in Client
            /\ arr' = [arr EXCEPT ![a] = [arr[r] EXCEPT !.data = None]]
            /\ buf' = B /\ queue' = q
      /\ view' = Expired(D)
      /\ host' = Synchronized({s})

\* NdArray(const NdArray&): of an empty array, an array on a new stream
CopyConstruct(a, r) ==
  /\ Ready /\ a \notin built /\ r \in built /\ "copy" \in Client
  /\ \/ arr[r].size = 0 /\ BecomesEmpty(a)
     \/ arr[r].size # 0 /\ CopyFrom(a, r, {})

\* operator=(const NdArray&): returns at once on self-assignment and on an
\* empty rhs; otherwise cleanup() precedes the allocation
CopyAssign(a, r) ==
  /\ MayDelete(a) /\ a \in built /\ r \in built \ {a} /\ "copy" \in Client
  /\ arr[r].size # 0
  /\ CopyFrom(a, r, Last(a))

\* NdArray(NdArray&&): of an empty array, an array on a new stream
MoveConstruct(a, r) ==
  /\ Ready /\ a \notin built /\ r \in built
  /\ \/ arr[r].size = 0 /\ BecomesEmpty(a)
     \/ /\ arr[r].size # 0
        /\ built' = built \cup {a}
        /\ arr' = [arr EXCEPT ![a] = arr[r], ![r] = Empty]
        /\ host' = Synchronized({arr[r].stream})
        /\ UNCHANGED <<view, buf, queue>>

\* operator=(NdArray&&): returns at once on an empty rhs.  There is no check
\* for self-assignment: the array keeps its stream and loses its data.
MoveAssign(a, r) ==
  /\ MayDelete(a) /\ a \in built /\ r \in built /\ arr[r].size # 0
  /\ arr' = IF a = r
            THEN [arr EXCEPT ![a] = [Empty EXCEPT !.stream = arr[a].stream]]
            ELSE [arr EXCEPT ![a] = arr[r], ![r] = Empty]
  /\ buf' = Deleted(Last(a))
  /\ queue' = FreesQueued(Last(a))
  /\ view' = Expired(Last(a))
  /\ host' = Synchronized({arr[r].stream})
  /\ UNCHANGED built

\* ~NdArray()
Destroy(a) ==
  /\ MayDelete(a) /\ a \in built
  /\ built' = built \ {a}
  /\ arr' = [arr EXCEPT ![a] = Empty]
  /\ buf' = Deleted(Last(a))
  /\ queue' = FreesQueued(Last(a))
  /\ view' = Expired(Last(a))
  /\ host' = Idle

\* release(): the pointer is returned, but resetting m_Data runs the deleter
Release(a) ==
  /\ MayDelete(a) /\ a \in built /\ "release" \in Client
  /\ arr' = [arr EXCEPT ![a].data = None, ![a].size = 0]
  /\ buf' = Deleted(Last(a))
  /\ queue' = FreesQueued(Last(a))
  /\ view' = Expired(Last(a))
  /\ host' = Idle
  /\ UNCHANGED built

\* A destructor, an assignment or release() whose deleter calls cudaFree while
\* the device is busy: the host waits in it for every stream.
AwaitDevice(a) ==
  /\ Ready /\ a \in built /\ ~CanDelete(Last(a))
  /\ host' = [Idle EXCEPT !.pc = "delete", !.wait = Streams, !.buf = arr[a].data]
  /\ UNCHANGED <<built, arr, view, buf, queue>>
-----------------------------------------------------------------------------
(* Operators that return a new array.                                      *)

\* The operators return an array without data when an operand has none or the
\* sizes differ.
NoData(x) == arr[x].data = None \/ arr[x].size = 0
Mismatch(x, y) == \/ arr[x].data = None \/ arr[y].data = None
                  \/ arr[x].size # arr[y].size

\* Mutants of NewFrom: *this is not waited for; the result computes on the stream
\* of *this but is still freed on its own.
NewFromUnwaited(a, x, y, also) ==
  \E s \in FreshStreams, b \in FreeBuffers :
    /\ built' = built \cup {a}
    /\ arr' = [arr EXCEPT ![a] = [arr[x] EXCEPT !.data = b, !.stream = s]]
    /\ buf' = Allocated(buf, b, s, Result(buf[arr[x].data].logical,
                                         buf[arr[y].data].logical))
    /\ queue' = Push(queue, arr[x].stream,
                     Kernel(b, arr[x].data, arr[y].data, None))
    /\ host' = Synchronized({s})
    /\ UNCHANGED view
NewFromSharedStream(a, x, y, also) ==
  \E s \in FreshStreams, b \in FreeBuffers :
    /\ built' = built \cup {a}
    /\ arr' = [arr EXCEPT ![a] = [arr[x] EXCEPT !.data = b]]
    /\ buf' = Allocated(buf, b, s, Result(buf[arr[x].data].logical,
                                         buf[arr[y].data].logical))
    /\ queue' = Push(queue, arr[x].stream,
                     Kernel(b, arr[x].data, arr[y].data, None))
    /\ host' = Synchronized(also \cup {s})
    /\ UNCHANGED view

\* The result lives on a new stream of its own, while the kernel runs on the
\* stream of the left operand.  The result's stream is always synchronized, by
\* its constructor at least; also are the other streams the operator waits for.
NewFrom(a, x, y, also) ==
  \E s \in FreshStreams, b \in FreeBuffers :
    /\ built' = built \cup {a}
    /\ arr' = [arr EXCEPT ![a] = [arr[x] EXCEPT !.data = b, !.stream = s]]
    /\ buf' = Allocated(buf, b, s, Result(buf[arr[x].data].logical,
                                         buf[arr[y].data].logical))
    /\ queue' = Push(queue, arr[x].stream,
                     Kernel(b, arr[x].data, arr[y].data, None))
    /\ host' = Synchronized(also \cup {s})
    /\ UNCHANGED view

\* Mutant of LaunchFails: the result is a plain pointer, which is forgotten.
LaunchFailsLeaks(a) ==
  /\ "fault" \in Client
  /\ \E s, t \in FreshStreams, b \in FreeBuffers :
       /\ s # t
       /\ arr' = [arr EXCEPT ![a] = [Empty EXCEPT !.stream = t]]
       /\ buf' = Allocated(buf, b, s, Undef)
  /\ built' = built \cup {a}
  /\ UNCHANGED <<view, queue, host>>

\* The launch fails: an array without data is returned, on a stream of its own,
\* and the result goes at once; its deleter frees on the stream it was to have.
LaunchFails(a) ==
  /\ "fault" \in Client
  /\ \E s, t \in FreshStreams, b \in FreeBuffers :
       /\ s # t
       /\ arr' = [arr EXCEPT ![a] = [Empty EXCEPT !.stream = t]]
       /\ buf' = Discarded(b, s)
       /\ queue' = Push(queue, s, Free(b))
  /\ built' = built \cup {a}
  /\ UNCHANGED <<view, host>>

\* The scalar operators, negation and the functions that wait for the kernel:
\* on *this and on the result.  When the result cannot be allocated the launch
\* fails with nothing to free.
Unary(a, x) ==
  /\ Ready /\ a \notin built /\ x \in built
  /\ \/ (NoData(x) \/ "fault" \in Client) /\ BecomesEmpty(a)
     \/ ~NoData(x) /\ LaunchFails(a)
     \/ ~NoData(x) /\ NewFrom(a, x, x, {arr[x].stream})

\* The operators and comparisons of two arrays that wait, likewise.
Elementwise(a, x, y) ==
  /\ Ready /\ a \notin built /\ x \in built /\ y \in built
  /\ \/ (Mismatch(x, y) \/ "fault" \in Client) /\ BecomesEmpty(a)
     \/ ~Mismatch(x, y) /\ LaunchFails(a)
     \/ ~Mismatch(x, y) /\ NewFrom(a, x, y, {arr[x].stream})

\* abs and tanh: only the result's own stream is waited for
UnaryNoWait(a, x) ==
  /\ Ready /\ a \notin built /\ x \in built /\ "plus" \in Client
  /\ \/ (NoData(x) \/ "fault" \in Client) /\ BecomesEmpty(a)
     \/ ~NoData(x) /\ LaunchFails(a)
     \/ /\ ~NoData(x)
        /\ Len(queue[arr[x].stream]) < QueueBound
        /\ NewFrom(a, x, x, {})

\* operator+(array), likewise
ElementwiseNoWait(a, x, y) ==
  /\ Ready /\ a \notin built /\ x \in built /\ y \in built
  /\ "plus" \in Client
  /\ \/ (Mismatch(x, y) \/ "fault" \in Client) /\ BecomesEmpty(a)
     \/ ~Mismatch(x, y) /\ LaunchFails(a)
     \/ /\ ~Mismatch(x, y)
        /\ Len(queue[arr[x].stream]) < QueueBound
        /\ NewFrom(a, x, y, {})

\* A failure in operator*, computing on stream k, which returns an array without
\* data: there is no scratch memory; it cannot be written and is freed at once;
\* the result cannot be allocated; the launch fails.  The last two end in
\* MatmulCleanup and Abandon.
MatmulFails(a, k) ==
  /\ "fault" \in Client
  /\ \/ host' = Synchronized({k}) /\ UNCHANGED <<buf, queue>>
     \/ \E d \in FreeBuffers :
          \/ /\ buf' = Discarded(d, k)
             /\ queue' = Push(queue, k, Free(d))
             /\ host' = Synchronized({k})
          \/ /\ buf' = Allocated(buf, d, k, Undef)
             /\ host' = [Synchronized({k}) EXCEPT !.pc = "abandon", !.buf = d]
             /\ UNCHANGED queue
          \/ \E b \in FreeBuffers \ {d} :
               /\ buf' = Allocated(Allocated(buf, d, k, Undef), b, k, Undef)
               /\ host' = [Synchronized({k}) EXCEPT !.pc = "matmul", !.buf = d,
                                                    !.result = b]
               /\ UNCHANGED queue
  /\ \E s \in FreshStreams : arr' = [arr EXCEPT ![a] = [Empty EXCEPT !.stream = s]]
  /\ built' = built \cup {a}
  /\ UNCHANGED view

\* operator*(array) on matrices, square ones here.  Its dimension and stride
\* arrays are one scratch allocation d; the result's deleter frees on the stream
\* of *this, not on the result's.
Matmul(a, x, y) ==
  /\ Ready /\ a \notin built /\ x \in built /\ y \in built
  /\ "matmul" \in Client
  /\ \/ Mismatch(x, y) /\ BecomesEmpty(a)
     \/ ~Mismatch(x, y) /\ MatmulFails(a, arr[x].stream)
     \/ /\ ~Mismatch(x, y)
        /\ \E s \in FreshStreams, b, d \in FreeBuffers :
             /\ b # d
             /\ built' = built \cup {a}
             /\ arr' = [arr EXCEPT ![a] = [arr[x] EXCEPT !.data = b, !.stream = s]]
             /\ LET k == arr[x].stream
                    l == Result(buf[arr[x].data].logical, buf[arr[y].data].logical)
                IN  /\ buf' = Allocated(Allocated(buf, d, k, Undef), b, k, l)
                    /\ queue' = Push(queue, k,
                                     Kernel(b, arr[x].data, arr[y].data, d))
                    /\ host' = [Synchronized({k}) EXCEPT !.pc = "matmul", !.buf = d]
             /\ UNCHANGED view

\* What follows the launch in operator*: the scratch memory is freed on the
\* stream it was allocated on, and that stream is waited for once more.
MatmulCleanup ==
  /\ host.pc = "matmul"
  /\ \A s \in host.wait : queue[s] = <<>>
  /\ buf' = Deleted({host.buf})
  /\ queue' = FreesQueued({host.buf})
  /\ host' = IF host.result = None
             THEN Synchronized(host.wait)
             ELSE [Synchronized(host.wait) EXCEPT !.pc = "abandon",
                                                  !.buf = host.result]
  /\ UNCHANGED <<built, arr, view>>

\* Mutant of Abandon: operator* returns without the clean-up.
AbandonLeaks ==
  /\ host.pc = "abandon"
  /\ \A s \in host.wait : queue[s] = <<>>
  /\ host' = Idle
  /\ UNCHANGED <<built, arr, view, buf, queue>>

\* operator* returns an array without data, having freed its scratch memory, if
\* there was no result, or the result of a failed launch.  It does not wait for
\* the device to do so.
Abandon ==
  /\ host.pc = "abandon"
  /\ \A s \in host.wait : queue[s] = <<>>
  /\ buf' = Deleted({host.buf})
  /\ queue' = FreesQueued({host.buf})
  /\ host' = Idle
  /\ UNCHANGED <<built, arr, view>>
-----------------------------------------------------------------------------
(* Operators in place, element and host access.                            *)

\* The kernel of an in-place operator writes where its left operand is.
InPlaceFrom(x, y) ==
  /\ buf' = [buf EXCEPT ![arr[x].data].logical =
               Result(buf[arr[x].data].logical, buf[arr[y].data].logical)]
  /\ queue' = Push(queue, arr[x].stream,
                   Kernel(arr[x].data, arr[x].data, arr[y].data, None))

\* Mutant of InPlace: nothing is waited for.
InPlaceUnwaited(x, y) ==
  /\ Ready /\ x \in built /\ y \in built
  /\ ~Mismatch(x, y)
  /\ Len(queue[arr[x].stream]) < QueueBound
  /\ InPlaceFrom(x, y)
  /\ UNCHANGED <<built, arr, view, host>>

\* +=, -=, *=, %= and the scalar ones (y is x): a mismatch returns at once, a
\* failed launch is logged and waited for like a successful one
InPlace(x, y) ==
  /\ Ready /\ x \in built /\ y \in built
  /\ ~Mismatch(x, y)
  /\ \/ InPlaceFrom(x, y)
     \/ "fault" \in Client /\ UNCHANGED <<buf, queue>>
  /\ host' = Synchronized({arr[x].stream})
  /\ UNCHANGED <<built, arr, view>>

\* operator/=(array) does not wait.
InPlaceNoWait(x, y) ==
  /\ Ready /\ x \in built /\ y \in built /\ "divassign" \in Client
  /\ ~Mismatch(x, y)
  /\ Len(queue[arr[x].stream]) < QueueBound
  /\ InPlaceFrom(x, y)
  /\ UNCHANGED <<built, arr, view, host>>

\* synchronize()
Synchronize(a) == /\ Ready /\ a \in built
                  /\ host' = Synchronized({arr[a].stream})
                  /\ UNCHANGED <<built, arr, view, buf, queue>>

\* The host fetches b through stream s and waits.
Fetching(b, s) == /\ queue' = Push(queue, s, Fetch(b))
                  /\ host' = [Synchronized({s}) EXCEPT !.pc = "read", !.buf = b]

\* data(), to_host(), read() and operator() of an array that has data, and
\* print(), whose copy to pageable memory returns when it is done
Read(a) == /\ Ready /\ a \in built /\ arr[a].data # None
           /\ Fetching(arr[a].data, arr[a].stream)
           /\ UNCHANGED <<built, arr, view, buf>>

\* operator[]: a view has a weak reference and a new stream
MakeView(v, a) == /\ Ready /\ a \in built /\ view[v] = NoView
                  /\ "view" \in Client
                  /\ \E s \in FreshStreams :
                       view' = [view EXCEPT ![v] = [data |-> arr[a].data,
                                                    stream |-> s]]
                  /\ UNCHANGED <<built, arr, buf, queue, host>>

DropView(v) == /\ Ready /\ view[v] # NoView
               /\ view' = [view EXCEPT ![v] = NoView]
               /\ UNCHANGED <<built, arr, buf, queue, host>>

\* NdView::get(): a view that has expired returns at once
ViewGet(v) == /\ Ready /\ view[v].data # None
              /\ Fetching(view[v].data, view[v].stream)
              /\ UNCHANGED <<built, arr, view, buf>>

\* Mutant of ViewSet: the copy is not waited for.
ViewSetUnwaited(v, x) ==
  /\ Ready /\ view[v].data # None
  /\ Len(queue[view[v].stream]) < QueueBound
  /\ buf' = [buf EXCEPT ![view[v].data].logical = x]
  /\ queue' = Push(queue, view[v].stream, Fill(view[v].data, x))
  /\ UNCHANGED <<built, arr, view, host>>

\* NdView::set(): likewise
ViewSet(v, x) == /\ Ready /\ view[v].data # None
                 /\ buf' = [buf EXCEPT ![view[v].data].logical = x]
                 /\ queue' = Push(queue, view[v].stream, Fill(view[v].data, x))
                 /\ host' = Synchronized({view[v].stream})
                 /\ UNCHANGED <<built, arr, view>>

\* Mutant of Return: reading never ends.
ReturnUnlessReading == /\ host.pc = "wait"
                       /\ \A s \in host.wait : queue[s] = <<>>
                       /\ host' = Idle
                       /\ UNCHANGED <<built, arr, view, buf, queue>>

\* synchronize() returns, and with it the call.
Return == /\ host.pc \in {"wait", "read"}
          /\ \A s \in host.wait : queue[s] = <<>>
          /\ host' = Idle
          /\ UNCHANGED <<built, arr, view, buf, queue>>
-----------------------------------------------------------------------------
(* The device executes the command at the head of stream s.                *)

Apply(c) ==
  /\ buf' = CASE c.op = "fill"   -> [buf EXCEPT ![c.dst].mem = c.v]
              [] c.op = "kernel" -> [buf EXCEPT ![c.dst].mem =
                                      Result(buf[c.x].mem, buf[c.y].mem)]
              [] c.op = "copy"   -> [buf EXCEPT ![c.dst].mem = buf[c.x].mem]
              [] c.op = "free"   -> [buf EXCEPT ![c.dst] = Unused]
              [] c.op = "fetch"  -> buf
  /\ host' = IF c.op = "fetch" THEN [host EXCEPT !.got = buf[c.x].mem] ELSE host

Execute(s) == /\ queue[s] # <<>>
              /\ Apply(Head(queue[s]))
              /\ queue' = [queue EXCEPT ![s] = Tail(@)]
              /\ UNCHANGED <<built, arr, view>>
-----------------------------------------------------------------------------
Lifetime == \E a \in Arrays :
              \/ DefaultConstruct(a) \/ Destroy(a) \/ Release(a)
              \/ AwaitDevice(a)
              \/ \E n \in Sizes : Construct(a, n)
              \/ \E n \in Sizes, v \in Values : ConstructFilled(a, n, v)
              \/ \E n \in Sizes : ConstructManaged(a, n)
              \/ \E r \in Arrays : \/ ConstructShared(a, r)
                                  \/ CopyConstruct(a, r)
                                  \/ CopyAssign(a, r)
                                  \/ MoveConstruct(a, r)
                                  \/ MoveAssign(a, r)

Compute == \E x, y \in Arrays :
             \/ InPlace(x, y)
             \/ InPlaceNoWait(x, y)
             \/ Unary(x, y)
             \/ UnaryNoWait(x, y)
             \/ \E a \in Arrays : \/ Elementwise(a, x, y)
                                 \/ ElementwiseNoWait(a, x, y)
                                 \/ Matmul(a, x, y)

Access == \/ \E a \in Arrays : Synchronize(a) \/ Read(a)
          \/ \E v \in Views : \/ DropView(v) \/ ViewGet(v)
                              \/ \E a \in Arrays : MakeView(v, a)
                              \/ \E x \in Values : ViewSet(v, x)

Next == \/ Lifetime \/ Compute \/ Access
        \/ MatmulCleanup \/ Abandon \/ Return
        \/ \E s \in Streams : Execute(s)

Spec == Init /\ [][Next]_vars

\* cudaFree returns, and the call that deletes goes on to its end.
FinishDelete ==
  /\ host.pc = "delete"
  /\ \E a \in Arrays : \/ Destroy(a) \/ Release(a)
                       \/ \E r \in Arrays : CopyAssign(a, r) \/ MoveAssign(a, r)

\* The device makes progress on every stream, and a host that is blocked goes
\* on when what it waits for is done.  The program need not make calls.
Fairness == /\ \A s \in Streams : WF_vars(Execute(s))
            /\ WF_vars(MatmulCleanup) /\ WF_vars(Abandon)
            /\ WF_vars(FinishDelete) /\ WF_vars(Return)

FairSpec == Spec /\ Fairness
-----------------------------------------------------------------------------
(* Properties of every program.                                            *)

\* No array is left with a pointer to memory that was given to the device to
\* free, with data but no stream to use it on, or with data and the size of an
\* empty array; a view never refers to memory that is gone.
NothingDangles ==
  /\ \A a \in Arrays : arr[a].data # None =>
        /\ buf[arr[a].data].state = "live"
        /\ arr[a].stream # None /\ arr[a].size # 0
  /\ \A v \in Views : view[v].data # None => buf[view[v].data].state = "live"

\* Every allocation has an owner that will free it, an array or operator* at
\* work, and a stream to free it on: moves, copies, releases, failed allocations
\* and failed launches leak nothing.
NothingLeaks ==
  \A b \in Buffers : buf[b].state = "live" =>
    /\ b \in Temporary \/ \E a \in built : arr[a].data = b
    /\ buf[b].kind = "device" => buf[b].deleter # None

\* An allocation is freed once: a deleter runs a single time however many
\* arrays shared, moved or released the data, and only dead memory is freed.
Once(q, B) ==
  /\ \A s \in Streams : \A i \in DOMAIN q[s] :
       q[s][i].op = "free" => B[q[s][i].dst].state = "freeing"
  /\ \A s, t \in Streams : \A i \in DOMAIN q[s], j \in DOMAIN q[t] :
       q[s][i].op = "free" /\ q[t][j] = q[s][i] => s = t /\ i = j

FreedOnce == Once(queue, buf)

\* Memory given up is available again in the end.
MemoryReturns ==
  \A b \in Buffers : buf[b].state = "freeing" ~> buf[b].state = "free"

\* Every call returns, whatever its waits and failures: the host never waits for
\* a stream, or in cudaFree for a device, that cannot drain.
CallsReturn == host.pc # "idle" ~> host.pc = "idle"

(* Properties of programs that use no matrix product and no shared or       *)
(* managed data, whether or not their operations wait.                      *)

Writes(c)  == IF c.op = "fetch" THEN {} ELSE {c.dst}
Reads(c)   == CASE c.op = "kernel" -> {c.x, c.y, c.aux} \ {None}
                [] c.op \in {"copy", "fetch"} -> {c.x}
                [] c.op \in {"fill", "free"} -> {}
Touches(c) == Writes(c) \cup Reads(c)
Pending(s) == {queue[s][i] : i \in DOMAIN queue[s]}

\* Data is freed on the stream its array computes on, through every copy and
\* move: the free queues up behind the work the array itself has started.
FreedOnOwnStream ==
  \A a \in Arrays : arr[a].data # None =>
    buf[arr[a].data].deleter = arr[a].stream

\* So the left operand of a kernel outlives it, even when the operator did not
\* wait and the operand was destroyed, released or assigned to meanwhile.
LeftOperandOutlives ==
  \A s \in Streams : \A c \in Pending(s) :
    c.op = "kernel" => buf[c.x].state # "free"

(* Properties of programs whose operations wait for the device: those that  *)
(* avoid the operators that return without synchronizing.                   *)

\* No two streams have commands in flight of which one changes what the other
\* uses: kernels are never concurrent with each other, nor a free with a kernel.
RaceFree ==
  \A s, t \in Streams : s # t =>
    \A c \in Pending(s), d \in Pending(t) :
      Writes(c) \cap Touches(d) = {}

\* No command uses memory that was freed before it executes.
NoUseAfterFree ==
  \A s \in Streams : \A c \in Pending(s) :
    \A b \in Touches(c) : buf[b].state # "free"

\* When a call has returned, every array holds what the program means it to.
Coherent == Ready => \A b \in Buffers : buf[b].state = "live" =>
                                         buf[b].mem = buf[b].logical

\* What the host reads from an array or view is what the operations before the
\* read, in program order, left there.
HostReadsProgramOrder ==
  host.pc = "read" /\ host.got # None =>
    host.got = buf[host.buf].logical \/ buf[host.buf].logical = Undef

\* The caller of release() owns a live pointer.
ReleaseGivesOwnership ==
  [][\A a \in Arrays : Release(a) /\ arr[a].data # None =>
       buf'[arr[a].data].state = "live"]_vars

\* With the device hidden, the arrays are plain values.
Abstract == INSTANCE ArrayValues
              WITH ref <- [a \in Arrays |-> arr[a].data],
                   val <- [b \in Buffers |->
                             IF \E a \in Arrays : arr[a].data = b
                             THEN buf[b].logical ELSE Undef],
                   out <- host.got
Refinement == Abstract!Spec
=============================================================================
