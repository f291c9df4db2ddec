-------------------------- MODULE NdArraySyncProof --------------------------
(***************************************************************************)
(* Proofs about the programs whose every operation waits for the device:    *)
(* they use neither operator+(array), abs, tanh nor operator/=(array), and  *)
(* whatever else NdArray and NdView offer.                                  *)
(***************************************************************************)
EXTENDS NdArrayProof

\* What the theorems assume of the program, and nothing of any other constant.
Waits == Client \cap {"plus", "divassign"} = {}
-----------------------------------------------------------------------------
(* The invariant: at most one command is in flight beside frees, the host   *)
(* waits for it, and it brings what it writes to what the program means.    *)

\* The host waits for every stream that has work left.
Waited ==
  \A s \in Streams : \A i \in DOMAIN queue[s] :
    queue[s][i].op # "free" => ~Ready /\ s \in host.wait

OneAtATime ==
  \A s, t \in Streams : \A i \in DOMAIN queue[s], j \in DOMAIN queue[t] :
    queue[s][i].op # "free" /\ queue[t][j].op # "free" => s = t /\ i = j

\* Work uses live memory only; what is queued to be freed never is.
OnLive ==
  \A s \in Streams : \A i \in DOMAIN queue[s] :
    queue[s][i].op # "free" =>
      \A b \in Touches(queue[s][i]) : buf[b].state = "live"

\* What a command that writes will leave in its destination, in memory B.
Leaves(B, c) == CASE c.op = "fill"   -> c.v
                  [] c.op = "kernel" -> Result(B[c.x].mem, B[c.y].mem)
                  [] c.op = "copy"   -> B[c.x].mem

Writing == {"fill", "kernel", "copy"}

\* A command that is in flight will leave what the program means to be there.
Meant ==
  \A s \in Streams : \A i \in DOMAIN queue[s] :
    queue[s][i].op \in Writing =>
      Leaves(buf, queue[s][i]) = buf[queue[s][i].dst].logical

\* Memory that does not hold what is meant to be there is about to be written.
Accounted ==
  \A b \in Buffers : buf[b].state = "live" /\ buf[b].mem # buf[b].logical =>
    \E s \in Streams : \E i \in DOMAIN queue[s] :
      queue[s][i].op \in Writing /\ queue[s][i].dst = b

\* The host keeps what it fetched until the call returns.
Reading ==
  /\ host.pc = "read" => host.buf \in Buffers /\ buf[host.buf].state = "live"
  /\ host.got # None => /\ host.pc = "read"
                        /\ host.got = buf[host.buf].logical
  /\ \A s \in Streams : \A i \in DOMAIN queue[s] :
       queue[s][i].op = "fetch" => /\ host.pc = "read" /\ host.got = None
                                   /\ queue[s][i].x = host.buf

\* A view that can be used has a stream to use it on.
ViewsUsable ==
  \A v \in Views : view[v].data # None => view[v].stream # None

InFlight == /\ Waited /\ OneAtATime /\ OnLive /\ Meant /\ Accounted
            /\ Reading /\ ViewsUsable

SyncInv == IInv /\ InFlight
-----------------------------------------------------------------------------
(* A device that has nothing to do but free.                               *)

NoWork(q) == \A s \in Streams : \A i \in DOMAIN q[s] : q[s][i].op = "free"

Settled(B) == \A b \in Buffers : B[b].state = "live" => B[b].mem = B[b].logical

\* A call begins, or goes on when a deleter has waited for the device.
Acting == Ready \/ (host.pc = "delete" /\ DeviceIdle)

\* What the host finds then.
LEMMA ReadyFacts ==
  ASSUME InFlight, Acting
  PROVE  NoWork(queue) /\ Settled(buf) /\ host.got = None
<1>1. NoWork(queue)
  BY DEF InFlight, Waited, NoWork, Acting, DeviceIdle
<1>2. Settled(buf)
  BY <1>1 DEF InFlight, Accounted, NoWork, Settled, Writing
<1> QED BY <1>1, <1>2 DEF InFlight, Reading, Ready, Acting

\* The same when the streams the host waits for are empty.
LEMMA WaitedFacts ==
  ASSUME InFlight, \A s \in host.wait : queue[s] = <<>>
  PROVE  NoWork(queue) /\ Settled(buf)
<1>1. NoWork(queue)
  BY DEF InFlight, Waited, NoWork
<1> QED BY <1>1 DEF InFlight, Accounted, NoWork, Settled, Writing

LEMMA FreesNoWork ==
  ASSUME queue \in [Streams -> Seq(Command)], NoWork(queue), NEW D \in SUBSET Buffers
  PROVE  NoWork(FreesQueued(D))
<1> SUFFICES ASSUME NEW s \in Streams, NEW i \in DOMAIN FreesQueued(D)[s]
             PROVE  FreesQueued(D)[s][i].op = "free"
  BY DEF NoWork
<1>1. CASE FreesQueued(D)[s] = queue[s]
  BY <1>1 DEF NoWork
<1>2. CASE /\ FreesQueued(D)[s] = Append(queue[s], Free(CHOOSE b \in D : TRUE))
           /\ \E b \in D : TRUE
  <2> DEFINE c == Free(CHOOSE b \in D : TRUE)
  <2>1. c \in Command /\ c.op = "free" /\ queue[s] \in Seq(Command)
    BY <1>2 DEF Free, Command
  <2> HIDE DEF c
  <2>2. \A j \in DOMAIN Append(queue[s], c) :
          \/ j \in DOMAIN queue[s] /\ Append(queue[s], c)[j] = queue[s][j]
          \/ Append(queue[s], c)[j] = c
    BY <2>1, AppendProperties
  <2>3. FreesQueued(D)[s] = Append(queue[s], c)
    BY <1>2 DEF c
  <2> QED BY <2>1, <2>2, <2>3 DEF NoWork
<1> QED BY <1>1, <1>2 DEF FreesQueued

LEMMA DeletedSettled ==
  ASSUME buf \in [Buffers -> BufType], Settled(buf), NEW D \in SUBSET Buffers
  PROVE  Settled(Deleted(D))
BY DeletedFacts DEF Settled

\* A new allocation differs from nothing else; it is settled itself when
\* nothing is meant to be there.
LEMMA AllocatedSettled ==
  ASSUME NEW B \in [Buffers -> BufType], Settled(B), NEW b \in Buffers, NEW s, NEW l
  PROVE  /\ \A c \in Buffers : Allocated(B, b, s, l)[c].state = "live" /\ c # b =>
              Allocated(B, b, s, l)[c].mem = Allocated(B, b, s, l)[c].logical
         /\ Allocated(B, b, s, l)[b].logical = l
         /\ Settled(Allocated(B, b, s, Undef))
BY DEF Settled, Allocated, Unused, BufType

LEMMA ExpiredUsable ==
  ASSUME view \in [Views -> ViewType], ViewsUsable, NEW D, view' = Expired(D)
  PROVE  ViewsUsable'
BY DEF ViewsUsable, Expired, ViewType

\* Deleting nothing changes nothing.
LEMMA NothingDeleted ==
  ASSUME TypeOK
  PROVE  /\ Deleted({}) = buf /\ FreesQueued({}) = queue /\ Expired({}) = view
         /\ {} \in SUBSET Buffers
BY DEF TypeOK, Deleted, FreesQueued, Expired
-----------------------------------------------------------------------------
(* What a call leaves in flight.                                           *)

\* Nothing.
LEMMA Settle ==
  ASSUME NoWork(queue'), Settled(buf'), ViewsUsable', host'.pc # "read",
         host'.got = None
  PROVE  InFlight'
<1>1. Waited' /\ OneAtATime' /\ OnLive' /\ Meant'
  BY DEF NoWork, Waited, OneAtATime, OnLive, Meant, Writing
<1>2. Accounted' /\ Reading'
  BY DEF NoWork, Settled, Accounted, Reading
<1> QED BY <1>1, <1>2 DEF InFlight

\* Nothing, after the allocations D were given up.
LEMMA SettleDeleted ==
  ASSUME TypeOK, NoWork(queue), Settled(buf), ViewsUsable, NEW D \in SUBSET Buffers,
         buf' = Deleted(D), queue' = FreesQueued(D), view' = Expired(D),
         host'.pc # "read", host'.got = None
  PROVE  InFlight'
BY FreesNoWork, DeletedSettled, ExpiredUsable, Settle DEF TypeOK

\* Nothing, after an allocation was made and given up at once.
LEMMA SettleDiscarded ==
  ASSUME TypeOK, NoWork(queue), Settled(buf), ViewsUsable, NEW s \in Streams,
         NEW b \in Buffers, buf' = Discarded(b, s), queue' = Push(queue, s, Free(b)),
         view' = view, host'.pc # "read", host'.got = None
  PROVE  InFlight'
<1>1. NoWork(queue')
  <2> SUFFICES ASSUME NEW t \in Streams, NEW i \in DOMAIN queue'[t]
               PROVE  queue'[t][i].op = "free"
    BY DEF NoWork
  <2>1. Free(b) \in Command /\ Free(b).op = "free"
    BY DEF Free, Command
  <2>2. queue \in [Streams -> Seq(Command)]
    BY DEF TypeOK
  <2> QED BY <2>1, <2>2, Pushed DEF NoWork
<1>2. Settled(buf')
  BY DEF TypeOK, Settled, Discarded, Unused
<1> QED BY <1>1, <1>2, Settle DEF ViewsUsable

\* One command c, for which the host waits.
LEMMA Start ==
  ASSUME NEW q \in [Streams -> Seq(Command)], NoWork(q), NEW s \in Streams,
         NEW c \in Command, c.op # "free", queue' = Push(q, s, c),
         \A b \in Touches(c) : buf'[b].state = "live",
         \A b \in Buffers : buf'[b].state = "live" /\ b \notin Writes(c) =>
                              buf'[b].mem = buf'[b].logical,
         c.op \in Writing => /\ host'.pc # "read"
                             /\ Leaves(buf', c) = buf'[c.dst].logical,
         c.op = "fetch" => host'.pc = "read" /\ host'.buf = c.x,
         host'.pc # "idle", host'.got = None, s \in host'.wait, ViewsUsable'
  PROVE  InFlight'
<1>1. ASSUME NEW t \in Streams, NEW i \in DOMAIN queue'[t], queue'[t][i].op # "free"
      PROVE  t = s /\ i = Len(q[s]) + 1 /\ queue'[t][i] = c
  BY <1>1, Pushed DEF NoWork
<1>2. /\ Len(q[s]) + 1 \in DOMAIN queue'[s] /\ queue'[s][Len(q[s]) + 1] = c
  BY AppendProperties DEF Push
<1>3. Waited' /\ OneAtATime' /\ OnLive'
  BY <1>1 DEF Waited, OneAtATime, OnLive, Ready
<1>4. Meant'
  BY <1>1 DEF Meant, Writing
<1>5. Accounted'
  <2>1. ASSUME NEW b \in Buffers, buf'[b].state = "live", buf'[b].mem # buf'[b].logical
        PROVE  c.op \in Writing /\ c.dst = b
    BY <2>1 DEF Writes, Writing, Command
  <2> QED BY <1>2, <2>1 DEF Accounted
<1>6. Reading'
  <2>1. host'.pc = "read" => c.op = "fetch"
    BY DEF Command, Writing
  <2>2. c.op = "fetch" => c.x \in Buffers /\ buf'[c.x].state = "live"
    BY DEF Command, Touches, Writes, Reads
  <2> QED BY <1>1, <2>1, <2>2 DEF Reading
<1> QED BY <1>3, <1>4, <1>5, <1>6 DEF InFlight
-----------------------------------------------------------------------------
(* What the commands use and leave.                                        *)

LEMMA FillFacts ==
  ASSUME NEW b \in Buffers, NEW v \in Values
  PROVE  /\ Fill(b, v) \in Command /\ Fill(b, v).op = "fill" /\ Fill(b, v).dst = b
         /\ Touches(Fill(b, v)) = {b} /\ Writes(Fill(b, v)) = {b}
         /\ \A B : Leaves(B, Fill(b, v)) = v
<1>1. Fill(b, v) \in Command /\ Fill(b, v).op = "fill" /\ Fill(b, v).dst = b
  BY DEF Fill, Command
<1>2. Writes(Fill(b, v)) = {b} /\ Reads(Fill(b, v)) = {}
  BY DEF Fill, Writes, Reads
<1>3. \A B : Leaves(B, Fill(b, v)) = v
  BY DEF Fill, Leaves
<1> QED BY <1>1, <1>2, <1>3 DEF Touches

LEMMA CopyFacts ==
  ASSUME NEW b \in Buffers, NEW x \in Buffers
  PROVE  /\ Copy(b, x) \in Command /\ Copy(b, x).op = "copy" /\ Copy(b, x).dst = b
         /\ Touches(Copy(b, x)) = {b, x} /\ Writes(Copy(b, x)) = {b}
         /\ \A B : Leaves(B, Copy(b, x)) = B[x].mem
<1>1. Copy(b, x) \in Command /\ Copy(b, x).op = "copy" /\ Copy(b, x).dst = b
  BY DEF Copy, Command
<1>2. Writes(Copy(b, x)) = {b} /\ Reads(Copy(b, x)) = {x}
  BY DEF Copy, Writes, Reads
<1>3. \A B : Leaves(B, Copy(b, x)) = B[x].mem
  BY DEF Copy, Leaves
<1> QED BY <1>1, <1>2, <1>3 DEF Touches

LEMMA FetchFacts ==
  ASSUME NEW x \in Buffers
  PROVE  /\ Fetch(x) \in Command /\ Fetch(x).op = "fetch" /\ Fetch(x).x = x
         /\ Touches(Fetch(x)) = {x} /\ Writes(Fetch(x)) = {}
BY DEF Fetch, Command, Touches, Writes, Reads

LEMMA KernelFacts ==
  ASSUME NEW b \in Buffers, NEW x \in Buffers, NEW y \in Buffers,
         NEW d \in BufferOrNone
  PROVE  /\ Kernel(b, x, y, d) \in Command /\ Kernel(b, x, y, d).op = "kernel"
         /\ Kernel(b, x, y, d).dst = b /\ Writes(Kernel(b, x, y, d)) = {b}
         /\ Touches(Kernel(b, x, y, d)) = {b, x, y, d} \ {None}
         /\ \A B : Leaves(B, Kernel(b, x, y, d)) = Result(B[x].mem, B[y].mem)
<1>1. Kernel(b, x, y, d) \in Command
  BY DEF Kernel, Command
<1>2. Touches(Kernel(b, x, y, d)) = {b, x, y, d} \ {None}
  BY NdArrayAssumption DEF Kernel, Touches, Writes, Reads
<1> QED BY <1>1, <1>2 DEF Kernel, Writes, Leaves
-----------------------------------------------------------------------------
(* Every call leaves what the invariant allows in flight.                  *)

\* Calls that neither enqueue nor write, but for what they allocate.
LEMMA QuietInFlight ==
  ASSUME SyncInv, Ready, queue' = queue, Settled(buf'), ViewsUsable',
         host'.pc # "read", host'.got = None
  PROVE  InFlight'
BY ReadyFacts, Settle DEF SyncInv, Acting

LEMMA SynchronizedHost ==
  ASSUME NEW S
  PROVE  /\ Synchronized(S).pc = "wait" /\ Synchronized(S).got = None
         /\ Synchronized(S).wait = S \ {None}
BY DEF Synchronized, Idle

\* The facts a call starts from, or a deleter that has waited.
LEMMA ActingFacts ==
  ASSUME SyncInv, Acting
  PROVE  /\ TypeOK /\ NoWork(queue) /\ Settled(buf) /\ ViewsUsable
         /\ host.got = None
         /\ buf \in [Buffers -> BufType] /\ queue \in [Streams -> Seq(Command)]
         /\ view \in [Views -> ViewType] /\ None \notin Streams
BY ReadyFacts, NdArrayAssumption DEF SyncInv, IInv, TypeOK, InFlight

LEMMA CallFacts ==
  ASSUME SyncInv, Ready
  PROVE  /\ TypeOK /\ NoWork(queue) /\ Settled(buf) /\ ViewsUsable
         /\ host.got = None /\ host.pc = "idle"
         /\ buf \in [Buffers -> BufType] /\ queue \in [Streams -> Seq(Command)]
         /\ view \in [Views -> ViewType] /\ None \notin Streams
BY ActingFacts DEF Acting, Ready

LEMMA BecomesEmptyInFlight ==
  ASSUME SyncInv, Ready, NEW a, BecomesEmpty(a)
  PROVE  InFlight'
<1>1. UNCHANGED <<view, buf, queue, host>>
  BY DEF BecomesEmpty
<1> QED BY <1>1, CallFacts, QuietInFlight DEF ViewsUsable

LEMMA ConstructInFlight ==
  ASSUME SyncInv, NEW a \in Arrays, NEW n \in Sizes,
         \/ Construct(a, n) \/ ConstructManaged(a, n)
         \/ \E v \in Values : ConstructFilled(a, n, v)
  PROVE  InFlight'
<1>1. Ready /\ view' = view
  BY DEF Construct, ConstructManaged, ConstructFilled
<1>2. ViewsUsable'
  BY <1>1, CallFacts DEF ViewsUsable
<1>3. PICK s \in Streams :
        /\ \/ host' = Synchronized({s})
           \/ ConstructManaged(a, n) /\ host' = host
        /\ \/ queue' = queue /\ buf' = buf
           \/ \E b \in Buffers : queue' = queue /\ buf' = Allocated(buf, b, s, Undef)
           \/ \E b \in Buffers :
                queue' = queue /\ buf' = [buf EXCEPT ![b] =
                   [Unused EXCEPT !.state = "live", !.kind = "managed"]]
           \/ \E b \in Buffers, v \in Values :
                /\ queue' = Push(queue, s, Fill(b, v))
                /\ buf' = Allocated(buf, b, s, v)
                /\ host' = Synchronized({s})
  BY DEF Construct, ConstructManaged, ConstructFilled, AllocateArray,
         AllocationFails, FreshStreams, FreeBuffers
<1>4. host'.pc # "read" /\ host'.got = None
  BY <1>1, <1>3, CallFacts, SynchronizedHost
<1>5. CASE queue' = queue /\ buf' = buf
  BY <1>1, <1>2, <1>4, <1>5, CallFacts, QuietInFlight
<1>6. ASSUME NEW b \in Buffers, queue' = queue, buf' = Allocated(buf, b, s, Undef)
      PROVE  InFlight'
  BY <1>1, <1>2, <1>4, <1>6, CallFacts, AllocatedSettled, QuietInFlight
<1>7. ASSUME NEW b \in Buffers, queue' = queue,
             buf' = [buf EXCEPT ![b] = [Unused EXCEPT !.state = "live",
                                                     !.kind = "managed"]]
      PROVE  InFlight'
  <2>1. Settled(buf')
    BY <1>1, <1>7, CallFacts DEF Settled, Unused, BufType
  <2> QED BY <1>1, <1>2, <1>4, <1>7, <2>1, QuietInFlight
<1>8. ASSUME NEW b \in Buffers, NEW v \in Values, queue' = Push(queue, s, Fill(b, v)),
             buf' = Allocated(buf, b, s, v), host' = Synchronized({s})
      PROVE  InFlight'
  <2> DEFINE c == Fill(b, v)
  <2>1. /\ c \in Command /\ c.op = "fill" /\ c.dst = b
        /\ Touches(c) = {b} /\ Writes(c) = {b}
        /\ Leaves(buf', c) = v
    BY FillFacts
  <2>2. /\ buf'[b].state = "live" /\ buf'[b].logical = v
        /\ \A d \in Buffers : buf'[d].state = "live" /\ d # b =>
             buf'[d].mem = buf'[d].logical
    BY <1>1, <1>8, CallFacts, AllocatedFacts, AllocatedSettled
  <2>3. host'.pc = "wait" /\ s \in host'.wait
    BY <1>1, <1>8, CallFacts, SynchronizedHost
  <2>4. queue' = Push(queue, s, c)
    BY <1>8
  <2> HIDE DEF c
  <2> QED BY <1>1, <1>2, <1>4, <2>1, <2>2, <2>3, <2>4, CallFacts, Start
<1> QED BY <1>3, <1>5, <1>6, <1>7, <1>8

LEMMA SharedInFlight ==
  ASSUME SyncInv, NEW a \in Arrays, NEW r \in Arrays,
         ConstructShared(a, r) \/ MoveConstruct(a, r)
  PROVE  InFlight'
<1>1. Ready
  BY DEF ConstructShared, MoveConstruct
<1>2. CASE BecomesEmpty(a)
  BY <1>1, <1>2, BecomesEmptyInFlight
<1>3. CASE ~BecomesEmpty(a)
  <2>1. /\ UNCHANGED <<view, buf, queue>>
        /\ host' = host \/ host' = Synchronized({arr[r].stream})
    BY <1>3 DEF ConstructShared, MoveConstruct
  <2>2. ViewsUsable' /\ host'.pc # "read" /\ host'.got = None
    BY <1>1, <2>1, CallFacts, SynchronizedHost DEF ViewsUsable
  <2> QED BY <1>1, <2>1, <2>2, CallFacts, QuietInFlight
<1> QED BY <1>2, <1>3

\* Letting go enqueues a free at most.
LEMMA LetGoInFlight ==
  ASSUME SyncInv, NEW a \in Arrays,
         \/ Destroy(a) \/ Release(a) \/ \E r \in Arrays : MoveAssign(a, r)
  PROVE  InFlight'
<1>1. /\ Acting /\ buf' = Deleted(Last(a)) /\ queue' = FreesQueued(Last(a))
      /\ view' = Expired(Last(a))
      /\ host' = Idle \/ \E S : host' = Synchronized(S)
  BY DEF Destroy, Release, MoveAssign, MayDelete, Acting
<1>2. host'.pc # "read" /\ host'.got = None /\ Last(a) \in SUBSET Buffers
  BY <1>1, SynchronizedHost, LastFacts DEF SyncInv, Idle
<1> QED BY <1>1, <1>2, ActingFacts, SettleDeleted

\* Waiting for the device changes nothing.
LEMMA AwaitDeviceInFlight ==
  ASSUME SyncInv, NEW a \in Arrays, AwaitDevice(a)
  PROVE  InFlight'
<1>1. Ready /\ UNCHANGED <<view, buf, queue>>
  BY DEF AwaitDevice
<1>2. host'.pc # "read" /\ host'.got = None
  BY DEF AwaitDevice, Idle
<1> QED BY <1>1, <1>2, CallFacts, QuietInFlight DEF ViewsUsable

\* A copy reads data its array keeps: what is let go of belonged to another.
LEMMA CopyFromInFlight ==
  ASSUME SyncInv, Acting, NEW a \in Arrays, NEW r \in Arrays, NEW D \in SUBSET Buffers,
         \A b \in D : buf[b].state = "live", arr[r].data \notin D,
         arr[r].size # 0, CopyFrom(a, r, D)
  PROVE  InFlight'
<1> DEFINE s == arr[r].stream
           B == Deleted(D)
           q == FreesQueued(D)
<1>1. /\ view' = Expired(D) /\ host' = Synchronized({s})
      /\ \/ buf' = B /\ queue' = q
         \/ \E b \in FreeBuffers :
              IF arr[r].data = None
              THEN buf' = Allocated(B, b, s, Undef) /\ queue' = q
              ELSE /\ buf' = Allocated(B, b, s, buf[arr[r].data].logical)
                   /\ queue' = Push(q, s, Copy(b, arr[r].data))
  BY DEF CopyFrom
<1>2. s \in Streams /\ s # None
  BY ArrayType DEF SyncInv, IInv, Sized, StreamOrNone
<1>3. /\ host'.pc = "wait" /\ host'.got = None /\ s \in host'.wait
      /\ ViewsUsable'
  BY <1>1, <1>2, ActingFacts, SynchronizedHost, ExpiredUsable
<1>4. /\ B \in [Buffers -> BufType] /\ q \in [Streams -> Seq(Command)]
      /\ NoWork(q) /\ Settled(B)
  BY ActingFacts, DeletedType, FreesQueuedType, FreesNoWork, DeletedSettled
<1>5. CASE buf' = B /\ queue' = q
  BY <1>3, <1>4, <1>5, Settle
<1>6. ASSUME NEW b \in FreeBuffers, buf' = Allocated(B, b, s, Undef), queue' = q
      PROVE  InFlight'
  <2>1. Settled(buf')
    BY <1>4, <1>6, AllocatedSettled DEF FreeBuffers
  <2> QED BY <1>3, <1>4, <1>6, <2>1, Settle
<1>7. ASSUME NEW b \in FreeBuffers, arr[r].data # None,
             buf' = Allocated(B, b, s, buf[arr[r].data].logical),
             queue' = Push(q, s, Copy(b, arr[r].data))
      PROVE  InFlight'
  <2> DEFINE x == arr[r].data
             c == Copy(b, x)
  <2>1. /\ b \in Buffers /\ x \in Buffers /\ buf[x].state = "live" /\ b # x
        /\ B[x] = buf[x] /\ buf[x].mem = buf[x].logical
    BY <1>7, ArrayType, ActingFacts, DeletedFacts
       DEF SyncInv, IInv, Owned, NothingDangles, FreeBuffers, Settled
  <2>2. /\ c \in Command /\ c.op = "copy" /\ c.dst = b
        /\ Touches(c) = {b, x} /\ Writes(c) = {b}
        /\ Leaves(buf', c) = buf'[x].mem
    BY <2>1, CopyFacts
  <2>3. /\ buf'[b].state = "live" /\ buf'[b].logical = buf[x].logical
        /\ buf'[x] = buf[x]
        /\ \A d \in Buffers : buf'[d].state = "live" /\ d # b =>
             buf'[d].mem = buf'[d].logical
    <3> DEFINE l == buf[x].logical
    <3>1. buf' = Allocated(B, b, s, l)
      BY <1>7
    <3> HIDE DEF x, B, s, l, q
    <3>2. /\ buf'[b].state = "live" /\ buf'[b].logical = l
          /\ \A d \in Buffers \ {b} : buf'[d] = B[d]
          /\ \A d \in Buffers : buf'[d].state = "live" /\ d # b =>
               buf'[d].mem = buf'[d].logical
      BY <1>2, <1>4, <2>1, <3>1, AllocatedFacts, AllocatedSettled
    <3> QED BY <2>1, <3>2 DEF l
  <2> HIDE DEF c, x, s, q
  <2>4. queue' = Push(q, s, c)
    BY <1>7 DEF c, x
  <2> QED BY <1>2, <1>3, <1>4, <2>1, <2>2, <2>3, <2>4, Start DEF Writing
<1> QED BY <1>1, <1>5, <1>6, <1>7

LEMMA CopyInFlight ==
  ASSUME SyncInv, NEW a \in Arrays, NEW r \in Arrays,
         CopyConstruct(a, r) \/ CopyAssign(a, r)
  PROVE  InFlight'
<1>1. CASE CopyConstruct(a, r)
  <2>1. Ready /\ Acting
    BY <1>1 DEF CopyConstruct, Acting
  <2>2. CASE BecomesEmpty(a)
    BY <2>1, <2>2, BecomesEmptyInFlight
  <2>3. CASE arr[r].size # 0 /\ CopyFrom(a, r, {})
    BY <2>1, <2>3, NothingDeleted, ActingFacts, CopyFromInFlight
  <2> QED BY <1>1, <2>2, <2>3 DEF CopyConstruct
<1>2. CASE CopyAssign(a, r)
  <2>1. Acting /\ arr[r].size # 0 /\ r \in Arrays \ {a} /\ CopyFrom(a, r, Last(a))
    BY <1>2 DEF CopyAssign, MayDelete, Acting
  <2> QED BY <2>1, LastFacts, CopyFromInFlight DEF SyncInv
<1> QED BY <1>1, <1>2

\* Data that an array refers to is live and holds what is meant to be there.
LEMMA OperandFacts ==
  ASSUME SyncInv, Ready, NEW x \in Arrays, arr[x].data # None
  PROVE  /\ arr[x].data \in Buffers /\ buf[arr[x].data].state = "live"
         /\ buf[arr[x].data].mem = buf[arr[x].data].logical
         /\ arr[x].stream \in Streams
BY ArrayType, CallFacts
   DEF SyncInv, IInv, Owned, NothingDangles, Settled, StreamOrNone

\* A kernel on live operands, for whose stream the host waits.
LEMMA KernelInFlight ==
  ASSUME SyncInv, Ready, NEW b \in Buffers, NEW x \in Arrays, NEW y \in Arrays,
         NEW d \in BufferOrNone, arr[x].data # None, arr[y].data # None,
         queue' = Push(queue, arr[x].stream, Kernel(b, arr[x].data, arr[y].data, d)),
         \A c \in {b, arr[x].data, arr[y].data, d} \ {None} : buf'[c].state = "live",
         \A c \in {arr[x].data, arr[y].data} : buf'[c].mem = buf[c].mem,
         \A c \in Buffers : buf'[c].state = "live" /\ c # b =>
                              buf'[c].mem = buf'[c].logical,
         buf'[b].logical = Result(buf[arr[x].data].logical, buf[arr[y].data].logical),
         host'.pc \notin {"idle", "read"}, host'.got = None,
         arr[x].stream \in host'.wait, view' = view
  PROVE  InFlight'
<1> DEFINE c == Kernel(b, arr[x].data, arr[y].data, d)
<1>1. /\ c \in Command /\ c.op = "kernel" /\ c.dst = b /\ Writes(c) = {b}
      /\ Touches(c) = {b, arr[x].data, arr[y].data, d} \ {None}
      /\ Leaves(buf', c) = Result(buf'[arr[x].data].mem, buf'[arr[y].data].mem)
  BY OperandFacts, KernelFacts
<1>2. Leaves(buf', c) = buf'[b].logical
  BY <1>1, OperandFacts
<1>3. ViewsUsable'
  BY CallFacts DEF ViewsUsable
<1>4. arr[x].stream \in Streams /\ queue' = Push(queue, arr[x].stream, c)
  BY OperandFacts
<1>5. queue \in [Streams -> Seq(Command)] /\ NoWork(queue)
  BY CallFacts
<1> HIDE DEF c
<1> QED BY <1>1, <1>2, <1>3, <1>4, <1>5, Start

LEMMA NewFromInFlight ==
  ASSUME SyncInv, Ready, NEW a \in Arrays, NEW x \in Arrays, NEW y \in Arrays,
         arr[x].data # None, arr[y].data # None, NewFrom(a, x, y, {arr[x].stream})
  PROVE  InFlight'
<1> DEFINE l == Result(buf[arr[x].data].logical, buf[arr[y].data].logical)
<1>1. PICK s \in Streams, b \in FreeBuffers :
        /\ buf' = Allocated(buf, b, s, l) /\ view' = view
        /\ queue' = Push(queue, arr[x].stream,
                         Kernel(b, arr[x].data, arr[y].data, None))
        /\ host' = Synchronized({arr[x].stream} \cup {s})
  BY DEF NewFrom, FreshStreams
<1>2. b \in Buffers /\ buf[b].state = "free" /\ None \in BufferOrNone
  BY DEF FreeBuffers, BufferOrNone
<1>3. b # arr[x].data /\ b # arr[y].data
  BY <1>2, OperandFacts
<1>4. /\ buf'[b].state = "live" /\ buf'[b].logical = l
      /\ \A c \in Buffers \ {b} : buf'[c] = buf[c]
      /\ \A c \in Buffers : buf'[c].state = "live" /\ c # b =>
           buf'[c].mem = buf'[c].logical
  <2>1. buf \in [Buffers -> BufType] /\ Settled(buf)
    BY CallFacts
  <2> HIDE DEF l
  <2>2. /\ s \in Streams /\ b \in Buffers /\ buf' = Allocated(buf, b, s, l)
    BY <1>1, <1>2
  <2> QED BY ONLY <2>1, <2>2, AllocatedFacts, AllocatedSettled, SMTT(20)
<1>5. /\ host'.pc = "wait" /\ host'.got = None
      /\ arr[x].stream \in host'.wait
  BY <1>1, CallFacts, OperandFacts, SynchronizedHost
<1> HIDE DEF l
<1>6. /\ \A c \in {b, arr[x].data, arr[y].data, None} \ {None} : buf'[c].state = "live"
      /\ \A c \in {arr[x].data, arr[y].data} : buf'[c].mem = buf[c].mem
  BY <1>3, <1>4, OperandFacts
<1> QED BY <1>1, <1>2, <1>4, <1>5, <1>6, KernelInFlight DEF l

LEMMA LaunchFailsInFlight ==
  ASSUME SyncInv, Ready, NEW a \in Arrays, LaunchFails(a)
  PROVE  InFlight'
<1>1. PICK s \in Streams, b \in Buffers :
        buf' = Discarded(b, s) /\ queue' = Push(queue, s, Free(b))
  BY DEF LaunchFails, FreshStreams, FreeBuffers
<1>2. view' = view /\ host'.pc # "read" /\ host'.got = None
  BY CallFacts DEF LaunchFails
<1> QED BY <1>1, <1>2, CallFacts, SettleDiscarded

LEMMA OperatorInFlight ==
  ASSUME SyncInv, Waits, NEW a \in Arrays, NEW x \in Arrays, NEW y \in Arrays,
         \/ Unary(a, x) \/ UnaryNoWait(a, x)
         \/ Elementwise(a, x, y) \/ ElementwiseNoWait(a, x, y)
  PROVE  InFlight'
<1>1. Unary(a, x) \/ Elementwise(a, x, y)
  BY DEF Waits, UnaryNoWait, ElementwiseNoWait
<1>2. Ready
  BY <1>1 DEF Unary, Elementwise
<1>3. CASE BecomesEmpty(a)
  BY <1>2, <1>3, BecomesEmptyInFlight
<1>6. CASE LaunchFails(a)
  BY <1>2, <1>6, LaunchFailsInFlight
<1>4. CASE ~NoData(x) /\ NewFrom(a, x, x, {arr[x].stream})
  BY <1>2, <1>4, NewFromInFlight DEF NoData
<1>5. CASE ~Mismatch(x, y) /\ NewFrom(a, x, y, {arr[x].stream})
  BY <1>2, <1>5, NewFromInFlight DEF Mismatch
<1> QED BY <1>1, <1>6, <1>3, <1>4, <1>5 DEF Unary, Elementwise

\* Whatever fails in the product, nothing is computed.
LEMMA MatmulFailsInFlight ==
  ASSUME SyncInv, Ready, NEW a \in Arrays, NEW k \in Streams, MatmulFails(a, k)
  PROVE  InFlight'
<1>1. view' = view /\ ViewsUsable' /\ host'.pc # "read" /\ host'.got = None
  BY CallFacts DEF MatmulFails, Synchronized, Idle, ViewsUsable
<1>2. CASE UNCHANGED <<buf, queue>>
  BY <1>1, <1>2, CallFacts, QuietInFlight
<1>3. ASSUME NEW d \in Buffers, buf' = Discarded(d, k), queue' = Push(queue, k, Free(d))
      PROVE  InFlight'
  BY <1>1, <1>3, CallFacts, SettleDiscarded
<1>4. ASSUME NEW d \in Buffers, queue' = queue, buf' = Allocated(buf, d, k, Undef)
      PROVE  InFlight'
  BY <1>1, <1>4, CallFacts, AllocatedSettled, QuietInFlight
<1>5. ASSUME NEW d \in Buffers, NEW b \in Buffers, queue' = queue,
             buf' = Allocated(Allocated(buf, d, k, Undef), b, k, Undef)
      PROVE  InFlight'
  <2> DEFINE B == Allocated(buf, d, k, Undef)
  <2>1. k \in StreamOrNone /\ Undef \in Content
    BY DEF StreamOrNone, Content
  <2>2. B \in [Buffers -> BufType] /\ Settled(B)
    BY <2>1, CallFacts, AllocatedType, AllocatedSettled
  <2> HIDE DEF B
  <2>3. buf' = Allocated(B, b, k, Undef)
    BY <1>5 DEF B
  <2>4. Settled(buf')
    BY <2>2, <2>3, AllocatedSettled
  <2> QED BY <1>1, <1>5, <2>4, QuietInFlight
<1> QED BY <1>2, <1>3, <1>4, <1>5 DEF MatmulFails, FreeBuffers

LEMMA MatmulInFlight ==
  ASSUME SyncInv, NEW a \in Arrays, NEW x \in Arrays, NEW y \in Arrays,
         Matmul(a, x, y)
  PROVE  InFlight'
<1> DEFINE k == arr[x].stream
           l == Result(buf[arr[x].data].logical, buf[arr[y].data].logical)
<1>0. Ready
  BY DEF Matmul
<1>1. CASE BecomesEmpty(a)
  BY <1>0, <1>1, BecomesEmptyInFlight
<1>2. CASE ~Mismatch(x, y) /\ MatmulFails(a, k)
  <2>1. k \in Streams
    BY <1>0, <1>2, OperandFacts DEF Mismatch
  <2> HIDE DEF k
  <2> QED BY <1>0, <1>2, <2>1, MatmulFailsInFlight
<1>3. ASSUME NEW b \in FreeBuffers, NEW d \in FreeBuffers, b # d, ~Mismatch(x, y),
             buf' = Allocated(Allocated(buf, d, k, Undef), b, k, l),
             queue' = Push(queue, k, Kernel(b, arr[x].data, arr[y].data, d)),
             host' = [Synchronized({k}) EXCEPT !.pc = "matmul", !.buf = d],
             view' = view
      PROVE  InFlight'
  <2> DEFINE B == Allocated(buf, d, k, Undef)
  <2>0. arr[x].data # None /\ arr[y].data # None
    BY <1>3 DEF Mismatch
  <2>1. /\ b \in Buffers /\ buf[b].state = "free"
        /\ d \in Buffers /\ buf[d].state = "free" /\ d \in BufferOrNone
    BY DEF FreeBuffers, BufferOrNone
  <2>2. arr[x].data \notin {b, d} /\ arr[y].data \notin {b, d} /\ k \in Streams
    BY <1>0, <2>0, <2>1, OperandFacts
  <2>3. /\ B \in [Buffers -> BufType] /\ Settled(B) /\ B[d].state = "live"
        /\ \A c \in Buffers \ {d} : B[c] = buf[c]
    <3>1. k \in StreamOrNone /\ Undef \in Content
      BY <2>2 DEF StreamOrNone, Content
    <3> QED BY <1>0, <2>1, <2>2, <3>1, CallFacts, AllocatedType, AllocatedFacts,
               AllocatedSettled
  <2>4. /\ buf'[b].state = "live" /\ buf'[b].logical = l
        /\ \A c \in Buffers \ {b} : buf'[c] = B[c]
        /\ \A c \in Buffers : buf'[c].state = "live" /\ c # b =>
             buf'[c].mem = buf'[c].logical
    <3> HIDE DEF B
    <3>1. buf' = Allocated(B, b, k, l)
      BY <1>3 DEF B
    <3> HIDE DEF k, l
    <3>2. \A c \in Buffers : c # b => c \in Buffers \ {b}
      OBVIOUS
    <3> QED BY ONLY <2>1, <2>2, <2>3, <3>1, <3>2, AllocatedFacts, AllocatedSettled, SMTT(20)
  <2>5. /\ host'.pc = "matmul" /\ host'.got = None /\ k \in host'.wait
    BY <1>0, <1>3, <2>2, CallFacts DEF Synchronized, Idle
  <2>6. /\ \A c \in {b, arr[x].data, arr[y].data, d} \ {None} : buf'[c].state = "live"
        /\ \A c \in {arr[x].data, arr[y].data} : buf'[c].mem = buf[c].mem
    <3>1. /\ arr[x].data \in Buffers /\ buf[arr[x].data].state = "live"
          /\ arr[y].data \in Buffers /\ buf[arr[y].data].state = "live"
      BY <1>0, <2>0, OperandFacts
    <3> HIDE DEF B, k, l
    <3>2. /\ buf'[arr[x].data] = buf[arr[x].data]
          /\ buf'[arr[y].data] = buf[arr[y].data] /\ buf'[d].state = "live"
      BY ONLY <1>3, <2>1, <2>2, <2>3, <2>4, <3>1
    <3> QED BY ONLY <2>4, <3>1, <3>2
  <2>7. /\ queue' = Push(queue, arr[x].stream, Kernel(b, arr[x].data, arr[y].data, d))
        /\ host'.pc \notin {"idle", "read"} /\ host'.got = None
        /\ arr[x].stream \in host'.wait /\ view' = view
        /\ buf'[b].logical = Result(buf[arr[x].data].logical, buf[arr[y].data].logical)
    BY <1>3, <2>4, <2>5
  <2> HIDE DEF B, k, l
  <2> QED BY ONLY SyncInv, x \in Arrays, y \in Arrays, <1>0, <2>0, <2>1, <2>4, <2>6, <2>7,
             KernelInFlight
<1> QED BY <1>1, <1>2, <1>3 DEF Matmul

LEMMA InPlaceInFlight ==
  ASSUME SyncInv, Waits, NEW x \in Arrays, NEW y \in Arrays,
         InPlace(x, y) \/ InPlaceNoWait(x, y)
  PROVE  InFlight'
<1>1. /\ Ready /\ arr[x].data # None /\ arr[y].data # None
      /\ InPlaceFrom(x, y) \/ UNCHANGED <<buf, queue>>
      /\ host' = Synchronized({arr[x].stream}) /\ view' = view
  BY DEF Waits, InPlace, InPlaceNoWait, Mismatch
<1>2. /\ arr[x].data \in Buffers /\ arr[y].data \in Buffers
      /\ host'.pc = "wait" /\ host'.got = None /\ arr[x].stream \in host'.wait
  BY <1>1, CallFacts, OperandFacts, SynchronizedHost
<1>3. CASE UNCHANGED <<buf, queue>>
  <2>1. ViewsUsable'
    BY <1>1, CallFacts DEF ViewsUsable
  <2> QED BY <1>1, <1>2, <1>3, <2>1, CallFacts, QuietInFlight
<1>4. CASE InPlaceFrom(x, y)
  <2> DEFINE b == arr[x].data
  <2>1. /\ queue' = Push(queue, arr[x].stream, Kernel(b, b, arr[y].data, None))
        /\ buf' = [buf EXCEPT ![b].logical = Result(buf[b].logical,
                                                   buf[arr[y].data].logical)]
    BY <1>4 DEF InPlaceFrom
  <2>2. /\ \A c \in Buffers : /\ buf'[c].state = buf[c].state
                              /\ buf'[c].mem = buf[c].mem
                              /\ c # b => buf'[c].logical = buf[c].logical
        /\ buf'[b].logical = Result(buf[b].logical, buf[arr[y].data].logical)
    BY <1>1, <1>2, <2>1, CallFacts DEF BufType
  <2>a. b \in Buffers /\ buf[b].state = "live" /\ buf[arr[y].data].state = "live"
    BY <1>1, OperandFacts
  <2>b. Settled(buf)
    BY <1>1, CallFacts
  <2> HIDE DEF b
  <2>c. arr[y].data \in Buffers
    BY <1>2
  <2>d. /\ \A c \in {b, b, arr[y].data, None} \ {None} : buf'[c].state = "live"
        /\ \A c \in {b, arr[y].data} : buf'[c].mem = buf[c].mem
    BY <2>2, <2>a, <2>c
  <2>3. \A c \in Buffers : buf'[c].state = "live" /\ c # b =>
          buf'[c].mem = buf'[c].logical
    BY <2>2, <2>b DEF Settled
  <2>4. None \in BufferOrNone
    BY DEF BufferOrNone
  <2>5. host'.pc \notin {"idle", "read"}
    BY <1>2
  <2>6. /\ Ready /\ arr[x].data \in Buffers /\ arr[x].data # None /\ arr[y].data # None
        /\ host'.got = None /\ arr[x].stream \in host'.wait /\ view' = view
    BY <1>1, <1>2
  <2>7. /\ queue' = Push(queue, arr[x].stream,
                         Kernel(arr[x].data, arr[x].data, arr[y].data, None))
        /\ \A c \in {arr[x].data, arr[x].data, arr[y].data, None} \ {None} :
             buf'[c].state = "live"
        /\ \A c \in {arr[x].data, arr[y].data} : buf'[c].mem = buf[c].mem
        /\ \A c \in Buffers : buf'[c].state = "live" /\ c # arr[x].data =>
             buf'[c].mem = buf'[c].logical
        /\ buf'[arr[x].data].logical =
             Result(buf[arr[x].data].logical, buf[arr[y].data].logical)
    BY <2>1, <2>2, <2>d, <2>3 DEF b
  <2> QED BY ONLY SyncInv, x \in Arrays, y \in Arrays, <2>4, <2>5, <2>6, <2>7,
             KernelInFlight
<1> QED BY <1>1, <1>3, <1>4

LEMMA FetchInFlight ==
  ASSUME SyncInv, Ready, NEW b \in Buffers, NEW s \in Streams,
         buf[b].state = "live", Fetching(b, s), UNCHANGED <<view, buf>>
  PROVE  InFlight'
<1> DEFINE c == Fetch(b)
<1>1. /\ c \in Command /\ c.op = "fetch" /\ c.x = b
      /\ Touches(c) = {b} /\ Writes(c) = {}
  BY FetchFacts
<1>2. /\ queue' = Push(queue, s, c) /\ host'.pc = "read" /\ host'.buf = b
      /\ host'.got = None /\ s \in host'.wait
  BY CallFacts DEF Fetching, Synchronized, Idle
<1>3. ViewsUsable' /\ Settled(buf')
  BY CallFacts DEF ViewsUsable
<1> HIDE DEF c
<1> QED BY <1>1, <1>2, <1>3, CallFacts, Start DEF Settled, Writing

LEMMA ViewSetInFlight ==
  ASSUME SyncInv, NEW v \in Views, NEW x \in Values, ViewSet(v, x)
  PROVE  InFlight'
<1> DEFINE b == view[v].data
           s == view[v].stream
           c == Fill(b, x)
<1>1. /\ Ready /\ b # None /\ buf' = [buf EXCEPT ![b].logical = x]
      /\ queue' = Push(queue, s, c) /\ host' = Synchronized({s}) /\ view' = view
  BY DEF ViewSet
<1>2. /\ b \in Buffers /\ buf[b].state = "live" /\ s \in Streams
  BY <1>1, CallFacts DEF SyncInv, IInv, Owned, NothingDangles, ViewsUsable, ViewType,
                         BufferOrNone, StreamOrNone
<1>3. /\ c \in Command /\ c.op = "fill" /\ c.dst = b
      /\ Touches(c) = {b} /\ Writes(c) = {b} /\ Leaves(buf', c) = x
  BY <1>2, FillFacts
<1>4. /\ \A d \in Buffers : /\ buf'[d].state = buf[d].state
                            /\ buf'[d].mem = buf[d].mem
                            /\ d # b => buf'[d].logical = buf[d].logical
      /\ buf'[b].logical = x
  BY <1>1, <1>2, CallFacts DEF BufType
<1>5. /\ host'.pc = "wait" /\ host'.got = None /\ s \in host'.wait
      /\ ViewsUsable'
  BY <1>1, <1>2, CallFacts, SynchronizedHost DEF ViewsUsable
<1>6. NoWork(queue) /\ queue \in [Streams -> Seq(Command)] /\ Settled(buf)
  BY <1>1, CallFacts
<1> HIDE DEF b, c, s
<1>7. \A d \in Buffers : buf'[d].state = "live" /\ d \notin Writes(c) =>
                           buf'[d].mem = buf'[d].logical
  BY <1>3, <1>4, <1>6 DEF Settled
<1> QED BY <1>1, <1>2, <1>3, <1>4, <1>5, <1>6, <1>7, Start

LEMMA AccessInFlight ==
  ASSUME SyncInv, Access
  PROVE  InFlight'
<1>1. ASSUME NEW a \in Arrays, Synchronize(a) PROVE InFlight'
  <2>1. /\ Ready /\ UNCHANGED <<view, buf, queue>> /\ host'.pc # "read"
        /\ host'.got = None
    BY <1>1, SynchronizedHost DEF Synchronize
  <2> QED BY <2>1, CallFacts, QuietInFlight DEF ViewsUsable
<1>2. ASSUME NEW a \in Arrays, Read(a) PROVE InFlight'
  <2>1. Ready /\ arr[a].data # None
    BY <1>2 DEF Read
  <2> QED BY <1>2, <2>1, OperandFacts, FetchInFlight DEF Read
<1>3. ASSUME NEW v \in Views, ViewGet(v) PROVE InFlight'
  <2>1. Ready /\ view[v].data # None
    BY <1>3 DEF ViewGet
  <2>2. /\ view[v].data \in Buffers /\ buf[view[v].data].state = "live"
        /\ view[v].stream \in Streams
    BY <2>1, CallFacts DEF SyncInv, IInv, Owned, NothingDangles, ViewsUsable, ViewType,
                           BufferOrNone, StreamOrNone
  <2> QED BY <1>3, <2>1, <2>2, FetchInFlight DEF ViewGet
<1>4. ASSUME NEW v \in Views, DropView(v) \/ \E a \in Arrays : MakeView(v, a)
      PROVE  InFlight'
  <2>1. /\ Ready /\ UNCHANGED <<buf, queue, host>>
        /\ \/ view' = [view EXCEPT ![v] = NoView]
           \/ \E s \in Streams : \E d :
                view' = [view EXCEPT ![v] = [data |-> d, stream |-> s]]
    BY <1>4 DEF DropView, MakeView, FreshStreams
  <2>2. ViewsUsable'
    BY <2>1, CallFacts DEF ViewsUsable, NoView
  <2> QED BY <2>1, <2>2, CallFacts, QuietInFlight
<1> QED BY <1>1, <1>2, <1>3, <1>4, ViewSetInFlight DEF Access

\* What the host does once its streams are empty.
LEMMA HostReturnInFlight ==
  ASSUME SyncInv, MatmulCleanup \/ Abandon \/ Return
  PROVE  InFlight'
<1>1. \A s \in host.wait : queue[s] = <<>>
  BY DEF MatmulCleanup, Abandon, Return
<1>2. /\ NoWork(queue) /\ Settled(buf) /\ TypeOK /\ ViewsUsable
  BY <1>1, WaitedFacts DEF SyncInv, IInv, InFlight
<1>3. CASE MatmulCleanup \/ Abandon
  <2>1. /\ {host.buf} \in SUBSET Buffers /\ buf' = Deleted({host.buf})
        /\ queue' = FreesQueued({host.buf}) /\ view' = view
    BY <1>2, <1>3 DEF MatmulCleanup, Abandon, TypeOK
  <2>2. host'.pc # "read" /\ host'.got = None
    <3>1. CASE MatmulCleanup /\ host.result = None
      BY <3>1, SynchronizedHost DEF MatmulCleanup
    <3>2. CASE MatmulCleanup /\ host.result # None
      BY <3>2 DEF MatmulCleanup, Synchronized, Idle
    <3>3. CASE Abandon
      BY <3>3 DEF Abandon, Idle
    <3> QED BY <1>3, <3>1, <3>2, <3>3
  <2>3. NoWork(queue') /\ Settled(buf') /\ ViewsUsable'
    BY <1>2, <2>1, FreesNoWork, DeletedSettled DEF TypeOK, ViewsUsable
  <2> QED BY <2>2, <2>3, Settle
<1>4. CASE Return
  BY <1>2, <1>4, Settle DEF Return, Idle, ViewsUsable
<1> QED BY <1>3, <1>4
-----------------------------------------------------------------------------
(* The device.                                                             *)

\* The memory a command uses is an allocation.
LEMMA TouchesBuffers ==
  ASSUME NEW c \in Command
  PROVE  /\ c.op = "kernel" => c.dst \in Touches(c) /\ c.x \in Touches(c) /\ c.y \in Touches(c)
         /\ c.op = "copy" => c.dst \in Touches(c) /\ c.x \in Touches(c)
         /\ c.op = "fill" => c.dst \in Touches(c)
         /\ c.op = "fetch" => c.x \in Touches(c)
         /\ c.op = "free" => Touches(c) = {c.dst}
         /\ Touches(c) \subseteq Buffers
<1>1. c.op = "kernel" => /\ Writes(c) = {c.dst} /\ Reads(c) = {c.x, c.y, c.aux} \ {None}
                         /\ {c.dst, c.x, c.y} \subseteq Buffers
                         /\ c.aux \in Buffers \cup {None} /\ None \notin Buffers
  BY NdArrayAssumption DEF Command, Writes, Reads, BufferOrNone
<1>2. c.op = "copy" => /\ Writes(c) = {c.dst} /\ Reads(c) = {c.x}
                       /\ {c.dst, c.x} \subseteq Buffers
  BY DEF Command, Writes, Reads
<1>3. c.op = "fill" => Writes(c) = {c.dst} /\ Reads(c) = {} /\ c.dst \in Buffers
  BY DEF Command, Writes, Reads
<1>4. c.op = "fetch" => Writes(c) = {} /\ Reads(c) = {c.x} /\ c.x \in Buffers
  BY DEF Command, Writes, Reads
<1>5. c.op = "free" => Writes(c) = {c.dst} /\ Reads(c) = {} /\ c.dst \in Buffers
  BY DEF Command, Writes, Reads
<1>6. c.op \in {"kernel", "copy", "fill", "fetch", "free"}
  BY DEF Command
<1> QED BY <1>1, <1>2, <1>3, <1>4, <1>5, <1>6 DEF Touches

\* A free that executes frees what nothing in flight uses.
LEMMA ExecuteFree ==
  ASSUME SyncInv, NEW s \in Streams, Execute(s), Head(queue[s]).op = "free"
  PROVE  InFlight'
<1> DEFINE c == Head(queue[s])
<1>1. /\ queue \in [Streams -> Seq(Command)] /\ queue[s] # <<>>
      /\ queue' = [queue EXCEPT ![s] = Tail(@)] /\ view' = view
      /\ buf \in [Buffers -> BufType]
  BY DEF Execute, SyncInv, IInv, TypeOK
<1>2. /\ c \in Command /\ 1 \in DOMAIN queue[s] /\ queue[s][1] = c
      /\ \A t \in Streams : \A i \in DOMAIN queue'[t] :
           LET k == IF t = s THEN i + 1 ELSE i
           IN  /\ k \in DOMAIN queue[t] /\ queue'[t][i] = queue[t][k]
               /\ i \in Nat /\ i >= 1
      /\ \A t \in Streams : \A k \in DOMAIN queue[t] :
           \/ t = s /\ k = 1
           \/ LET i == IF t = s THEN k - 1 ELSE k
              IN  i \in DOMAIN queue'[t] /\ queue'[t][i] = queue[t][k]
  BY <1>1, Popped
<1>3. buf' = [buf EXCEPT ![c.dst] = Unused] /\ host' = host
  BY DEF Execute, Apply
<1>4. c.dst \in Buffers /\ buf[c.dst].state = "freeing"
  BY <1>2 DEF SyncInv, IInv, FreedOnce, Once, Command
<1>5. /\ buf'[c.dst].state = "free"
      /\ \A b \in Buffers : buf[b].state = "live" => buf'[b] = buf[b]
      /\ \A b \in Buffers : buf'[b].state = "live" => buf'[b] = buf[b]
  BY <1>1, <1>3, <1>4 DEF Unused
<1>6. Head(queue[s]).op = "free"
  OBVIOUS
<1>0. queue[s][1].op = "free"
  BY <1>2, <1>6
<1> HIDE DEF c
\* A command that is left was there before.
<1>7. ASSUME NEW t \in Streams, NEW i \in DOMAIN queue'[t]
      PROVE  \E k \in DOMAIN queue[t] : queue'[t][i] = queue[t][k]
  BY <1>2
<1>8. ASSUME NEW t \in Streams, NEW i \in DOMAIN queue'[t], queue'[t][i].op # "free"
      PROVE  /\ queue'[t][i] \in Command
             /\ \A b \in Touches(queue'[t][i]) :
                  b \in Buffers /\ buf[b].state = "live" /\ buf'[b] = buf[b]
  <2>1. PICK k \in DOMAIN queue[t] : queue'[t][i] = queue[t][k]
    BY <1>7
  <2>2. queue[t][k] \in Command
    BY <1>1, ElementOfSeq
  <2> QED BY <1>5, <1>8, <2>1, <2>2, TouchesBuffers DEF SyncInv, InFlight, OnLive
<1>9. Waited'
  BY <1>3, <1>7 DEF SyncInv, InFlight, Waited, Ready
<1>10. OneAtATime'
  <2> SUFFICES ASSUME NEW t \in Streams, NEW u \in Streams, NEW i \in DOMAIN queue'[t],
                      NEW j \in DOMAIN queue'[u],
                      queue'[t][i].op # "free", queue'[u][j].op # "free"
               PROVE  t = u /\ i = j
    BY DEF OneAtATime
  <2> DEFINE k == IF t = s THEN i + 1 ELSE i
             l == IF u = s THEN j + 1 ELSE j
  <2>1. /\ k \in DOMAIN queue[t] /\ queue'[t][i] = queue[t][k] /\ i \in Nat
        /\ l \in DOMAIN queue[u] /\ queue'[u][j] = queue[u][l] /\ j \in Nat
    BY <1>2
  <2> HIDE DEF k, l
  <2>2. t = u /\ k = l
    BY <2>1 DEF SyncInv, InFlight, OneAtATime
  <2> QED BY <2>1, <2>2 DEF k, l
<1>11. OnLive'
  BY <1>8 DEF OnLive
<1>12. Meant'
  <2> SUFFICES ASSUME NEW t \in Streams, NEW i \in DOMAIN queue'[t],
                      queue'[t][i].op \in Writing
               PROVE  Leaves(buf', queue'[t][i]) = buf'[queue'[t][i].dst].logical
    BY DEF Meant
  <2> DEFINE d == queue'[t][i]
  <2>1. PICK k \in DOMAIN queue[t] : d = queue[t][k]
    BY <1>7
  <2>2. d \in Command /\ \A b \in Touches(d) : buf'[b] = buf[b]
    BY <1>8 DEF Writing
  <2>3. d.op \in Writing /\ Leaves(buf, d) = buf[d.dst].logical
    BY <2>1 DEF SyncInv, InFlight, Meant
  <2> HIDE DEF d
  <2>4. buf'[d.dst] = buf[d.dst] /\ Leaves(buf', d) = Leaves(buf, d)
    BY <2>2, <2>3, TouchesBuffers DEF Writing, Leaves
  <2> QED BY <2>3, <2>4 DEF d
<1>13. Accounted'
  <2> SUFFICES ASSUME NEW b \in Buffers, buf'[b].state = "live",
                      buf'[b].mem # buf'[b].logical
               PROVE  \E t \in Streams : \E i \in DOMAIN queue'[t] :
                        queue'[t][i].op \in Writing /\ queue'[t][i].dst = b
    BY DEF Accounted
  <2>0. PICK t \in Streams : \E k \in DOMAIN queue[t] :
          queue[t][k].op \in Writing /\ queue[t][k].dst = b
    BY <1>5 DEF SyncInv, InFlight, Accounted
  <2>1. PICK k \in DOMAIN queue[t] :
          queue[t][k].op \in Writing /\ queue[t][k].dst = b
    BY <2>0
  <2>2. ~(t = s /\ k = 1)
    BY <1>0, <2>1 DEF Writing
  <2> QED BY <1>2, <2>1, <2>2
<1>14. Reading'
  <2>1. host.got # None => host.buf \in Buffers /\ buf[host.buf].state = "live"
    BY DEF SyncInv, InFlight, Reading
  <2>2. host.pc = "read" => host.buf \in Buffers /\ buf'[host.buf] = buf[host.buf]
    BY <1>5 DEF SyncInv, InFlight, Reading
  <2> QED BY <1>3, <1>7, <2>2 DEF SyncInv, InFlight, Reading
<1>15. ViewsUsable'
  BY <1>1 DEF SyncInv, InFlight, ViewsUsable
<1> QED BY <1>9, <1>10, <1>11, <1>12, <1>13, <1>14, <1>15 DEF InFlight

\* The one command that does more leaves what the program means.
LEMMA ExecuteWork ==
  ASSUME SyncInv, NEW s \in Streams, Execute(s), Head(queue[s]).op # "free"
  PROVE  InFlight'
<1> DEFINE c == Head(queue[s])
<1>1. /\ queue \in [Streams -> Seq(Command)] /\ queue[s] # <<>>
      /\ queue' = [queue EXCEPT ![s] = Tail(@)] /\ view' = view
      /\ buf \in [Buffers -> BufType] /\ Apply(c)
  BY DEF Execute, SyncInv, IInv, TypeOK
<1>2. /\ c \in Command /\ 1 \in DOMAIN queue[s] /\ queue[s][1] = c
      /\ \A t \in Streams : \A i \in DOMAIN queue'[t] :
           LET k == IF t = s THEN i + 1 ELSE i
           IN  /\ k \in DOMAIN queue[t] /\ queue'[t][i] = queue[t][k]
               /\ i \in Nat /\ i >= 1
  BY <1>1, Popped
<1>3. \A t \in Streams : \A k \in DOMAIN queue[t] :
        queue[t][k].op # "free" => t = s /\ k = 1
  BY <1>2 DEF SyncInv, InFlight, OneAtATime
<1>4. NoWork(queue')
  <2> SUFFICES ASSUME NEW t \in Streams, NEW i \in DOMAIN queue'[t],
                      queue'[t][i].op # "free"
               PROVE  FALSE
    BY DEF NoWork
  <2> DEFINE k == IF t = s THEN i + 1 ELSE i
  <2>1. k \in DOMAIN queue[t] /\ queue'[t][i] = queue[t][k] /\ i \in Nat /\ i >= 1
    BY <1>2
  <2> HIDE DEF k
  <2>2. t = s /\ k = 1
    BY <1>3, <2>1
  <2> QED BY <2>1, <2>2 DEF k
<1>5. ViewsUsable'
  BY <1>1 DEF SyncInv, InFlight, ViewsUsable
<1> HIDE DEF c
<1>6. CASE c.op \in Writing
  <2>1. /\ buf' = [buf EXCEPT ![c.dst].mem = Leaves(buf, c)] /\ host' = host
    BY <1>1, <1>6 DEF Apply, Leaves, Writing
  <2>2. c.dst \in Buffers /\ Leaves(buf, c) = buf[c.dst].logical
    BY <1>2, <1>6 DEF SyncInv, InFlight, Meant, Writing, Command
  <2>3. /\ \A b \in Buffers : /\ buf'[b].state = buf[b].state
                              /\ buf'[b].logical = buf[b].logical
                              /\ b # c.dst => buf'[b].mem = buf[b].mem
        /\ buf'[c.dst].mem = Leaves(buf, c)
    BY <1>1, <2>1, <2>2 DEF BufType
  <2>4. \A b \in Buffers : buf[b].state = "live" /\ b # c.dst =>
          buf[b].mem = buf[b].logical
    BY <1>2, <1>3 DEF SyncInv, InFlight, Accounted, Writing
  <2>5. Settled(buf')
    BY <2>2, <2>3, <2>4 DEF Settled
  <2>6. Waited' /\ OneAtATime' /\ OnLive' /\ Meant' /\ Accounted'
    BY <1>4, <2>5
       DEF NoWork, Settled, Waited, OneAtATime, OnLive, Meant, Accounted, Writing
  <2>7. Reading'
    BY <1>4, <2>1, <2>3 DEF NoWork, SyncInv, InFlight, Reading
  <2> QED BY <1>5, <2>6, <2>7 DEF InFlight
<1>7. CASE c.op = "fetch"
  <2>1. buf' = buf /\ host' = [host EXCEPT !.got = buf[c.x].mem]
    BY <1>1, <1>7 DEF Apply
  <2>2. Settled(buf)
    BY <1>2, <1>3, <1>7 DEF SyncInv, InFlight, Accounted, Writing, Settled
  <2>3. /\ host.pc = "read" /\ host.buf = c.x /\ c.x \in Buffers
        /\ buf[c.x].state = "live"
    BY <1>2, <1>7 DEF SyncInv, InFlight, Reading
  <2>4. host \in HostType
    BY DEF SyncInv, IInv, TypeOK
  <2>5. /\ host'.pc = "read" /\ host'.buf = c.x /\ host'.got = buf[c.x].logical
    BY <2>1, <2>2, <2>3, <2>4 DEF Settled, HostType
  <2>6. Waited' /\ OneAtATime' /\ OnLive' /\ Meant' /\ Accounted'
    BY <1>4, <2>1, <2>2
       DEF NoWork, Settled, Waited, OneAtATime, OnLive, Meant, Accounted, Writing
  <2>7. Reading'
    BY <1>4, <2>1, <2>3, <2>5 DEF NoWork, Reading
  <2> QED BY <1>5, <2>6, <2>7 DEF InFlight
<1>8. c.op \in Writing \/ c.op = "fetch"
  <2>1. c.op # "free"
    BY DEF c
  <2> QED BY <1>2, <2>1 DEF Command, Writing
<1> QED BY <1>6, <1>7, <1>8
-----------------------------------------------------------------------------
(* The invariant and what follows from it.                                 *)

LEMMA InitInFlight == Init => InFlight
BY DEF Init, InFlight, Waited, OneAtATime, OnLive, Meant, Accounted, Reading,
       ViewsUsable, Unused, NoView, Idle

LEMMA InFlightNext ==
  ASSUME Waits, SyncInv, [Next]_vars
  PROVE  InFlight'
<1>1. CASE Lifetime
  <2>1. ASSUME NEW a \in Arrays, DefaultConstruct(a) PROVE InFlight'
    BY <2>1, BecomesEmptyInFlight DEF DefaultConstruct
  <2> QED BY <1>1, <2>1, ConstructInFlight, SharedInFlight, LetGoInFlight,
             AwaitDeviceInFlight, CopyInFlight DEF Lifetime
<1>2. CASE Compute
  BY <1>2, InPlaceInFlight, OperatorInFlight, MatmulInFlight DEF Compute
<1>3. CASE Access
  BY <1>3, AccessInFlight
<1>4. CASE MatmulCleanup \/ Abandon \/ Return \/ \E s \in Streams : Execute(s)
  BY <1>4, HostReturnInFlight, ExecuteFree, ExecuteWork
<1>5. CASE UNCHANGED vars
  BY <1>5 DEF vars, SyncInv, InFlight, Waited, OneAtATime, OnLive, Meant, Accounted,
              Reading, ViewsUsable, Ready
<1> QED BY <1>1, <1>2, <1>3, <1>4, <1>5 DEF Next

\* The inductive invariant holds in every program whose operations wait.
THEOREM SyncInvariance ==
  ASSUME Waits
  PROVE  Spec => []SyncInv
<1>1. Init => SyncInv
  BY InitType, InitOwned, InitInFlight DEF IInv, SyncInv
<1>2. SyncInv /\ [Next]_vars => SyncInv'
  BY NextType, OwnedNext, SizedStep, InFlightNext DEF IInv, SyncInv
<1> QED BY <1>1, <1>2, PTL DEF Spec

\* What separates two commands of different streams.
LEMMA RaceFreeHolds == SyncInv => RaceFree
<1> SUFFICES ASSUME SyncInv, NEW s \in Streams, NEW t \in Streams, s # t,
                    NEW c \in Pending(s), NEW d \in Pending(t)
             PROVE  Writes(c) \cap Touches(d) = {}
  BY DEF RaceFree
<1>1. PICK i \in DOMAIN queue[s] : c = queue[s][i]
  BY DEF Pending
<1>2. PICK j \in DOMAIN queue[t] : d = queue[t][j]
  BY DEF Pending
<1>3. c \in Command /\ d \in Command
  BY <1>1, <1>2, ElementOfSeq DEF SyncInv, IInv, TypeOK
<1>4. c.op = "free" => buf[c.dst].state = "freeing"
  BY <1>1 DEF SyncInv, IInv, FreedOnce, Once
<1>5. d.op = "free" => buf[d.dst].state = "freeing"
  BY <1>2 DEF SyncInv, IInv, FreedOnce, Once
<1>6. c.op # "free" => \A b \in Touches(c) : buf[b].state = "live"
  BY <1>1 DEF SyncInv, InFlight, OnLive
<1>7. d.op # "free" => \A b \in Touches(d) : buf[b].state = "live"
  BY <1>2 DEF SyncInv, InFlight, OnLive
<1>8. CASE c.op # "free" /\ d.op # "free"
  BY <1>1, <1>2, <1>8 DEF SyncInv, InFlight, OneAtATime
<1>9. CASE c.op = "free" /\ d.op # "free"
  <2>1. Writes(c) \subseteq Touches(c) /\ Touches(c) = {c.dst}
    BY <1>3, <1>9, TouchesBuffers DEF Touches
  <2> QED BY <1>4, <1>7, <1>9, <2>1
<1>10. CASE c.op # "free" /\ d.op = "free"
  <2>1. Writes(c) \subseteq Touches(c) /\ Touches(d) = {d.dst}
    BY <1>3, <1>10, TouchesBuffers DEF Touches
  <2> QED BY <1>5, <1>6, <1>10, <2>1
<1>11. CASE c.op = "free" /\ d.op = "free"
  <2>1. Writes(c) \subseteq {c.dst} /\ Touches(d) = {d.dst}
    BY <1>3, <1>11, TouchesBuffers DEF Touches
  <2>2. c # d
    BY <1>1, <1>2, <1>11 DEF SyncInv, IInv, FreedOnce, Once
  <2>3. c.dst # d.dst
    BY <1>3, <1>11, <2>2 DEF Command
  <2> QED BY <2>1, <2>3
<1> QED BY <1>8, <1>9, <1>10, <1>11

LEMMA NoUseAfterFreeHolds == SyncInv => NoUseAfterFree
<1> SUFFICES ASSUME SyncInv, NEW s \in Streams, NEW c \in Pending(s), NEW b \in Touches(c)
             PROVE  buf[b].state # "free"
  BY DEF NoUseAfterFree
<1>1. PICK i \in DOMAIN queue[s] : c = queue[s][i]
  BY DEF Pending
<1>2. c \in Command
  BY <1>1, ElementOfSeq DEF SyncInv, IInv, TypeOK
<1>3. CASE c.op = "free"
  BY <1>1, <1>2, <1>3, TouchesBuffers DEF SyncInv, IInv, FreedOnce, Once
<1>4. CASE c.op # "free"
  BY <1>1, <1>4 DEF SyncInv, InFlight, OnLive
<1> QED BY <1>3, <1>4

\* No kernel, copy, fetch or free ever runs at the same time as one that uses
\* what it writes, whatever the streams and however many.
THEOREM RaceFreedom ==
  ASSUME Waits
  PROVE  Spec => []RaceFree
BY SyncInvariance, RaceFreeHolds, PTL

\* Nothing the device executes uses memory that was returned to the allocator.
THEOREM UsesLiveMemory ==
  ASSUME Waits
  PROVE  Spec => []NoUseAfterFree
BY SyncInvariance, NoUseAfterFreeHolds, PTL

\* Between calls every allocation holds what the program means it to.
THEOREM Coherence ==
  ASSUME Waits
  PROVE  Spec => []Coherent
<1>1. SyncInv => Coherent
  BY ReadyFacts DEF SyncInv, Coherent, Settled, Acting
<1> QED BY <1>1, SyncInvariance, PTL

\* to_host, data(), operator() and the views return what program order says.
THEOREM ReadsInProgramOrder ==
  ASSUME Waits
  PROVE  Spec => []HostReadsProgramOrder
<1>1. SyncInv => HostReadsProgramOrder
  BY DEF SyncInv, InFlight, Reading, HostReadsProgramOrder
<1> QED BY <1>1, SyncInvariance, PTL
=============================================================================
