----------------------- MODULE NdArrayRefinementProof -----------------------
(***************************************************************************)
(* With the device hidden, the arrays of a program whose operations wait    *)
(* are the plain values of ArrayValues: proof of the refinement.            *)
(***************************************************************************)
EXTENDS NdArraySyncProof

\* The mapping: what an array refers to and what the program means to be there.
Ref == [a \in Arrays |-> arr[a].data]
Val == [b \in Buffers |-> IF \E a \in Arrays : arr[a].data = b
                          THEN buf[b].logical ELSE Undef]

\* An array refers to b.
Referred(b) == \E a \in Arrays : arr[a].data = b

\* A step of the device or the host as the abstract module sees it.
Implements == [Abstract!Next]_(Abstract!vars)
-----------------------------------------------------------------------------
(* How changes of the arrays and allocations map to abstract steps.         *)

LEMMA PlacesFacts ==
  ASSUME NEW b \in Buffers
  PROVE  b \in Abstract!Places <=> Referred(b)
BY DEF Abstract!Places, Referred

\* A change of the references to r, after which what is referred to holds v.
LEMMA MappedStep ==
  ASSUME NEW r, NEW v, r = [a \in Arrays |-> arr'[a].data],
         \A b \in Buffers : Referred(b)' => buf'[b].logical = v[b]
  PROVE  /\ Ref' = r
         /\ Val' = [b \in Buffers |-> IF \E a \in Arrays : r[a] = b
                                      THEN v[b] ELSE Undef]
BY DEF Ref, Val, Referred

LEMMA StutterStep ==
  ASSUME host'.got = host.got, \A a \in Arrays : arr'[a].data = arr[a].data,
         \A b \in Buffers : Referred(b) => buf'[b].logical = buf[b].logical
  PROVE  Implements
<1>1. Ref' = Ref /\ Val' = Val
  BY DEF Ref, Val, Referred
<1> QED BY <1>1 DEF Implements, Abstract!vars, Ref, Val

\* Array a gets an allocation of its own, with whatever is meant to be in it.
LEMMA NewStep ==
  ASSUME IInv, TypeOK', host.got = None, host'.got = None, NEW a \in Arrays,
         NEW b \in Buffers, buf[b].state # "live", arr'[a].data = b,
         \A x \in Arrays \ {a} : arr'[x].data = arr[x].data,
         \A c \in Buffers \ {b} : Referred(c)' => buf'[c].logical = buf[c].logical
  PROVE  Implements
<1>1. b \in Buffers \ Abstract!Places
  BY PlacesFacts, NdArrayAssumption DEF Referred, IInv, Owned, NothingDangles
<1>2. PICK w \in Values \cup {Undef} : w = buf'[b].logical
  BY DEF TypeOK, BufType, Content
<1> DEFINE r == [Ref EXCEPT ![a] = b]
           v == [Val EXCEPT ![b] = w]
<1>3. r = [x \in Arrays |-> arr'[x].data]
  BY DEF Ref
<1>4. \A c \in Buffers : Referred(c)' => buf'[c].logical = v[c]
  BY <1>2 DEF Val, Referred
<1> HIDE DEF r, v
<1>5. /\ Ref' = r
      /\ Val' = [c \in Buffers |-> IF \E x \in Arrays : r[x] = c
                                   THEN v[c] ELSE Undef]
  BY <1>3, <1>4, MappedStep
<1>6. Abstract!New(a, w)
  BY <1>1, <1>5 DEF Abstract!New, Abstract!Step, Abstract!Reached, Ref, Val, r, v
<1> QED BY <1>6 DEF Implements, Abstract!Next

\* What is meant to be in an allocation that is referred to becomes u.
LEMMA WrittenStep ==
  ASSUME host.got = None, host'.got = None, NEW b \in Buffers, Referred(b),
         \A a \in Arrays : arr'[a].data = arr[a].data,
         \A c \in Buffers \ {b} : Referred(c) => buf'[c].logical = buf[c].logical,
         NEW u, buf'[b].logical = u
  PROVE  Abstract!Update(b, u)
<1> DEFINE v == [Val EXCEPT ![b] = u]
<1>1. Ref = [x \in Arrays |-> arr'[x].data]
  BY DEF Ref
<1>2. \A c \in Buffers : Referred(c)' => buf'[c].logical = v[c]
  BY DEF Val, Referred
<1> HIDE DEF v
<1>3. /\ Ref' = Ref
      /\ Val' = [c \in Buffers |-> IF \E x \in Arrays : Ref[x] = c
                                   THEN v[c] ELSE Undef]
  BY <1>1, <1>2, MappedStep
<1> QED BY <1>3 DEF Abstract!Update, Abstract!Step, Abstract!Reached, Ref, Val, v

\* It is set by the host, or computed from what is referred to.
LEMMA UpdateStep ==
  ASSUME host.got = None, host'.got = None, NEW b \in Buffers, Referred(b),
         \A a \in Arrays : arr'[a].data = arr[a].data,
         \A c \in Buffers \ {b} : Referred(c) => buf'[c].logical = buf[c].logical,
         \/ buf'[b].logical \in Values
         \/ \E x, y \in Buffers : /\ Referred(x) /\ Referred(y)
                                  /\ buf'[b].logical = Result(buf[x].logical,
                                                             buf[y].logical)
  PROVE  Implements
<1>1. b \in Abstract!Places
  BY PlacesFacts
<1>2. PICK u : u = buf'[b].logical
  OBVIOUS
<1>3. Abstract!Update(b, u)
  BY <1>2, WrittenStep
<1>4. CASE u \in Values
  BY <1>1, <1>3, <1>4 DEF Implements, Abstract!Next
<1>5. ASSUME NEW x \in Buffers, NEW y \in Buffers, Referred(x), Referred(y),
             u = Result(buf[x].logical, buf[y].logical)
      PROVE  Implements
  <2>1. Abstract!Result(x, y) = u
    BY <1>5 DEF Abstract!Result, Result, Referred
  <2>2. Abstract!Update(b, Abstract!Result(x, y))
    BY <1>3, <2>1 DEF Abstract!Update, Abstract!Step
  <2> QED BY <1>1, <1>5, <2>2, PlacesFacts DEF Implements, Abstract!Next
<1> QED BY <1>2, <1>4, <1>5

\* References change, no content does.
LEMMA RedirectStep ==
  ASSUME host.got = None, host'.got = None, NEW a \in Arrays, NEW x \in Arrays,
         \/ [y \in Arrays |-> arr'[y].data] = [Ref EXCEPT ![x] = None, ![a] = Ref[x]]
         \/ [y \in Arrays |-> arr'[y].data] = [Ref EXCEPT ![a] = Ref[x]]
         \/ [y \in Arrays |-> arr'[y].data] = [Ref EXCEPT ![a] = None],
         \A c \in Buffers : Referred(c)' => Referred(c) /\ buf'[c].logical = buf[c].logical
  PROVE  Implements
<1> DEFINE r == [y \in Arrays |-> arr'[y].data]
<1>1. \A c \in Buffers : Referred(c)' => buf'[c].logical = Val[c]
  BY DEF Val, Referred
<1> HIDE DEF r
<1>2. r = [y \in Arrays |-> arr'[y].data]
  BY DEF r
<1>3. /\ Ref' = r
      /\ Val' = [c \in Buffers |-> IF \E y \in Arrays : r[y] = c
                                   THEN Val[c] ELSE Undef]
  BY <1>1, <1>2, MappedStep
<1>4. Abstract!Redirect(a, x)
  <2>1. CASE r = [Ref EXCEPT ![x] = None, ![a] = Ref[x]]
    <3>1. /\ Ref' = [Ref EXCEPT ![x] = None, ![a] = Ref[x]]
          /\ Val' = [c \in Buffers |->
                     IF \E y \in Arrays : [Ref EXCEPT ![x] = None, ![a] = Ref[x]][y] = c
                     THEN Val[c] ELSE Undef]
      BY <1>3, <2>1
    <3> QED BY <3>1, ZenonT(30)
            DEF Abstract!Redirect, Abstract!Step, Abstract!Reached, Ref, Val
  <2>2. CASE r = [Ref EXCEPT ![a] = Ref[x]]
    <3>1. /\ Ref' = [Ref EXCEPT ![a] = Ref[x]]
          /\ Val' = [c \in Buffers |->
                     IF \E y \in Arrays : [Ref EXCEPT ![a] = Ref[x]][y] = c
                     THEN Val[c] ELSE Undef]
      BY <1>3, <2>2
    <3> QED BY <3>1, ZenonT(30)
            DEF Abstract!Redirect, Abstract!Step, Abstract!Reached, Ref, Val
  <2>3. CASE r = [Ref EXCEPT ![a] = None]
    <3>1. /\ Ref' = [Ref EXCEPT ![a] = None]
          /\ Val' = [c \in Buffers |->
                     IF \E y \in Arrays : [Ref EXCEPT ![a] = None][y] = c
                     THEN Val[c] ELSE Undef]
      BY <1>3, <2>3
    <3> QED BY <3>1, ZenonT(30)
            DEF Abstract!Redirect, Abstract!Step, Abstract!Reached, Ref, Val
  <2> QED BY <1>2, <2>1, <2>2, <2>3
<1> QED BY <1>4 DEF Implements, Abstract!Next
-----------------------------------------------------------------------------
(* Calls of the host.                                                      *)

\* No array refers to an allocation that is free.
LEMMA FreeUnreferred ==
  ASSUME SyncInv, NEW b \in FreeBuffers
  PROVE  ~Referred(b)
BY NdArrayAssumption DEF SyncInv, IInv, Owned, NothingDangles, FreeBuffers, Referred

\* An array that is not constructed becomes one without data; what changes in
\* the allocations no array refers to.
LEMMA NothingStep ==
  ASSUME SyncInv, Ready, NEW a \in Arrays \ built, host'.got = None,
         \A b \in Buffers : Referred(b) => buf'[b].logical = buf[b].logical,
         \E e : arr' = [arr EXCEPT ![a] = e] /\ e.data = None
  PROVE  Implements
<1>1. \A x \in Arrays : arr'[x].data = arr[x].data
  BY DEF SyncInv, IInv, TypeOK, Owned, Unbuilt
<1> QED BY <1>1, CallFacts, StutterStep

LEMMA BecomesEmptyStep ==
  ASSUME SyncInv, Ready, NEW a \in Arrays \ built, BecomesEmpty(a)
  PROVE  Implements
<1>1. PICK s : arr' = [arr EXCEPT ![a] = [Empty EXCEPT !.stream = s]]
  BY DEF BecomesEmpty
<1>2. [Empty EXCEPT !.stream = s].data = None
  BY DEF Empty
<1>3. buf' = buf /\ host' = host
  BY DEF BecomesEmpty
<1> QED BY <1>1, <1>2, <1>3, CallFacts, NothingStep

\* Array a gets a new allocation b; what else is referred to keeps its content.
LEMMA GainStep ==
  ASSUME SyncInv, TypeOK', Acting, host'.got = None, NEW a \in Arrays,
         NEW b \in FreeBuffers, NEW e, arr' = [arr EXCEPT ![a] = e], e.data = b,
         \A c \in Buffers \ {b} : c \notin Last(a) => buf'[c].logical = buf[c].logical
  PROVE  Implements
<1>1. arr'[a].data = b /\ \A x \in Arrays \ {a} : arr'[x].data = arr[x].data
  BY DEF SyncInv, IInv, TypeOK
<1>2. \A c \in Buffers \ {b} : Referred(c)' => buf'[c].logical = buf[c].logical
  <2> SUFFICES ASSUME NEW c \in Buffers \ {b}, NEW x \in Arrays, arr'[x].data = c
               PROVE  buf'[c].logical = buf[c].logical
    BY DEF Referred
  <2>1. x # a /\ arr[x].data = c
    BY <1>1
  <2> QED BY <2>1, LastFacts DEF SyncInv
<1>3. b \in Buffers /\ buf[b].state # "live"
  BY DEF FreeBuffers
<1> QED BY <1>1, <1>2, <1>3, ActingFacts, NewStep DEF SyncInv

LEMMA ConstructStep ==
  ASSUME SyncInv, TypeOK', NEW a \in Arrays, NEW n \in Sizes,
         \/ Construct(a, n) \/ ConstructManaged(a, n)
         \/ \E v \in Values : ConstructFilled(a, n, v)
  PROVE  Implements
<1>1. Ready /\ Acting /\ a \in Arrays \ built
  BY DEF Construct, ConstructManaged, ConstructFilled, Acting
<1>2. PICK s \in Streams :
        /\ \/ host' = Synchronized({s}) \/ host' = host
        /\ \/ AllocationFails(a, n, s)
           \/ \E b \in FreeBuffers :
                /\ arr' = [arr EXCEPT ![a] = [data |-> b, stream |-> s, size |-> n]]
                /\ \/ \E l : buf' = Allocated(buf, b, s, l)
                   \/ \E e : buf' = [buf EXCEPT ![b] = e]
  BY DEF Construct, ConstructManaged, ConstructFilled, AllocateArray, FreshStreams
<1>3. host'.got = None
  BY <1>1, <1>2, CallFacts, SynchronizedHost
<1>4. CASE AllocationFails(a, n, s)
  <2> DEFINE e == [data |-> None, stream |-> s, size |-> n]
  <2>1. arr' = [arr EXCEPT ![a] = e] /\ e.data = None /\ buf' = buf
    BY <1>4 DEF AllocationFails
  <2> HIDE DEF e
  <2> QED BY <1>1, <1>3, <2>1, NothingStep
<1>5. ASSUME NEW b \in FreeBuffers,
             arr' = [arr EXCEPT ![a] = [data |-> b, stream |-> s, size |-> n]],
             \/ \E l : buf' = Allocated(buf, b, s, l)
             \/ \E e : buf' = [buf EXCEPT ![b] = e]
      PROVE  Implements
  <2> DEFINE e == [data |-> b, stream |-> s, size |-> n]
  <2>1. \A c \in Buffers \ {b} : buf'[c].logical = buf[c].logical
    BY <1>1, <1>5, CallFacts DEF Allocated
  <2>2. arr' = [arr EXCEPT ![a] = e] /\ e.data = b
    BY <1>5
  <2> HIDE DEF e
  <2> QED BY <1>1, <1>3, <2>1, <2>2, GainStep
<1> QED BY <1>2, <1>4, <1>5

\* A second owner of the data, or a new owner for an old one.
LEMMA SharedStep ==
  ASSUME SyncInv, TypeOK', NEW a \in Arrays, NEW r \in Arrays,
         ConstructShared(a, r) \/ MoveConstruct(a, r)
  PROVE  Implements
<1>1. Ready /\ a \in Arrays \ built /\ r \in built /\ a # r
  BY DEF ConstructShared, MoveConstruct
<1>2. CASE BecomesEmpty(a)
  BY <1>1, <1>2, BecomesEmptyStep
<1>3. CASE ~BecomesEmpty(a)
  <2>1. /\ buf' = buf /\ host'.got = None /\ host.got = None
        /\ arr \in [Arrays -> ArrType]
    BY <1>1, <1>3, CallFacts, SynchronizedHost DEF ConstructShared, MoveConstruct, TypeOK
  <2>2. \/ \E s : arr' = [arr EXCEPT ![a] = [arr[r] EXCEPT !.stream = s]]
        \/ arr' = [arr EXCEPT ![a] = arr[r], ![r] = Empty]
    BY <1>3 DEF ConstructShared, MoveConstruct
  <2>3. \/ [y \in Arrays |-> arr'[y].data] = [Ref EXCEPT ![r] = None, ![a] = Ref[r]]
        \/ [y \in Arrays |-> arr'[y].data] = [Ref EXCEPT ![a] = Ref[r]]
    <3>1. ASSUME NEW s, arr' = [arr EXCEPT ![a] = [arr[r] EXCEPT !.stream = s]]
          PROVE  [y \in Arrays |-> arr'[y].data] = [Ref EXCEPT ![a] = Ref[r]]
      BY <2>1, <3>1 DEF Ref, ArrType
    <3>2. CASE arr' = [arr EXCEPT ![a] = arr[r], ![r] = Empty]
      BY <1>1, <2>1, <3>2 DEF Ref, Empty
    <3> QED BY <2>2, <3>1, <3>2
  <2>4. \A c \in Buffers : Referred(c)' => Referred(c) /\ buf'[c].logical = buf[c].logical
    <3>1. \A y \in Arrays : \/ arr'[y].data = None
                            \/ \E x \in Arrays : arr'[y].data = arr[x].data
      BY <1>1, <2>1, <2>2 DEF Empty, ArrType
    <3> QED BY <2>1, <3>1, NdArrayAssumption DEF Referred
  <2> QED BY <2>1, <2>3, <2>4, RedirectStep
<1> QED BY <1>2, <1>3

\* An array lets go of its data; only what nothing else refers to goes.
LEMMA LetGoStep ==
  ASSUME SyncInv, Acting, NEW a \in Arrays, buf' = Deleted(Last(a)),
         host'.got = None, arr'[a].data = None,
         \A x \in Arrays \ {a} : arr'[x].data = arr[x].data
  PROVE  Implements
<1>1. [y \in Arrays |-> arr'[y].data] = [Ref EXCEPT ![a] = None]
  BY DEF Ref
<1>2. \A c \in Buffers : Referred(c)' => Referred(c) /\ buf'[c].logical = buf[c].logical
  <2> SUFFICES ASSUME NEW c \in Buffers, NEW x \in Arrays, arr'[x].data = c
               PROVE  Referred(c) /\ buf'[c].logical = buf[c].logical
    BY DEF Referred
  <2>1. x # a /\ arr[x].data = c /\ c \notin Last(a) /\ Last(a) \in SUBSET Buffers
    BY NdArrayAssumption, LastFacts DEF SyncInv
  <2> QED BY <2>1, ActingFacts, DeletedFacts DEF Referred
<1> QED BY <1>1, <1>2, ActingFacts, RedirectStep

\* What follows the deletion in a copy: a new allocation, or none.
LEMMA CopyFromStep ==
  ASSUME SyncInv, TypeOK', Acting, NEW a \in Arrays, NEW r \in Arrays,
         CopyFrom(a, r, Last(a))
  PROVE  Implements
<1> DEFINE B == Deleted(Last(a))
<1>1. \A c \in Buffers : c \notin Last(a) => B[c] = buf[c]
  BY ActingFacts, LastFacts, DeletedFacts DEF SyncInv
<1>2. host'.got = None /\ B \in [Buffers -> BufType]
  BY ActingFacts, LastFacts, SynchronizedHost, DeletedType DEF CopyFrom, SyncInv
<1>3. CASE /\ arr' = [arr EXCEPT ![a] = [arr[r] EXCEPT !.data = None]]
           /\ buf' = B
  <2>1. arr'[a].data = None /\ \A x \in Arrays \ {a} : arr'[x].data = arr[x].data
    BY <1>3 DEF SyncInv, IInv, TypeOK, ArrType
  <2> QED BY <1>2, <1>3, <2>1, LetGoStep
<1>4. ASSUME NEW b \in FreeBuffers, NEW l,
             arr' = [arr EXCEPT ![a] = [arr[r] EXCEPT !.data = b]],
             buf' = Allocated(B, b, arr[r].stream, l)
      PROVE  Implements
  <2> DEFINE e == [arr[r] EXCEPT !.data = b]
  <2> HIDE DEF B
  <2>1. \A c \in Buffers \ {b} : c \notin Last(a) => buf'[c].logical = buf[c].logical
    BY <1>1, <1>2, <1>4 DEF Allocated
  <2>2. arr' = [arr EXCEPT ![a] = e] /\ e.data = b
    BY <1>4, ArrayType DEF SyncInv, IInv, TypeOK, ArrType
  <2> HIDE DEF e
  <2> QED BY <1>2, <2>1, <2>2, GainStep
<1> QED BY <1>3, <1>4 DEF CopyFrom

LEMMA CopyStep ==
  ASSUME SyncInv, TypeOK', NEW a \in Arrays, NEW r \in Arrays,
         CopyConstruct(a, r) \/ CopyAssign(a, r)
  PROVE  Implements
<1>1. CASE CopyConstruct(a, r)
  <2>1. Ready /\ Acting /\ a \in Arrays \ built /\ Last(a) = {}
    BY <1>1, UnbuiltLast DEF CopyConstruct, SyncInv, Acting
  <2> QED BY <1>1, <2>1, BecomesEmptyStep, CopyFromStep DEF CopyConstruct
<1>2. CASE CopyAssign(a, r)
  <2>1. Acting
    BY <1>2 DEF CopyAssign, MayDelete, Acting
  <2> QED BY <1>2, <2>1, CopyFromStep DEF CopyAssign
<1> QED BY <1>1, <1>2

LEMMA MoveAssignStep ==
  ASSUME SyncInv, TypeOK', NEW a \in Arrays, NEW r \in Arrays, MoveAssign(a, r)
  PROVE  Implements
<1>1. /\ Acting /\ buf' = Deleted(Last(a)) /\ host'.got = None
      /\ arr \in [Arrays -> ArrType]
  BY SynchronizedHost DEF MoveAssign, MayDelete, Acting, SyncInv, IInv, TypeOK
<1>2. CASE a = r
  <2>1. arr'[a].data = None /\ \A x \in Arrays \ {a} : arr'[x].data = arr[x].data
    BY <1>1, <1>2 DEF MoveAssign, Empty
  <2> QED BY <1>1, <2>1, LetGoStep
<1>3. CASE a # r
  <2>1. arr' = [arr EXCEPT ![a] = arr[r], ![r] = Empty]
    BY <1>3 DEF MoveAssign
  <2>2. [y \in Arrays |-> arr'[y].data] = [Ref EXCEPT ![r] = None, ![a] = Ref[r]]
    BY <1>1, <1>3, <2>1 DEF Ref, Empty
  <2>3. \A c \in Buffers : Referred(c)' => Referred(c) /\ buf'[c].logical = buf[c].logical
    <3> SUFFICES ASSUME NEW c \in Buffers, NEW x \in Arrays, arr'[x].data = c
                 PROVE  Referred(c) /\ buf'[c].logical = buf[c].logical
      BY DEF Referred
    <3>1. \E y \in Arrays \ {a} : arr[y].data = c
      BY <1>1, <1>3, <2>1, NdArrayAssumption DEF Empty
    <3>2. c \notin Last(a) /\ Last(a) \in SUBSET Buffers
      BY <3>1, LastFacts DEF SyncInv
    <3> QED BY <1>1, <3>1, <3>2, ActingFacts, DeletedFacts DEF Referred
  <2> QED BY <1>1, <2>2, <2>3, ActingFacts, RedirectStep
<1> QED BY <1>2, <1>3

LEMMA DropStep ==
  ASSUME SyncInv, NEW a \in Arrays, Destroy(a) \/ Release(a)
  PROVE  Implements
<1>1. Acting /\ buf' = Deleted(Last(a)) /\ host'.got = None
  BY DEF Destroy, Release, MayDelete, Acting, Idle
<1>2. arr'[a].data = None /\ \A x \in Arrays \ {a} : arr'[x].data = arr[x].data
  BY DEF Destroy, Release, Empty, SyncInv, IInv, TypeOK, ArrType
<1> QED BY <1>1, <1>2, LetGoStep

LEMMA AwaitDeviceStep ==
  ASSUME SyncInv, NEW a \in Arrays, AwaitDevice(a)
  PROVE  Implements
<1>1. Ready /\ UNCHANGED <<arr, buf>> /\ host'.got = None
  BY DEF AwaitDevice, Idle
<1> QED BY <1>1, CallFacts, StutterStep

LEMMA LifetimeStep ==
  ASSUME SyncInv, TypeOK', Lifetime
  PROVE  Implements
<1>1. ASSUME NEW a \in Arrays, DefaultConstruct(a) PROVE Implements
  BY <1>1, BecomesEmptyStep DEF DefaultConstruct
<1> QED BY <1>1, ConstructStep, SharedStep, CopyStep, MoveAssignStep, DropStep,
           AwaitDeviceStep DEF Lifetime

\* An operator that returns an array computes a value in a place of its own.
LEMMA NewFromStep ==
  ASSUME SyncInv, TypeOK', Ready, NEW a \in Arrays \ built, NEW x \in Arrays,
         NEW y \in Arrays, NEW S, NewFrom(a, x, y, S)
  PROVE  Implements
<1>1. PICK s \in Streams, b \in FreeBuffers :
        /\ arr' = [arr EXCEPT ![a] = [arr[x] EXCEPT !.data = b, !.stream = s]]
        /\ \E l : buf' = Allocated(buf, b, s, l)
        /\ host' = Synchronized(S \cup {s})
  BY DEF NewFrom, FreshStreams
<1> DEFINE e == [arr[x] EXCEPT !.data = b, !.stream = s]
<1>2. \A c \in Buffers \ {b} : buf'[c].logical = buf[c].logical
  BY <1>1, CallFacts DEF Allocated
<1>3. arr' = [arr EXCEPT ![a] = e] /\ e.data = b
  BY <1>1, ArrayType DEF SyncInv, IInv, TypeOK, ArrType
<1>4. host'.got = None /\ Acting
  BY <1>1, SynchronizedHost DEF Acting
<1> HIDE DEF e
<1> QED BY <1>2, <1>3, <1>4, GainStep

\* A result whose launch failed is never referred to.
LEMMA LaunchFailsStep ==
  ASSUME SyncInv, Ready, NEW a \in Arrays \ built, LaunchFails(a)
  PROVE  Implements
<1>1. PICK s \in Streams, t \in Streams, b \in FreeBuffers :
        /\ arr' = [arr EXCEPT ![a] = [Empty EXCEPT !.stream = t]]
        /\ buf' = Discarded(b, s)
  BY DEF LaunchFails, FreshStreams
<1>2. \A c \in Buffers : Referred(c) => buf'[c].logical = buf[c].logical
  BY <1>1, CallFacts, FreeUnreferred DEF Discarded
<1>3. [Empty EXCEPT !.stream = t].data = None
  BY DEF Empty
<1>4. host'.got = None
  BY CallFacts DEF LaunchFails
<1> QED BY <1>1, <1>2, <1>3, <1>4, NothingStep

LEMMA OperatorStep ==
  ASSUME SyncInv, TypeOK', NEW a \in Arrays, NEW x \in Arrays, NEW y \in Arrays,
         \/ Unary(a, x) \/ UnaryNoWait(a, x)
         \/ Elementwise(a, x, y) \/ ElementwiseNoWait(a, x, y)
  PROVE  Implements
<1>1. Ready /\ a \in Arrays \ built
  BY DEF Unary, UnaryNoWait, Elementwise, ElementwiseNoWait
<1>2. \/ BecomesEmpty(a) \/ LaunchFails(a)
      \/ \E z \in Arrays : \E S : NewFrom(a, x, z, S)
  BY DEF Unary, UnaryNoWait, Elementwise, ElementwiseNoWait
<1> QED BY <1>1, <1>2, BecomesEmptyStep, LaunchFailsStep, NewFromStep

\* What a product that fails allocates is never referred to.
LEMMA MatmulFailsStep ==
  ASSUME SyncInv, Ready, NEW a \in Arrays \ built, NEW k, MatmulFails(a, k)
  PROVE  Implements
<1>1. PICK s : arr' = [arr EXCEPT ![a] = [Empty EXCEPT !.stream = s]]
  BY DEF MatmulFails
<1>2. [Empty EXCEPT !.stream = s].data = None
  BY DEF Empty
<1>3. host'.got = None
  BY DEF MatmulFails, Synchronized, Idle
<1>4. \A c \in Buffers \ FreeBuffers : buf'[c].logical = buf[c].logical
  <2>1. CASE buf' = buf
    BY <2>1
  <2>2. ASSUME NEW d \in FreeBuffers,
               \/ buf' = Discarded(d, k) \/ buf' = Allocated(buf, d, k, Undef)
        PROVE  \A c \in Buffers \ {d} : buf'[c].logical = buf[c].logical
    BY <2>2, CallFacts DEF Discarded, Allocated
  <2>3. ASSUME NEW d \in FreeBuffers, NEW b \in FreeBuffers,
               buf' = Allocated(Allocated(buf, d, k, Undef), b, k, Undef)
        PROVE  \A c \in Buffers \ {b, d} : buf'[c].logical = buf[c].logical
    BY <2>3, CallFacts DEF Allocated
  <2>4. \/ buf' = buf
        \/ \E d \in FreeBuffers :
             \/ buf' = Discarded(d, k) \/ buf' = Allocated(buf, d, k, Undef)
             \/ \E b \in FreeBuffers :
                  buf' = Allocated(Allocated(buf, d, k, Undef), b, k, Undef)
    BY DEF MatmulFails
  <2> QED BY <2>1, <2>2, <2>3, <2>4
<1>5. \A c \in Buffers : Referred(c) => buf'[c].logical = buf[c].logical
  BY <1>4, FreeUnreferred
<1> QED BY <1>1, <1>2, <1>3, <1>5, NothingStep

\* The scratch memory of the product is referred to by no array.
LEMMA MatmulStep ==
  ASSUME SyncInv, TypeOK', NEW a \in Arrays, NEW x \in Arrays, NEW y \in Arrays,
         Matmul(a, x, y)
  PROVE  Implements
<1>1. Ready /\ a \in Arrays \ built
  BY DEF Matmul
<1>2. CASE BecomesEmpty(a)
  BY <1>1, <1>2, BecomesEmptyStep
<1>3. CASE MatmulFails(a, arr[x].stream)
  BY <1>1, <1>3, MatmulFailsStep
<1>4. ASSUME NEW s, NEW b \in FreeBuffers, NEW d \in FreeBuffers,
             arr' = [arr EXCEPT ![a] = [arr[x] EXCEPT !.data = b, !.stream = s]],
             \E k, l : buf' = Allocated(Allocated(buf, d, k, Undef), b, k, l),
             host' = [Synchronized({arr[x].stream}) EXCEPT !.pc = "matmul", !.buf = d]
      PROVE  Implements
  <2>1. /\ b \in Buffers /\ d \in Buffers
        /\ buf[b].state # "live" /\ buf[d].state # "live"
    BY DEF FreeBuffers
  <2>2. arr'[a].data = b /\ \A z \in Arrays \ {a} : arr'[z].data = arr[z].data
    BY <1>4 DEF SyncInv, IInv, TypeOK, ArrType
  <2>3. \A c \in Buffers \ {b, d} : buf'[c].logical = buf[c].logical
    BY <1>1, <1>4, CallFacts DEF Allocated
  <2>4. \A z \in Arrays : arr[z].data # d
    BY <2>1, NdArrayAssumption DEF SyncInv, IInv, Owned, NothingDangles
  <2>5. \A c \in Buffers \ {b} : Referred(c)' => buf'[c].logical = buf[c].logical
    BY <2>2, <2>3, <2>4 DEF Referred
  <2>6. host'.got = None
    BY <1>4 DEF Synchronized, Idle
  <2> QED BY <1>1, <2>1, <2>2, <2>5, <2>6, CallFacts, NewStep DEF SyncInv
<1> QED BY <1>2, <1>3, <1>4 DEF Matmul

LEMMA InPlaceStep ==
  ASSUME SyncInv, NEW x \in Arrays, NEW y \in Arrays,
         InPlace(x, y) \/ InPlaceNoWait(x, y)
  PROVE  Implements
<1>1. /\ Ready /\ arr[x].data # None /\ arr[y].data # None /\ arr' = arr
      /\ InPlaceFrom(x, y) \/ UNCHANGED buf
  BY DEF InPlace, InPlaceNoWait, Mismatch
<1>2. host.got = None /\ host'.got = None
  BY <1>1, CallFacts, SynchronizedHost DEF InPlace, InPlaceNoWait
<1>3. CASE UNCHANGED buf
  BY <1>1, <1>2, <1>3, StutterStep
<1>4. CASE InPlaceFrom(x, y)
  <2> DEFINE b == arr[x].data
             c == arr[y].data
  <2>1. b \in Buffers /\ c \in Buffers /\ Referred(b) /\ Referred(c)
    BY <1>1, OperandFacts DEF Referred
  <2>2. buf' = [buf EXCEPT ![b].logical = Result(buf[b].logical, buf[c].logical)]
    BY <1>4 DEF InPlaceFrom
  <2> HIDE DEF b, c
  <2>3. /\ \A d \in Buffers \ {b} : buf'[d].logical = buf[d].logical
        /\ buf'[b].logical = Result(buf[b].logical, buf[c].logical)
    BY <1>1, <2>1, <2>2, CallFacts DEF BufType
  <2>4. \A z \in Arrays : arr'[z].data = arr[z].data
    BY <1>1
  <2> QED BY <1>2, <2>1, <2>3, <2>4, UpdateStep
<1> QED BY <1>1, <1>3, <1>4

LEMMA ComputeStep ==
  ASSUME SyncInv, TypeOK', Compute
  PROVE  Implements
BY OperatorStep, MatmulStep, InPlaceStep DEF Compute

\* A ready host finds an array for every view that has not expired.
LEMMA ViewSetStep ==
  ASSUME SyncInv, NEW v \in Views, NEW x \in Values, ViewSet(v, x)
  PROVE  Implements
<1> DEFINE b == view[v].data
<1>1. /\ Ready /\ b # None /\ buf' = [buf EXCEPT ![b].logical = x]
      /\ arr' = arr /\ host'.got = None
  BY SynchronizedHost DEF ViewSet
<1>2. b \in Buffers /\ buf[b].state = "live"
  BY <1>1, CallFacts
     DEF SyncInv, IInv, Owned, NothingDangles, ViewType, BufferOrNone
<1> HIDE DEF b
<1>3. Referred(b)
  <2>1. b \notin Temporary
    BY <1>1 DEF Ready, Temporary
  <2> QED BY <1>2, <2>1 DEF SyncInv, IInv, TypeOK, Owned, NothingLeaks, Referred
<1>4. /\ \A d \in Buffers \ {b} : buf'[d].logical = buf[d].logical
      /\ buf'[b].logical = x
  BY <1>1, <1>2, CallFacts DEF BufType
<1>5. \A z \in Arrays : arr'[z].data = arr[z].data
  BY <1>1
<1> QED BY <1>1, <1>2, <1>3, <1>4, <1>5, CallFacts, UpdateStep

LEMMA AccessStep ==
  ASSUME SyncInv, Access
  PROVE  Implements
<1>1. ASSUME Ready, UNCHANGED <<arr, buf>>, host'.got = None
      PROVE  Implements
  BY <1>1, CallFacts, StutterStep
<1>2. ASSUME NEW a \in Arrays, Synchronize(a) \/ Read(a) PROVE Implements
  <2>1. Ready /\ UNCHANGED <<arr, buf>> /\ host'.got = None
    BY <1>2 DEF Synchronize, Read, Fetching, Synchronized, Idle
  <2> QED BY <1>1, <2>1
<1>3. ASSUME NEW v \in Views,
             DropView(v) \/ ViewGet(v) \/ \E a \in Arrays : MakeView(v, a)
      PROVE  Implements
  <2>1. Ready /\ UNCHANGED <<arr, buf>> /\ host'.got = None
    BY <1>3, CallFacts DEF DropView, MakeView, ViewGet, Fetching, Synchronized, Idle
  <2> QED BY <1>1, <2>1
<1> QED BY <1>2, <1>3, ViewSetStep DEF Access
-----------------------------------------------------------------------------
(* The device and the end of a call.                                       *)

LEMMA ReturnStep ==
  ASSUME SyncInv, Return
  PROVE  Implements
<1>1. UNCHANGED <<arr, buf>> /\ host'.got = None
  BY DEF Return, Idle
<1>2. CASE host.got = None
  BY <1>1, <1>2, StutterStep
<1>3. CASE host.got # None
  <2>1. Abstract!Consume
    BY <1>1, <1>3 DEF Abstract!Consume
  <2> QED BY <2>1 DEF Implements, Abstract!Next
<1> QED BY <1>2, <1>3

\* What operator* allocates for itself no array refers to.
LEMMA MatmulCleanupStep ==
  ASSUME SyncInv, MatmulCleanup \/ Abandon
  PROVE  Implements
<1>1. /\ host.pc \in {"matmul", "abandon"} /\ arr' = arr /\ buf' = Deleted({host.buf})
  BY DEF MatmulCleanup, Abandon
<1>2. host.got = None /\ host.buf \in Buffers /\ buf \in [Buffers -> BufType]
  BY <1>1 DEF SyncInv, InFlight, Reading, IInv, TypeOK
<1>3. host'.got = None
  <2>1. CASE MatmulCleanup /\ host.result = None
    BY <2>1, SynchronizedHost DEF MatmulCleanup
  <2>2. CASE MatmulCleanup /\ host.result # None
    BY <2>2 DEF MatmulCleanup, Synchronized, Idle
  <2>3. CASE Abandon
    BY <2>3 DEF Abandon, Idle
  <2> QED BY <2>1, <2>2, <2>3
<1>4. ~Referred(host.buf)
  BY <1>1, <1>2, NdArrayAssumption DEF SyncInv, IInv, Owned, Scratch, Temporary, Referred
<1>5. \A c \in Buffers : Referred(c) => buf'[c].logical = buf[c].logical
  BY <1>1, <1>2, <1>4, DeletedFacts
<1> QED BY <1>1, <1>2, <1>3, <1>5, StutterStep

\* The host reads what the array it asked for means; the rest is not seen.
LEMMA ExecuteStep ==
  ASSUME SyncInv, NEW s \in Streams, Execute(s)
  PROVE  Implements
<1> DEFINE c == Head(queue[s])
<1>1. /\ Apply(c) /\ arr' = arr /\ buf \in [Buffers -> BufType]
      /\ queue \in [Streams -> Seq(Command)] /\ queue[s] # <<>>
      /\ queue' = [queue EXCEPT ![s] = Tail(@)]
  BY DEF Execute, SyncInv, IInv, TypeOK
<1>2. c \in Command /\ 1 \in DOMAIN queue[s] /\ queue[s][1] = c
  BY <1>1, Popped
<1> HIDE DEF c
<1>3. CASE c.op \in Writing
  <2>1. host' = host /\ c.dst \in Buffers
        /\ \E m : buf' = [buf EXCEPT ![c.dst].mem = m]
    BY <1>1, <1>2, <1>3 DEF Apply, Writing, Command
  <2>2. \A b \in Buffers : buf'[b].logical = buf[b].logical
    BY <1>1, <2>1 DEF BufType
  <2> QED BY <1>1, <2>1, <2>2, StutterStep
<1>4. CASE c.op = "free"
  <2>1. host' = host /\ c.dst \in Buffers /\ buf' = [buf EXCEPT ![c.dst] = Unused]
    BY <1>1, <1>2, <1>4 DEF Apply, Command
  <2>2. buf[c.dst].state = "freeing"
    BY <1>2, <1>4 DEF SyncInv, IInv, FreedOnce, Once
  <2>3. ~Referred(c.dst)
    BY <2>1, <2>2, NdArrayAssumption DEF SyncInv, IInv, Owned, NothingDangles, Referred
  <2> QED BY <1>1, <2>1, <2>3, StutterStep
<1>5. CASE c.op = "fetch"
  <2>1. buf' = buf /\ host' = [host EXCEPT !.got = buf[c.x].mem]
    BY <1>1, <1>5 DEF Apply
  <2>2. /\ host.pc = "read" /\ host.got = None /\ host.buf = c.x
        /\ c.x \in Buffers /\ buf[c.x].state = "live" /\ host \in HostType
    BY <1>2, <1>5 DEF SyncInv, IInv, TypeOK, InFlight, Reading
  <2>3. buf[c.x].mem = buf[c.x].logical
    BY <1>2, <1>5, <2>2 DEF SyncInv, InFlight, OneAtATime, Accounted, Writing
  <2>4. Referred(c.x)
    <3>1. c.x \notin Temporary
      BY <2>2 DEF Temporary
    <3> QED BY <2>2, <3>1 DEF SyncInv, IInv, TypeOK, Owned, NothingLeaks, Referred
  <2>5. c.x \in Abstract!Places
    BY <2>2, <2>4, PlacesFacts
  <2>6. host'.got = buf[c.x].logical
    BY <2>1, <2>2, <2>3 DEF HostType
  <2>7. Abstract!Read(c.x)
    BY <1>1, <2>1, <2>2, <2>4, <2>6 DEF Abstract!Read, Referred
  <2> QED BY <2>5, <2>7 DEF Implements, Abstract!Next
<1>6. c.op \in Writing \cup {"free", "fetch"}
  BY <1>2 DEF Command, Writing
<1> QED BY <1>3, <1>4, <1>5, <1>6
-----------------------------------------------------------------------------
LEMMA NextStep ==
  ASSUME SyncInv, TypeOK', [Next]_vars
  PROVE  Implements
<1>1. CASE UNCHANGED vars
  BY <1>1, StutterStep DEF vars
<1> QED BY <1>1, LifetimeStep, ComputeStep, AccessStep, MatmulCleanupStep, ReturnStep,
           ExecuteStep DEF Next

\* A program whose operations wait cannot tell arrays on a device from values:
\* whatever the streams do, every call acts at once and every read returns what
\* the calls before it left.
THEOREM ImplementsValues ==
  ASSUME Waits
  PROVE  Spec => Refinement
<1>1. Init => Abstract!Init
  BY DEF Init, Abstract!Init, Empty, Idle, Unused
<1>2. SyncInv /\ TypeOK' /\ [Next]_vars => [Abstract!Next]_(Abstract!vars)
  BY NextStep DEF Implements
<1>3. SyncInv => TypeOK
  BY DEF SyncInv, IInv
<1> QED BY <1>1, <1>2, <1>3, SyncInvariance, PTL DEF Spec, Refinement, Abstract!Spec
=============================================================================
