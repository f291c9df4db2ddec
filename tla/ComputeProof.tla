---------------------------- MODULE ComputeProof ----------------------------
(***************************************************************************)
(* Theorems of Compute.  The threads of a launch are those of KernelsProof; *)
(* here they belong to blocks that run one after another, in any order,     *)
(* between the steps of a program that may switch devices.                  *)
(***************************************************************************)
EXTENDS Compute, KernelsProof, FiniteSetTheorems, FunctionTheorems, SequenceTheorems

IsSequence(s) == \E S : s \in Seq(S)

\* A call that has been made is one of the calls; a path and the dimensions that are
\* left of a view are sequences.
Shaped == /\ call \in Calls \cup {NoCall}
          /\ IsSequence(path)
          /\ path # <<>> => IsSequence(view.dims)

TypeInv == TypeOK /\ Shaped

LEMMA ResultDimsNat ==
  ASSUME NEW c, WellFormed(c)
  PROVE  /\ ResultDims(c) \in Seq(Nat)
         /\ c.op \in {"batched", "matrix_multiply"} =>
              /\ Len(ResultDims(c)) = Len(c.a) /\ Len(c.a) >= 2 /\ N(c) \in Nat
              /\ \A i \in 1 .. Len(c.a) :
                   ResultDims(c)[i] = IF i = Len(c.a) THEN N(c) ELSE c.a[i]
<1>1. c.a \in Seq(Nat) /\ c.b \in Seq(Nat)
  BY DEF WellFormed
<1>2. CASE c.op \in {"batched", "matrix_multiply"}
  <2>1. Len(c.a) >= 2 /\ Len(c.b) >= 1
    <3>1. c.op = "batched" => Len(c.a) >= 2 /\ Len(c.b) >= 1
      BY DEF WellFormed
    <3>2. c.op = "matrix_multiply" => Len(c.a) = 2 /\ Len(c.b) = 2
      BY DEF WellFormed
    <3> QED BY <1>2, <3>1, <3>2
  <2>2. N(c) \in Nat
    BY <1>1, <2>1 DEF N, Last
  <2>3. ResultDims(c) = [c.a EXCEPT ![Len(c.a)] = N(c)]
    BY <1>2 DEF ResultDims
  <2>4. ResultDims(c) \in Seq(Nat) /\ Len(ResultDims(c)) = Len(c.a)
    BY <1>1, <2>1, <2>2, <2>3
  <2>5. \A i \in 1 .. Len(c.a) :
          ResultDims(c)[i] = IF i = Len(c.a) THEN N(c) ELSE c.a[i]
    BY <1>1, <2>1, <2>3
  <2> QED BY <2>1, <2>2, <2>4, <2>5
<1>3. CASE c.op = "transpose"
  <2>1. ResultDims(c) = <<c.a[2], c.a[1]>> /\ Len(c.a) = 2
    BY <1>3 DEF ResultDims, WellFormed
  <2> QED BY <1>1, <1>3, <2>1
<1>4. CASE c.op \notin {"batched", "matrix_multiply", "transpose"}
  BY <1>1, <1>4 DEF ResultDims
<1> QED BY <1>2, <1>3, <1>4

LEMMA Assumed ==
  ASSUME NEW c \in Calls
  PROVE  /\ c # NoCall
         /\ \/ c.op = "sequence" /\ c.rank \in Nat \ {0}
            \/ c.op \in Host \ {"sequence"} /\ c.a \in Seq(Nat)
            \/ WellFormed(c)
         /\ Dims(c) \in Seq(Nat)
<1>1. /\ c # NoCall
      /\ \/ /\ c.op = "sequence" /\ c.rank \in Nat \ {0}
            /\ DeducedDims(c.nested, c.rank) \in Seq(Nat)
         \/ c.op \in Host \ {"sequence"} /\ c.a \in Seq(Nat)
         \/ WellFormed(c)
  BY ComputeAssumption DEF SequencesOK
<1>2. CASE c.op = "sequence"
  BY <1>1, <1>2 DEF Dims, WellFormed, OneD, Host
<1>3. CASE c.op \in Host \ {"sequence"} /\ c.a \in Seq(Nat)
  BY <1>1, <1>3 DEF Dims, ResultDims, Host
<1>4. CASE WellFormed(c)
  BY <1>1, <1>4, ResultDimsNat DEF Dims, WellFormed, OneD
<1> QED BY <1>1, <1>2, <1>3, <1>4

LEMMA TypeInit == Init => TypeInv
<1> SUFFICES ASSUME Init PROVE TypeInv
  OBVIOUS
<1>1. <<>> \in Seq({})
  OBVIOUS
<1>2. IsSequence(<<>>)
  BY <1>1 DEF IsSequence
<1> QED BY <1>2, DeviceAssumption
        DEF Init, DeviceInit, TypeInv, TypeOK, DeviceTypeOK, Shaped, Phases

\* What a step of the device interface, of a call's life, and of a subscript does.
LEMMA TypeNext == TypeInv /\ [Next]_vars => TypeInv'
<1> SUFFICES ASSUME TypeInv, [Next]_vars PROVE TypeInv'
  OBVIOUS
<1> USE DEF TypeInv, TypeOK, Shaped
<1>0. \A c \in Calls : c # NoCall
  BY Assumed
<1>1. CASE DeviceStep
  <2>1. DeviceTypeOK'
    BY <1>1, DeviceAssumption DEF DeviceStep, DeviceTypeOK, SetDevice, InitializeContext,
       MemoryStatus, cudaSetDevice
  <2> QED BY <1>1, <2>1 DEF DeviceStep, arrayVars
<1>2. ASSUME NEW c \in Calls, Build(c) PROVE TypeInv'
  BY <1>0, <1>2 DEF Build, deviceVars, DeviceTypeOK, Phases
<1>3. ASSUME NEW c \in Calls, Make(c) PROVE TypeInv'
  BY <1>0, <1>3 DEF Make, Launch, Fresh, deviceVars, DeviceTypeOK, Phases
<1>4. ASSUME NEW c \in Calls, NEW elements, NEW rest, Load(c, elements, rest) PROVE TypeInv'
  BY <1>0, <1>4 DEF Load, Fresh, deviceVars, DeviceTypeOK, Phases
<1>5. ASSUME Operate PROVE TypeInv'
  BY <1>5 DEF Operate, Launch, Fresh, deviceVars, DeviceTypeOK, Phases
<1>6. ASSUME Refuse PROVE TypeInv'
  BY <1>6 DEF Refuse, deviceVars, DeviceTypeOK, Phases
<1>7. ASSUME Return PROVE TypeInv'
  BY <1>7 DEF Return, deviceVars, DeviceTypeOK, Phases
<1>8. ASSUME Drop PROVE TypeInv'
  <2>1. <<>> \in Seq({})
    OBVIOUS
  <2>2. IsSequence(<<>>)
    BY <2>1 DEF IsSequence
  <2> QED BY <1>8, <2>2, DeviceAssumption DEF Drop, deviceVars, DeviceTypeOK, Phases
<1>9. ASSUME NEW b \in todo, RunBlock(b) PROVE TypeInv'
  <2>1. /\ phase = "running" /\ todo' = todo \ {b}
        /\ UNCHANGED <<deviceVars, phase, call, home, path, view>>
    BY <1>9 DEF RunBlock
  <2>2. DOMAIN out' = DOMAIN out
    BY <1>9 DEF RunBlock
  <2>3. DeviceTypeOK' /\ Shaped'
    BY <2>1 DEF deviceVars, DeviceTypeOK
  <2>4. /\ todo' # {} => phase' = "running" /\ todo' \subseteq Cells(Geometry(call').grid)
        /\ phase' \in {"running", "done"} => DOMAIN out' = Positions(call')
    BY <2>1, <2>2
  <2>5. /\ phase' \in Phases /\ (phase' = "idle") = (call' = NoCall)
        /\ home' \in Devices
        /\ path' # <<>> => /\ phase' = "done"
                           /\ Len(view'.dims) = Len(Dims(call')) - Len(path')
    BY <2>1
  <2> HIDE DEF Shaped
  <2> QED BY ONLY <2>3, <2>4, <2>5 DEF TypeInv, TypeOK
<1>10. ASSUME NEW i, Subscript(i) PROVE TypeInv'
  <2>1. /\ phase = "done" /\ Len(path) < Len(Dims(call)) /\ call \in Calls
        /\ view' = IF path = <<>> THEN ArrayAt(Dims(call), i) ELSE ViewAt(view, i)
        /\ path' = Append(path, i)
        /\ UNCHANGED <<deviceVars, phase, call, home, todo, out, stray, twice>>
    BY <1>10 DEF Subscript
  <2>2. Dims(call) \in Seq(Nat)
    BY <2>1, Assumed
  <2>3. PICK P : path \in Seq(P)
    BY DEF IsSequence
  <2>4. path' \in Seq(P \cup {i}) /\ Len(path') = Len(path) + 1 /\ path' # <<>>
    BY <2>1, <2>3
  <2>5. IsSequence(view'.dims) /\ Len(view'.dims) = Len(Dims(call)) - Len(path')
    <3>1. CASE path = <<>>
      <4>1. view'.dims = Tail(Dims(call)) /\ Dims(call) # <<>>
        BY <2>1, <2>2, <3>1 DEF ArrayAt, SubView
      <4>2. Tail(Dims(call)) \in Seq(Nat) /\ Len(Tail(Dims(call))) = Len(Dims(call)) - 1
        BY <2>2, <4>1
      <4>3. Len(path') = 1
        BY <2>3, <2>4, <3>1
      <4> QED BY <4>1, <4>2, <4>3 DEF IsSequence
    <3>2. CASE path # <<>>
      <4>1. PICK V : view.dims \in Seq(V)
        BY <3>2 DEF IsSequence
      <4>2. Len(view.dims) = Len(Dims(call)) - Len(path) /\ Len(view.dims) # 0
        BY <2>1, <2>2, <2>3, <3>2
      <4>3. CASE i >= view.dims[1]
        <5>1. view'.dims = [j \in 1 .. Len(view.dims) - 1 |-> 0]
          BY <2>1, <3>2, <4>3 DEF ViewAt, EmptyView
        <5>2. Len(view.dims) - 1 \in Nat
          BY <4>1, <4>2
        <5>3. view'.dims \in Seq({0}) /\ Len(view'.dims) = Len(view.dims) - 1
          BY <5>1, <5>2
        <5> QED BY <2>2, <2>3, <2>4, <4>2, <5>3 DEF IsSequence
      <4>4. CASE ~(i >= view.dims[1])
        <5>1. view'.dims = Tail(view.dims)
          BY <2>1, <3>2, <4>4 DEF ViewAt, SubView
        <5>2. Tail(view.dims) \in Seq(V) /\ Len(Tail(view.dims)) = Len(view.dims) - 1
          BY <4>1, <4>2
        <5> QED BY <2>2, <2>3, <2>4, <4>2, <5>1, <5>2 DEF IsSequence
      <4> QED BY <4>3, <4>4
    <3> QED BY <3>1, <3>2
  <2>6. IsSequence(path')
    BY <2>4 DEF IsSequence
  <2> QED BY <2>1, <2>4, <2>5, <2>6 DEF deviceVars, DeviceTypeOK, Phases
<1>11. CASE UNCHANGED vars
  BY <1>11 DEF vars, deviceVars, DeviceTypeOK
<1> QED
  BY <1>1, <1>2, <1>3, <1>4, <1>5, <1>6, <1>7, <1>8, <1>9, <1>10, <1>11
     DEF Next, FromSequence, FromHost, FillBytes

\* Types hold: whatever the calls, the blocks that wait are blocks of the launch under
\* way, a result has the elements its dimensions ask for, and what a subscript leads to
\* has the dimensions that are left.
THEOREM TypeCorrectness == Spec => []TypeOK
<1>1. TypeInv => TypeOK
  BY DEF TypeInv
<1> QED BY <1>1, TypeInit, TypeNext, PTL DEF Spec
-----------------------------------------------------------------------------
(* What the blocks of a launch do.                                         *)

\* The numbers of the call's threads and elements do not wrap.
Fits(c) == Numbered(c) /\ ProductsFit(c) /\ SizesFit(c)

\* A thread of a block that has run stores to i.
Stored(i) ==
  \E b \in Cells(Geometry(call).grid) \ todo, t \in Cells(Geometry(call).block) :
    \E s \in ThreadOf(call, b, t) : s.to = i

BlocksInv ==
  /\ TypeInv
  /\ phase = "built" => WellFormed(call)
  /\ phase = "running" => WellFormed(call) /\ Checked(call)
  /\ phase \notin {"running", "done"} => stray = {} /\ twice = {}
  /\ phase = "running" => \A i \in DOMAIN out : out[i] # Unwritten => Stored(i)
  /\ InBounds
  /\ WrittenOnce

LEMMA AcceptedChecked ==
  ASSUME NEW c, WellFormed(c), Accepted(c)
  PROVE  Checked(c)
BY DEF Accepted, Checked, Multipliable

\* Factories have nothing to check.
LEMMA FactoryChecked ==
  ASSUME NEW c \in Calls, c.op \in Factories
  PROVE  WellFormed(c) /\ Checked(c)
<1>1. WellFormed(c)
  BY Assumed DEF Factories, Host
<1>2. Checked(c)
  BY DEF Checked, Factories
<1> QED BY <1>1, <1>2

LEMMA OperatorWellFormed ==
  ASSUME NEW c \in Calls, c.op \notin Host
  PROVE  WellFormed(c)
BY Assumed DEF Host

LEMMA AtMostOne ==
  ASSUME NEW S, \A x, y \in S : x = y
  PROVE  ~(Cardinality(S) > 1)
<1>1. CASE S = {}
  BY <1>1, FS_EmptySet
<1>2. CASE S # {}
  <2>1. PICK x : x \in S
    BY <1>2
  <2>2. S = {x}
    BY <2>1
  <2> QED BY <2>2, FS_Singleton
<1> QED BY <1>1, <1>2

LEMMA StoresAre ==
  ASSUME NEW b
  PROVE  Stores(b) = [t \in Cells(Geometry(call).block) |-> ThreadOf(call, b, t)]
BY DEF Stores, ThreadOf

\* The parts of a block's step that the invariant is about.
LEMMA BlockStep ==
  ASSUME NEW b, RunBlock(b)
  PROVE  LET block == Cells(Geometry(call).block)
             all == UNION {ThreadOf(call, b, t) : t \in block}
         IN  /\ phase = "running" /\ b \in todo
             /\ todo' = todo \ {b} /\ UNCHANGED <<phase, call>>
             /\ DOMAIN out' = DOMAIN out
             /\ \A i \in DOMAIN out : \/ out'[i] = out[i]
                                      \/ \E s \in all : s.to = i
             /\ stray' # stray =>
                  \E s \in all : \/ s.to \notin DOMAIN out
                                 \/ \E r \in s.reads : r[2] \notin 0 .. Extent(r[1]) - 1
             /\ twice' # twice =>
                  \E s \in all :
                    \/ \E t, u \in block : /\ t # u
                                           /\ \E q \in ThreadOf(call, b, t) : q.to = s.to
                                           /\ \E q \in ThreadOf(call, b, u) : q.to = s.to
                    \/ s.to \in DOMAIN out /\ out[s.to] # Unwritten
<1> DEFINE block == Cells(Geometry(call).block)
           stores == Stores(b)
           all == UNION {stores[t] : t \in DOMAIN stores}
           by(i) == {t \in DOMAIN stores : \E s \in stores[t] : s.to = i}
           every == UNION {ThreadOf(call, b, t) : t \in block}
<1>1. /\ phase = "running" /\ b \in todo
      /\ todo' = todo \ {b} /\ UNCHANGED <<phase, call>>
      /\ out' = [i \in DOMAIN out |->
                   IF \E s \in all : s.to = i THEN (CHOOSE s \in all : s.to = i).value
                   ELSE out[i]]
      /\ stray' = stray
           \cup {<<"out", s.to>> : s \in {s \in all : s.to \notin DOMAIN out}}
           \cup {r \in UNION {s.reads : s \in all} : r[2] \notin 0 .. Extent(r[1]) - 1}
      /\ twice' = twice \cup {s.to : s \in {s \in all :
                     \/ Cardinality(by(s.to)) > 1
                     \/ s.to \in DOMAIN out /\ out[s.to] # Unwritten}}
  BY Zenon DEF RunBlock
<1>2. stores = [t \in block |-> ThreadOf(call, b, t)]
  BY StoresAre
<1> HIDE DEF stores, block
<1>3. all = every
  BY <1>2
<1>4. \A i : (\A t, u \in by(i) : t = u) => ~(Cardinality(by(i)) > 1)
  BY AtMostOne
<1>5. \A i : Cardinality(by(i)) > 1 =>
        \E t, u \in block : /\ t # u
                            /\ \E q \in ThreadOf(call, b, t) : q.to = i
                            /\ \E q \in ThreadOf(call, b, u) : q.to = i
  BY <1>2, <1>4
<1> HIDE DEF all, by, every
<1>6. /\ DOMAIN out' = DOMAIN out
      /\ \A i \in DOMAIN out : out'[i] = out[i] \/ \E s \in all : s.to = i
  BY <1>1
<1>7. stray' # stray =>
        \E s \in all : \/ s.to \notin DOMAIN out
                       \/ \E r \in s.reads : r[2] \notin 0 .. Extent(r[1]) - 1
  BY <1>1
<1>8. twice' # twice =>
        \E s \in all : \/ Cardinality(by(s.to)) > 1
                       \/ s.to \in DOMAIN out /\ out[s.to] # Unwritten
  BY <1>1
<1>9. twice' # twice =>
        \E s \in all :
          \/ \E t, u \in block : /\ t # u
                                 /\ \E q \in ThreadOf(call, b, t) : q.to = s.to
                                 /\ \E q \in ThreadOf(call, b, u) : q.to = s.to
          \/ s.to \in DOMAIN out /\ out[s.to] # Unwritten
  BY <1>5, <1>8
<1> QED BY <1>1, <1>3, <1>6, <1>7, <1>9 DEF every, block

\* A block touches only what is there.
LEMMA BlockInBounds ==
  ASSUME BlocksInv, NEW b, RunBlock(b)
  PROVE  InBounds'
<1> DEFINE block == Cells(Geometry(call).block)
           all == UNION {ThreadOf(call, b, t) : t \in block}
<1>1. /\ phase = "running" /\ b \in todo /\ call' = call
      /\ stray' # stray =>
           \E s \in all : \/ s.to \notin DOMAIN out
                          \/ \E r \in s.reads : r[2] \notin 0 .. Extent(r[1]) - 1
  BY BlockStep
<1>2. /\ WellFormed(call) /\ Checked(call) /\ InBounds
      /\ b \in Cells(Geometry(call).grid) /\ DOMAIN out = Positions(call)
  BY <1>1 DEF BlocksInv, TypeInv, TypeOK
<1>3. Positions(call) = 0 .. Size(ResultDims(call)) - 1
  BY <1>2 DEF Positions, Dims, WellFormed, OneD
<1>4. ASSUME SizesFit(call), ~BeyondInt(call), NEW s \in all
      PROVE  s.to \in DOMAIN out /\ \A r \in s.reads : r[2] \in 0 .. Extent(r[1]) - 1
  <2>1. PICK t \in block : s \in ThreadOf(call, b, t)
    BY <1>4
  <2>2. Within(call, s)
    BY <1>2, <1>4, <2>1, LaunchWithin
  <2>3. s.to \in DOMAIN out
    BY <1>2, <1>3, <2>2 DEF Within
  <2>4. \A r \in s.reads : r[2] \in 0 .. Extent(r[1]) - 1
    BY <2>2 DEF Within, WithinOperands, Extent
  <2> QED BY <2>3, <2>4
<1> HIDE DEF all
<1>5. ASSUME SizesFit(call), ~BeyondInt(call) PROVE stray' = stray
  BY <1>1, <1>4, <1>5
<1>6. stray' # {} => BeyondInt(call) \/ ~SizesFit(call)
  BY <1>2, <1>5 DEF InBounds
<1> QED BY <1>1, <1>6 DEF InBounds

\* A block stores to elements of its own.
LEMMA BlockWritesOnce ==
  ASSUME BlocksInv, NEW b, RunBlock(b)
  PROVE  WrittenOnce'
<1> DEFINE block == Cells(Geometry(call).block)
           all == UNION {ThreadOf(call, b, t) : t \in block}
<1>1. /\ phase = "running" /\ b \in todo /\ call' = call
      /\ twice' # twice =>
           \E s \in all :
             \/ \E t, u \in block : /\ t # u
                                    /\ \E q \in ThreadOf(call, b, t) : q.to = s.to
                                    /\ \E q \in ThreadOf(call, b, u) : q.to = s.to
             \/ s.to \in DOMAIN out /\ out[s.to] # Unwritten
  BY BlockStep
<1>2. /\ WellFormed(call) /\ Checked(call) /\ WrittenOnce
      /\ b \in Cells(Geometry(call).grid)
      /\ \A i \in DOMAIN out : out[i] # Unwritten => Stored(i)
  BY <1>1 DEF BlocksInv, TypeInv, TypeOK
<1>3. ASSUME Fits(call), twice' # twice PROVE FALSE
  <2>1. SizesFit(call) /\ Numbered(call)
        /\ (call.op = "matrix_multiply" => M(call) * N(call) <= 2^Bits32)
    BY <1>3 DEF Fits, ProductsFit
  <2>2. PICK s \in all :
          \/ \E t, u \in block : /\ t # u
                                 /\ \E q \in ThreadOf(call, b, t) : q.to = s.to
                                 /\ \E q \in ThreadOf(call, b, u) : q.to = s.to
          \/ s.to \in DOMAIN out /\ out[s.to] # Unwritten
    BY <1>1, <1>3
  <2>3. PICK v \in block : s \in ThreadOf(call, b, v)
    BY <2>2
  <2>4. ASSUME NEW t \in block, NEW u \in block, t # u,
               NEW q \in ThreadOf(call, b, t), q.to = s.to,
               NEW r \in ThreadOf(call, b, u), r.to = s.to
        PROVE  FALSE
    <3>1. q.to = r.to
      BY <2>4
    <3>2. t = u
      BY <1>2, <2>1, <3>1, LaunchOnce
    <3> QED BY <2>4, <3>2
  <2>5. ASSUME s.to \in DOMAIN out, out[s.to] # Unwritten PROVE FALSE
    <3>1. Stored(s.to)
      BY <1>2, <2>5
    <3>2. PICK d \in Cells(Geometry(call).grid) \ todo, u \in block :
            \E q \in ThreadOf(call, d, u) : q.to = s.to
      BY <3>1 DEF Stored
    <3>3. d \in Cells(Geometry(call).grid) /\ d \notin todo
      BY <3>2
    <3>4. b = d
      BY <1>2, <2>1, <2>3, <3>2, <3>3, LaunchOnce
    <3> QED BY <1>1, <3>3, <3>4
  <2> QED BY <2>2, <2>4, <2>5
<1>4. twice' # {} => ~Fits(call)
  BY <1>2, <1>3 DEF WrittenOnce, Fits
<1> QED BY <1>1, <1>4 DEF WrittenOnce, Fits

LEMMA BlockStored ==
  ASSUME BlocksInv, NEW b, RunBlock(b)
  PROVE  \A i \in DOMAIN out' : out'[i] # Unwritten => Stored(i)'
<1> DEFINE block == Cells(Geometry(call).block)
           all == UNION {ThreadOf(call, b, t) : t \in block}
<1>1. /\ phase = "running" /\ b \in todo /\ call' = call /\ todo' = todo \ {b}
      /\ DOMAIN out' = DOMAIN out
      /\ \A i \in DOMAIN out : \/ out'[i] = out[i]
                               \/ \E s \in all : s.to = i
  BY BlockStep
<1>2. /\ b \in Cells(Geometry(call).grid)
      /\ \A i \in DOMAIN out : out[i] # Unwritten => Stored(i)
  BY <1>1 DEF BlocksInv, TypeInv, TypeOK
<1>3. ASSUME NEW i
      PROVE  Stored(i)' <=> \E d \in Cells(Geometry(call).grid) \ todo', t \in block :
                              \E s \in ThreadOf(call, d, t) : s.to = i
  BY <1>1 DEF Stored
<1>4. ASSUME NEW i \in DOMAIN out', out'[i] # Unwritten PROVE Stored(i)'
  <2>1. CASE \E s \in all : s.to = i
    <3>1. \E t \in block : \E s \in ThreadOf(call, b, t) : s.to = i
      BY <2>1
    <3>2. b \in Cells(Geometry(call).grid) \ todo'
      BY <1>1, <1>2
    <3> QED BY <1>3, <3>1, <3>2
  <2>2. CASE out'[i] = out[i]
    <3>1. Stored(i)
      BY <1>1, <1>2, <1>4, <2>2
    <3>2. PICK d \in Cells(Geometry(call).grid) \ todo :
            \E t \in block : \E s \in ThreadOf(call, d, t) : s.to = i
      BY <3>1 DEF Stored
    <3>3. d \in Cells(Geometry(call).grid) \ todo'
      BY <1>1, <3>2
    <3> QED BY <1>3, <3>2, <3>3
  <2> QED BY <1>1, <1>4, <2>1, <2>2
<1> QED BY <1>4

LEMMA BlocksInit == Init => BlocksInv
BY TypeInit DEF BlocksInv, Init, InBounds, WrittenOnce

LEMMA BlocksNext == BlocksInv /\ [Next]_vars => BlocksInv'
<1> SUFFICES ASSUME BlocksInv, [Next]_vars PROVE BlocksInv'
  OBVIOUS
<1>0. /\ TypeInv /\ TypeInv'
      /\ phase = "built" => WellFormed(call)
      /\ phase = "running" => WellFormed(call) /\ Checked(call)
      /\ phase \notin {"running", "done"} => stray = {} /\ twice = {}
      /\ InBounds /\ WrittenOnce
  BY TypeNext DEF BlocksInv
<1> DEFINE Rest == /\ phase' = "built" => WellFormed(call')
                   /\ phase' = "running" => WellFormed(call') /\ Checked(call')
                   /\ phase' \notin {"running", "done"} => stray' = {} /\ twice' = {}
                   /\ phase' = "running" =>
                        \A i \in DOMAIN out' : out'[i] # Unwritten => Stored(i)'
                   /\ InBounds' /\ WrittenOnce'
<1>1. CASE UNCHANGED arrayVars
  BY <1>0, <1>1 DEF arrayVars, BlocksInv, Stored, InBounds, WrittenOnce
<1>2. ASSUME stray' = {}, twice' = {} PROVE InBounds' /\ WrittenOnce'
  BY <1>2 DEF InBounds, WrittenOnce
<1>3. ASSUME NEW c \in Calls, Build(c) PROVE Rest
  <2>1. WellFormed(c)
    BY <1>3, OperatorWellFormed DEF Build
  <2>2. phase = "idle" /\ phase' = "built" /\ call' = c /\ UNCHANGED <<stray, twice>>
    BY <1>3 DEF Build
  <2> QED BY <1>0, <1>2, <2>1, <2>2
<1>4. ASSUME NEW c, NEW device, Launch(c, device), call' = c, phase \in {"idle", "built"},
             WellFormed(c), Checked(c)
      PROVE  Rest
  <2>1. stray' = {} /\ twice' = {} /\ phase' \in {"running", "failed"}
        /\ (phase' = "running" => out' = Fresh(c))
    BY <1>0, <1>4 DEF Launch
  <2>2. phase' = "running" => \A i \in DOMAIN out' : out'[i] = Unwritten
    BY <2>1 DEF Fresh
  <2> QED BY <1>2, <1>4, <2>1, <2>2
<1>5. ASSUME NEW c \in Calls, Make(c) PROVE Rest
  BY <1>4, <1>5, FactoryChecked DEF Make
<1>6. ASSUME Operate PROVE Rest
  <2>1. WellFormed(call) /\ Checked(call)
    BY <1>0, <1>6, AcceptedChecked DEF Operate
  <2> QED BY <1>4, <1>6, <2>1 DEF Operate
<1>7. ASSUME NEW c, NEW elements, NEW rest, Load(c, elements, rest) PROVE Rest
  <2>1. phase = "idle" /\ phase' \in {"done", "undefined"} /\ UNCHANGED <<stray, twice>>
    BY <1>7 DEF Load
  <2> QED BY <1>0, <1>2, <2>1
<1>8. ASSUME Refuse PROVE Rest
  <2>1. phase = "built" /\ phase' = "refused" /\ UNCHANGED <<stray, twice>>
    BY <1>8 DEF Refuse
  <2> QED BY <1>0, <1>2, <2>1
<1>9. ASSUME Return PROVE Rest
  <2>1. phase' = "done" /\ UNCHANGED <<call, stray, twice>>
    BY <1>9 DEF Return
  <2> QED BY <1>0, <2>1 DEF InBounds, WrittenOnce
<1>10. ASSUME Drop PROVE Rest
  <2>1. phase' = "idle" /\ stray' = {} /\ twice' = {}
    BY <1>10 DEF Drop
  <2> QED BY <1>2, <2>1
<1>11. ASSUME NEW i, Subscript(i) PROVE Rest
  <2>1. phase' = "done" /\ UNCHANGED <<call, stray, twice>>
    BY <1>11 DEF Subscript
  <2> QED BY <1>0, <2>1 DEF InBounds, WrittenOnce
<1>12. ASSUME NEW b \in todo, RunBlock(b) PROVE Rest
  <2>1. phase = "running" /\ UNCHANGED <<phase, call>>
    BY <1>12, BlockStep
  <2>2. InBounds' /\ WrittenOnce' /\ \A i \in DOMAIN out' : out'[i] # Unwritten => Stored(i)'
    BY <1>12, BlockInBounds, BlockWritesOnce, BlockStored
  <2> QED BY <1>0, <2>1, <2>2
<1>13. ASSUME Rest PROVE BlocksInv'
  BY <1>0, <1>13 DEF BlocksInv
<1> HIDE DEF Rest
<1> QED
  BY <1>1, <1>3, <1>5, <1>6, <1>7, <1>8, <1>9, <1>10, <1>11, <1>12, <1>13
     DEF Next, DeviceStep, FromSequence, FromHost, FillBytes, vars, arrayVars

LEMMA Blocks == Spec => []BlocksInv
BY BlocksInit, BlocksNext, PTL DEF Spec

\* No thread of any launch touches memory outside its arrays, whatever the shapes, the
\* widths of the integers, the devices and the order of the blocks; but for elementwise
\* operations beyond int, and arrays whose size wraps.
THEOREM AlwaysInBounds == Spec => []InBounds
<1>1. BlocksInv => InBounds
  BY DEF BlocksInv
<1> QED BY <1>1, Blocks, PTL

\* No two threads of a launch store to one element, so that the order in which the
\* blocks run makes no difference.
THEOREM AlwaysWrittenOnce == Spec => []WrittenOnce
<1>1. BlocksInv => WrittenOnce
  BY DEF BlocksInv
<1> QED BY <1>1, Blocks, PTL
-----------------------------------------------------------------------------
(* Failures.                                                               *)

LEMMA LaunchFails ==
  ASSUME TypeInv, NEW c, WellFormed(c), Checked(c), ~CanLaunch(c, current)
  PROVE  \/ Size(Dims(c)) = 0
         \/ \E axis \in Axes :
              Work(c)[axis] > Geometry(c).block[axis] * Limits[0].grid[axis]
         \/ ~AtLeastDevice0(current)
<1> SUFFICES ASSUME Size(Dims(c)) # 0, AtLeastDevice0(current),
                    \A axis \in Axes :
                      ~(Work(c)[axis] > Geometry(c).block[axis] * Limits[0].grid[axis])
             PROVE  Launchable(Geometry(c), Limits[current])
  BY DEF CanLaunch
<1>1. current \in DOMAIN Limits
  BY ComputeAssumption DEF TypeInv, TypeOK, DeviceTypeOK
<1>2. /\ Limits[current].threads \in Nat
      /\ \A axis \in Axes : /\ Limits[current].block[axis] \in Nat
                            /\ Limits[current].grid[axis] \in Nat
  BY <1>1, LimitsAssumption DEF Axes
<1>3. Dims(c) = ResultDims(c)
  BY DEF Dims, WellFormed, OneD
<1>4. Size(ResultDims(c)) # 0 /\ Size(ResultDims(c)) \in Nat
  BY <1>3, ResultDimsAre
<1>5. AtLeast(Limits[current])
  BY DEF AtLeastDevice0, AtLeast
<1> QED BY <1>2, <1>4, <1>5, LaunchFits

\* A launch on the operands' device fails only for want of work, for more work than device
\* 0's grid holds, or on a device smaller than device 0.
THEOREM LaunchesFailOnlyIf == Spec => FailsOnlyIf
<1> DEFINE Excused == \/ Size(Dims(call')) = 0
                      \/ \E axis \in Axes : Work(call')[axis]
                                              > Geometry(call').block[axis] * Limits[0].grid[axis]
                      \/ home' # current
                      \/ ~AtLeastDevice0(current)
<1>1. ASSUME BlocksInv, [Next]_vars, phase # "failed", phase' = "failed" PROVE Excused
  <2>1. ASSUME NEW c, NEW device, Launch(c, device), call' = c, home' = device,
               WellFormed(c), Checked(c)
        PROVE  Excused
    <3>1. ~CanLaunch(c, device)
      BY <1>1, <2>1 DEF Launch
    <3>2. CASE device = current
      BY <1>1, <2>1, <3>1, <3>2, LaunchFails DEF BlocksInv
    <3>3. CASE device # current
      BY <2>1, <3>3
    <3> QED BY <3>2, <3>3
  <2>2. CASE Operate
    <3>1. WellFormed(call) /\ Checked(call) /\ Launch(call, home) /\ UNCHANGED <<call, home>>
      BY <1>1, <2>2, AcceptedChecked DEF Operate, BlocksInv
    <3> QED BY <2>1, <3>1
  <2>3. ASSUME NEW c \in Calls, Make(c) PROVE Excused
    BY <2>1, <2>3, FactoryChecked DEF Make
  <2>4. Operate \/ \E c \in Calls : Make(c)
    <3>1. ASSUME NEW c \in Calls, Build(c) PROVE FALSE
      BY <1>1, <3>1 DEF Build
    <3>2. ASSUME NEW c, NEW elements, NEW rest, Load(c, elements, rest) PROVE FALSE
      BY <1>1, <3>2 DEF Load
    <3>3. ASSUME NEW b \in todo, RunBlock(b) PROVE FALSE
      BY <1>1, <3>3 DEF RunBlock
    <3>4. ~Refuse /\ ~Return /\ ~Drop /\ ~DeviceStep /\ ~UNCHANGED vars
      BY <1>1 DEF Refuse, Return, Drop, DeviceStep, arrayVars, vars
    <3>5. ASSUME NEW i, Subscript(i) PROVE FALSE
      BY <1>1, <3>5 DEF Subscript
    <3> QED BY <1>1, <3>1, <3>2, <3>3, <3>4, <3>5 DEF Next, FromSequence, FromHost, FillBytes
  <2> QED BY <2>2, <2>3, <2>4
<1>2. BlocksInv /\ [Next]_vars => [phase # "failed" /\ phase' = "failed" => Excused]_vars
  BY <1>1
<1> QED BY <1>2, Blocks, PTL DEF Spec, FailsOnlyIf

\* The handler's number and the current device part only as PartsOnFailureOnly says.
THEOREM DevicesPartOnFailureOnly == Spec => PartsOnFailureOnly
<1>1. TypeInv /\ [Next]_vars =>
        [deviceID = current /\ deviceID' # current' =>
           deviceID' \notin Devices \/ UNCHANGED deviceID]_deviceVars
  <2> SUFFICES ASSUME TypeInv, [Next]_vars, deviceID = current, deviceID' # current',
                      deviceID' \in Devices
               PROVE  UNCHANGED deviceID
    BY DEF deviceVars
  <2>1. CASE DeviceStep
    BY <2>1 DEF DeviceStep, SetDevice, InitializeContext, MemoryStatus, cudaSetDevice
  <2>2. CASE UNCHANGED deviceVars
    BY <2>2 DEF deviceVars
  <2>3. DeviceStep \/ UNCHANGED deviceVars
    BY DEF Next, Build, Make, Launch, FromSequence, FromHost, FillBytes, Load, Operate, Refuse,
           Return, Drop, RunBlock, Subscript, vars, deviceVars
  <2> QED BY <2>1, <2>2, <2>3
<1>2. Spec => []TypeInv
  BY TypeInit, TypeNext, PTL DEF Spec
<1> QED BY <1>1, <1>2, PTL DEF Spec, PartsOnFailureOnly
-----------------------------------------------------------------------------
(* Row-major order.                                                        *)

\* The number of the part of an index up to each dimension.
Horner(dims, p) ==
  LET number[i \in 0 .. Len(dims)] ==
        IF i = 0 THEN 0 ELSE number[i - 1] * dims[i] + p[i]
  IN  number

Number(dims, p) == Horner(dims, p)[Len(dims)]

IsIndex(dims, p) == /\ p \in [1 .. Len(dims) -> Nat]
                    /\ \A i \in 1 .. Len(dims) : p[i] < dims[i]

LEMMA HornerIs ==
  ASSUME NEW dims \in Seq(Nat), NEW p \in [1 .. Len(dims) -> Nat]
  PROVE  /\ Horner(dims, p) \in [0 .. Len(dims) -> Nat]
         /\ Horner(dims, p)[0] = 0
         /\ \A i \in 1 .. Len(dims) :
              Horner(dims, p)[i] = Horner(dims, p)[i - 1] * dims[i] + p[i]
<1> DEFINE n == Len(dims)
           step == [i \in 1 .. n |-> [s \in Nat |-> s * dims[i] + p[i]]]
           Is(g) == g = [i \in 0 .. n |-> IF i = 0 THEN 0 ELSE g[i - 1] * dims[i] + p[i]]
           f == CHOOSE g : Is(g)
<1>1. n \in Nat /\ \A i \in 1 .. n : dims[i] \in Nat /\ p[i] \in Nat
  OBVIOUS
<1>2. \A i \in 1 .. n, s \in Nat : s * dims[i] + p[i] \in Nat
  BY <1>1
<1>3. step \in [1 .. n -> [Nat -> Nat]]
  BY <1>2
<1>4. \A i \in 1 .. n, s \in Nat : step[i][s] = s * dims[i] + p[i]
  OBVIOUS
<1>5. Horner(dims, p) = f
  BY DEF Horner
<1> HIDE DEF n, step
<1>6. \A i \in 0 .. n : i # 0 => i \in 1 .. n /\ i - 1 \in 0 .. n
  BY <1>1
<1>7. PICK g \in [0 .. n -> Nat] : IsUp(g, n, 0, step)
  BY <1>1, <1>3, UpRecursion
<1>8. Is(g)
  BY <1>4, <1>6, <1>7 DEF IsUp
<1>9. Is(f)
  BY <1>8
<1> HIDE DEF f
<1>10. f[0] = 0 /\ \A i \in 1 .. n : f[i] = f[i - 1] * dims[i] + p[i]
  BY <1>1, <1>9
<1>11. \A i \in 1 .. n : f[i - 1] \in Nat => f[i] \in Nat
  BY <1>2, <1>10
<1>12. \A i \in 0 .. n : f[i] \in Nat
  <2>1. f[0] \in Nat
    BY <1>10
  <2> QED BY <1>1, <1>11, <2>1, UpTyped, Zenon
<1>13. f \in [0 .. n -> Nat]
  BY <1>9, <1>12
<1> QED BY <1>5, <1>10, <1>13 DEF n

\* It depends on that part of the dimensions and of the index only.
LEMMA HornerPrefix ==
  ASSUME NEW dims \in Seq(Nat), NEW p \in [1 .. Len(dims) -> Nat],
         NEW ems \in Seq(Nat), NEW q \in [1 .. Len(ems) -> Nat],
         NEW n \in Nat, n <= Len(dims), n <= Len(ems),
         \A i \in 1 .. n : dims[i] = ems[i] /\ p[i] = q[i]
  PROVE  \A i \in 0 .. n : Horner(dims, p)[i] = Horner(ems, q)[i]
<1> DEFINE h == Horner(dims, p)
           g == Horner(ems, q)
           T == {i \in 0 .. n : h[i] = g[i]}
<1>1. /\ h[0] = 0 /\ \A i \in 1 .. Len(dims) : h[i] = h[i - 1] * dims[i] + p[i]
      /\ g[0] = 0 /\ \A i \in 1 .. Len(ems) : g[i] = g[i - 1] * ems[i] + q[i]
  BY HornerIs
<1> HIDE DEF h, g
<1>2. 0 \in T
  BY <1>1
<1>3. ASSUME NEW i \in 0 .. n - 1, i \in T PROVE i + 1 \in T
  <2>1. /\ i + 1 \in 1 .. Len(dims) /\ i + 1 \in 1 .. Len(ems) /\ i + 1 \in 1 .. n
        /\ (i + 1) - 1 = i
    OBVIOUS
  <2> QED BY <1>1, <1>3, <2>1
<1> HIDE DEF T
<1>4. 0 .. n \subseteq T
  BY <1>2, <1>3, Upwards
<1> QED BY <1>4 DEF T, h, g

LEMMA HornerStep ==
  ASSUME NEW x \in Nat, NEW y \in Nat, NEW d \in Nat, NEW i \in Nat, NEW j \in Nat,
         x < y, i < d
  PROVE  x * d + i < y * d + j
<1>1. x + 1 \in Nat /\ x + 1 <= y
  OBVIOUS
<1>2. (x + 1) * d <= y * d
  BY <1>1, TimesMonotone
<1>3. (x + 1) * d = x * d + d /\ x * d \in Nat /\ y * d \in Nat
  OBVIOUS
<1> QED BY <1>2, <1>3

\* The numbers of indices into an array are below the number of its elements.
LEMMA HornerBelow ==
  ASSUME NEW dims \in Seq(Nat), NEW p, IsIndex(dims, p)
  PROVE  \A i \in 0 .. Len(dims) : Horner(dims, p)[i] < Products(dims)[i]
<1> DEFINE n == Len(dims)
           h == Horner(dims, p)
           P == Products(dims)
           T == {i \in 0 .. n : h[i] < P[i]}
<1>1. /\ n \in Nat /\ h \in [0 .. n -> Nat] /\ P \in [0 .. n -> Nat]
      /\ h[0] = 0 /\ \A i \in 1 .. n : h[i] = h[i - 1] * dims[i] + p[i]
      /\ P[0] = 1 /\ \A i \in 1 .. n : P[i] = P[i - 1] * dims[i]
      /\ \A i \in 1 .. n : dims[i] \in Nat /\ p[i] \in Nat /\ p[i] < dims[i]
  <2>1. p \in [1 .. n -> Nat] /\ \A i \in 1 .. n : p[i] < dims[i]
    BY DEF IsIndex
  <2>2. /\ h \in [0 .. n -> Nat] /\ h[0] = 0
        /\ \A i \in 1 .. n : h[i] = h[i - 1] * dims[i] + p[i]
    BY <2>1, HornerIs
  <2>3. /\ P \in [0 .. n -> Nat] /\ P[0] = 1
        /\ \A i \in 1 .. n : P[i] = P[i - 1] * dims[i]
    BY ProductsAre
  <2>4. n \in Nat /\ \A i \in 1 .. n : dims[i] \in Nat /\ p[i] \in Nat /\ p[i] < dims[i]
    BY <2>1
  <2> HIDE DEF h, P, n
  <2> QED BY ONLY <2>2, <2>3, <2>4, Zenon
<1> HIDE DEF h, P, n
<1>2. 0 \in T
  BY <1>1
<1>3. ASSUME NEW i \in 0 .. n - 1, i \in T PROVE i + 1 \in T
  <2>1. i + 1 \in 1 .. n /\ i \in 0 .. n /\ (i + 1) - 1 = i
    BY <1>1
  <2> DEFINE x == h[i]
             y == P[i]
             d == dims[i + 1]
             k == p[i + 1]
  <2>2. /\ x \in Nat /\ y \in Nat /\ d \in Nat /\ k \in Nat /\ x < y /\ k < d
        /\ h[i + 1] = x * d + k /\ P[i + 1] = y * d
    BY <1>1, <1>3, <2>1
  <2> HIDE DEF x, y, d, k
  <2>3. x * d + k < y * d + 0
    BY ONLY <2>2, 0 \in Nat, HornerStep
  <2>4. x * d + k < y * d
    BY <2>2, <2>3
  <2> QED BY <2>1, <2>2, <2>4
<1> HIDE DEF T
<1>4. 0 .. n \subseteq T
  BY <1>1, <1>2, <1>3, Upwards
<1> QED BY <1>4 DEF T, h, P, n

\* They are in row-major order.
LEMMA NumberBefore ==
  ASSUME NEW dims \in Seq(Nat), NEW p, IsIndex(dims, p), NEW q, IsIndex(dims, q),
         Before(p, q)
  PROVE  Number(dims, p) < Number(dims, q)
<1> DEFINE n == Len(dims)
           h == Horner(dims, p)
           g == Horner(dims, q)
<1>1. /\ n \in Nat /\ h \in [0 .. n -> Nat] /\ g \in [0 .. n -> Nat]
      /\ \A i \in 1 .. n : h[i] = h[i - 1] * dims[i] + p[i]
      /\ \A i \in 1 .. n : g[i] = g[i - 1] * dims[i] + q[i]
      /\ \A i \in 1 .. n : /\ dims[i] \in Nat
                           /\ p[i] \in Nat /\ p[i] < dims[i] /\ q[i] \in Nat
      /\ p \in [1 .. n -> Nat] /\ q \in [1 .. n -> Nat]
  BY HornerIs DEF IsIndex
<1>2. PICK m \in 1 .. n : p[m] < q[m] /\ \A j \in 1 .. m - 1 : p[j] = q[j]
  BY <1>1 DEF Before
<1>3. h[m - 1] = g[m - 1]
  <2>1. m - 1 \in Nat /\ m - 1 <= Len(dims) /\ m - 1 \in 0 .. m - 1
    OBVIOUS
  <2>2. \A i \in 0 .. m - 1 : h[i] = g[i]
    BY <1>1, <1>2, <2>1, HornerPrefix
  <2> QED BY <2>1, <2>2
<1> DEFINE T == {i \in 0 .. n : i < m \/ h[i] < g[i]}
<1> HIDE DEF n, h, g
<1>4. 0 \in T
  BY <1>1, <1>2
<1>5. ASSUME NEW i \in 0 .. n - 1, i \in T PROVE i + 1 \in T
  <2>1. i + 1 \in 1 .. n /\ i \in 0 .. n /\ (i + 1) - 1 = i
    BY <1>1
  <2> DEFINE x == h[i]
             y == g[i]
             d == dims[i + 1]
             k == p[i + 1]
             l == q[i + 1]
  <2>2. /\ x \in Nat /\ y \in Nat /\ d \in Nat /\ k \in Nat /\ l \in Nat /\ k < d
        /\ h[i + 1] = x * d + k /\ g[i + 1] = y * d + l
    BY <1>1, <2>1
  <2>3. CASE i + 1 < m
    BY <2>1, <2>3
  <2>4. CASE i + 1 = m
    <3>1. x = y /\ k < l
      BY <1>2, <1>3, <2>1, <2>4
    <3> HIDE DEF x, y, d, k, l
    <3>2. x * d + k < y * d + l
      BY <2>2, <3>1
    <3> QED BY <2>1, <2>2, <3>2
  <2>5. CASE i + 1 > m
    <3>1. x < y
      BY <1>1, <1>2, <1>5, <2>5
    <3> HIDE DEF x, y, d, k, l
    <3>2. x * d + k < y * d + l
      BY ONLY <2>2, <3>1, HornerStep
    <3> QED BY <2>1, <2>2, <3>2
  <2> QED BY <1>1, <1>2, <2>1, <2>3, <2>4, <2>5
<1> HIDE DEF T
<1>6. 0 .. n \subseteq T
  BY <1>1, <1>4, <1>5, Upwards
<1>7. h[n] < g[n]
  BY <1>1, <1>2, <1>6 DEF T
<1> QED BY <1>7 DEF n, h, g, Number

\* Of two indices one comes before the other.
LEMMA BeforeTotal ==
  ASSUME NEW n \in Nat, NEW p \in [1 .. n -> Nat], NEW q \in [1 .. n -> Nat], p # q
  PROVE  Before(p, q) \/ Before(q, p)
<1> DEFINE T == {i \in 1 .. n : p[i] # q[i]}
<1>1. T \in SUBSET Nat /\ T # {}
  OBVIOUS
<1> HIDE DEF T
<1>2. PICK m \in T : \A i \in T : m <= i
  BY <1>1, LeastElement
<1>3. m \in 1 .. n /\ p[m] # q[m] /\ \A j \in 1 .. m - 1 : p[j] = q[j]
  BY <1>2 DEF T
<1>4. p[m] < q[m] \/ q[m] < p[m]
  BY <1>3
<1> QED BY <1>3, <1>4 DEF Before

LEMMA NumberOrder ==
  ASSUME NEW dims \in Seq(Nat), NEW p, IsIndex(dims, p), NEW q, IsIndex(dims, q)
  PROVE  /\ Number(dims, p) = Number(dims, q) => p = q
         /\ Before(p, q) <=> Number(dims, p) < Number(dims, q)
<1>1. /\ Number(dims, p) \in Nat /\ Number(dims, q) \in Nat
      /\ p \in [1 .. Len(dims) -> Nat] /\ q \in [1 .. Len(dims) -> Nat]
  BY HornerIs, Len(dims) \in 0 .. Len(dims) DEF IsIndex, Number
<1>2. Before(p, q) => Number(dims, p) < Number(dims, q)
  BY NumberBefore
<1>3. Before(q, p) => Number(dims, q) < Number(dims, p)
  BY NumberBefore
<1>4. p # q => Before(p, q) \/ Before(q, p)
  BY <1>1, BeforeTotal, Len(dims) \in Nat
<1> QED BY <1>1, <1>2, <1>3, <1>4

LEMMA DimsBelow ==
  ASSUME NEW dims \in Seq(Nat), \A i \in 1 .. Len(dims) : dims[i] # 0
  PROVE  \A i \in 1 .. Len(dims) : dims[i] <= Elements(dims)
<1> DEFINE n == Len(dims)
           P == Products(dims)
<1>1. /\ n \in Nat /\ \A i \in 1 .. n : dims[i] \in Nat \ {0}
  OBVIOUS
<1>2. /\ P \in [0 .. n -> Nat] /\ P[0] = 1
      /\ \A i \in 1 .. n : P[i] = P[i - 1] * dims[i]
  BY ProductsAre
<1> HIDE DEF n, P
<1> SUFFICES ASSUME NEW k \in 1 .. n PROVE dims[k] <= P[n]
  BY DEF n, P, Elements
<1> DEFINE T == {i \in 0 .. n : P[i] # 0 /\ (i < k \/ dims[k] <= P[i])}
<1>3. 0 \in T
  BY <1>1, <1>2
<1>4. ASSUME NEW i \in 0 .. n - 1, i \in T PROVE i + 1 \in T
  <2>1. i + 1 \in 1 .. n /\ i \in 0 .. n /\ (i + 1) - 1 = i
    BY <1>1
  <2> DEFINE x == P[i]
             d == dims[i + 1]
  <2>2. x \in Nat /\ x # 0 /\ d \in Nat \ {0} /\ P[i + 1] = x * d
        /\ (i < k \/ dims[k] <= x)
    BY <1>1, <1>2, <1>4, <2>1
  <2> HIDE DEF x, d
  <2>3. x * d \in Nat /\ x * d # 0 /\ d <= x * d /\ x <= x * d
    BY <2>2, TimesPositive
  <2>4. i + 1 < k \/ dims[k] <= P[i + 1]
    <3>1. CASE dims[k] <= x
      <4>1. dims[k] \in Nat
        BY <1>1
      <4>2. dims[k] <= x * d
        BY <2>2, <2>3, <3>1, <4>1, Transitive
      <4> QED BY <2>2, <4>2
    <3>2. CASE k = i + 1
      BY <2>2, <2>3, <3>2 DEF d
    <3>3. CASE i < k /\ k # i + 1
      BY <1>1, <3>3
    <3> QED BY <2>2, <3>1, <3>2, <3>3
  <2> QED BY <2>1, <2>2, <2>3, <2>4
<1> HIDE DEF T
<1>5. 0 .. n \subseteq T
  BY <1>1, <1>3, <1>4, Upwards
<1>6. n \in T /\ ~(n < k)
  BY <1>1, <1>5
<1> QED BY <1>6 DEF T

LEMMA AllIndicesAre ==
  ASSUME NEW dims \in Seq(Nat), NEW p
  PROVE  p \in AllIndices(dims) <=> IsIndex(dims, p)
<1>1. DOMAIN dims = 1 .. Len(dims) /\ \A i \in 1 .. Len(dims) : dims[i] \in Nat
  OBVIOUS
<1>2. Elements(dims) \in Nat
  BY ProductsAre, Len(dims) \in 0 .. Len(dims) DEF Elements
<1>3. ASSUME p \in AllIndices(dims) PROVE IsIndex(dims, p)
  <2>1. /\ p \in [1 .. Len(dims) -> 0 .. Elements(dims)]
        /\ \A i \in 1 .. Len(dims) : p[i] < dims[i]
    BY <1>1, <1>3 DEF AllIndices
  <2>2. 0 .. Elements(dims) \subseteq Nat
    BY <1>2
  <2>3. p \in [1 .. Len(dims) -> Nat]
    BY <2>1, <2>2
  <2> QED BY <2>1, <2>3 DEF IsIndex
<1>4. ASSUME IsIndex(dims, p) PROVE p \in AllIndices(dims)
  <2>1. /\ p \in [1 .. Len(dims) -> Nat]
        /\ \A i \in 1 .. Len(dims) : p[i] < dims[i]
    BY <1>4 DEF IsIndex
  <2>2. \A i \in 1 .. Len(dims) : dims[i] # 0
    BY <1>1, <2>1
  <2>3. \A i \in 1 .. Len(dims) : dims[i] <= Elements(dims)
    BY <2>2, DimsBelow
  <2>4. \A i \in 1 .. Len(dims) : p[i] \in 0 .. Elements(dims)
    BY <1>1, <1>2, <2>1, <2>3
  <2>5. p \in [1 .. Len(dims) -> 0 .. Elements(dims)]
    BY <2>1, <2>4
  <2> QED BY <1>1, <2>1, <2>5 DEF AllIndices
<1> QED BY <1>3, <1>4

\* Every number below that of the elements is the number of an index.
LEMMA NumberOnto ==
  ASSUME NEW dims \in Seq(Nat), NEW v \in Nat, v < Elements(dims)
  PROVE  \E p : IsIndex(dims, p) /\ Number(dims, p) = v
<1> DEFINE n == Len(dims)
           P == Products(dims)
           Below(p, m) == p \in [1 .. n -> Nat] /\ \A i \in 1 .. m : p[i] < dims[i]
           T == {m \in 0 .. n : \A u \in Nat : u < P[m] =>
                                \E p : Below(p, m) /\ Horner(dims, p)[m] = u}
<1>1. n \in Nat /\ \A i \in 1 .. n : dims[i] \in Nat
  OBVIOUS
<1>2. /\ P \in [0 .. n -> Nat] /\ P[0] = 1
      /\ \A i \in 1 .. n : P[i] = P[i - 1] * dims[i]
  BY ProductsAre
<1>3. ASSUME NEW p \in [1 .. n -> Nat]
      PROVE  /\ Horner(dims, p)[0] = 0
             /\ \A i \in 1 .. n : Horner(dims, p)[i] = Horner(dims, p)[i - 1] * dims[i] + p[i]
  BY HornerIs
<1>4. ASSUME NEW p \in [1 .. n -> Nat], NEW q \in [1 .. n -> Nat], NEW m \in 0 .. n,
             \A i \in 1 .. m : p[i] = q[i]
      PROVE  Horner(dims, p)[m] = Horner(dims, q)[m]
  <2>1. m \in Nat /\ m <= Len(dims) /\ m \in 0 .. m
    BY <1>1
  <2>2. \A i \in 0 .. m : Horner(dims, p)[i] = Horner(dims, q)[i]
    BY <1>4, <2>1, HornerPrefix
  <2> QED BY <2>1, <2>2
<1>5. 0 \in T
  <2> DEFINE p == [i \in 1 .. n |-> 0]
  <2>1. Below(p, 0)
    OBVIOUS
  <2>2. Horner(dims, p)[0] = 0
    BY <1>3
  <2>3. \A u \in Nat : u < P[0] => u = 0
    BY <1>2
  <2> QED BY <1>1, <2>1, <2>2, <2>3
<1>6. ASSUME NEW m \in 0 .. n - 1, m \in T PROVE m + 1 \in T
  <2>1. m + 1 \in 1 .. n /\ m \in 0 .. n /\ (m + 1) - 1 = m /\ m + 1 \in 0 .. n
    BY <1>1
  <2> SUFFICES ASSUME NEW u \in Nat, u < P[m + 1]
               PROVE  \E p : Below(p, m + 1) /\ Horner(dims, p)[m + 1] = u
    BY <2>1
  <2> DEFINE d == dims[m + 1]
  <2>2. d \in Nat /\ P[m] \in Nat /\ P[m + 1] = P[m] * d
    <3> HIDE DEF n, P
    <3>1. P[m] \in Nat /\ P[m + 1] = P[(m + 1) - 1] * dims[m + 1]
      BY <1>2, <2>1
    <3> QED BY <1>1, <2>1, <3>1
  <2>3. d # 0 /\ u \div d \in Nat /\ u \div d < P[m]
    <3> DEFINE x == P[m]
    <3>1. x \in Nat /\ d \in Nat /\ u \in Nat /\ u < x * d
      BY <2>2
    <3> HIDE DEF x, d
    <3>2. d # 0 /\ u \div d \in Nat /\ u \div d < x
      BY ONLY <3>1, Quotient
    <3> QED BY <3>2 DEF x
  <2>4. u % d \in 0 .. d - 1 /\ u = (u \div d) * d + (u % d)
    BY <2>2, <2>3, Divide
  <2>5. PICK q : Below(q, m) /\ Horner(dims, q)[m] = u \div d
    BY <1>6, <2>3
  <2> DEFINE p == [q EXCEPT ![m + 1] = u % d]
  <2>6. u % d \in Nat /\ u % d < d
    BY <2>2, <2>3, <2>4
  <2>7. q \in [1 .. n -> Nat] /\ \A i \in 1 .. m : q[i] < dims[i]
    BY <2>5
  <2>8. /\ p \in [1 .. n -> Nat] /\ p[m + 1] = u % d
        /\ \A i \in 1 .. m : p[i] = q[i] /\ p[i] < dims[i]
    BY <1>1, <2>1, <2>6, <2>7
  <2> HIDE DEF p, d
  <2>9. Horner(dims, p)[m] = u \div d
    BY <1>4, <2>1, <2>5, <2>7, <2>8
  <2>10. Horner(dims, p)[m + 1] = u
    BY <1>3, <2>1, <2>4, <2>8, <2>9 DEF d
  <2>11. Below(p, m + 1)
    <3>1. \A i \in 1 .. m + 1 : i \in 1 .. m \/ i = m + 1
      BY <2>1
    <3> QED BY <2>6, <2>8, <3>1 DEF d
  <2> QED BY <2>10, <2>11
<1>7. n \in T
  <2> HIDE DEF T
  <2>1. 0 .. n \subseteq T
    BY <1>1, <1>5, <1>6, Upwards
  <2> QED BY <1>1, <2>1
<1>8. PICK p : Below(p, n) /\ Horner(dims, p)[n] = v
  BY <1>7 DEF Elements
<1> QED BY <1>8 DEF IsIndex, Number

\* The position of an index in row-major order is its number.
LEMMA PositionIs ==
  ASSUME NEW dims \in Seq(Nat), NEW p \in AllIndices(dims)
  PROVE  /\ IsIndex(dims, p)
         /\ Position(dims, p) = Number(dims, p)
         /\ Number(dims, p) \in Nat /\ Number(dims, p) < Elements(dims)
<1>1. IsIndex(dims, p)
  BY AllIndicesAre
<1>2. /\ Number(dims, p) < Elements(dims)
      /\ Elements(dims) \in Nat
  BY <1>1, HornerBelow, ProductsAre, Len(dims) \in 0 .. Len(dims) DEF Number, Elements
<1>3. \A q : IsIndex(dims, q) => Number(dims, q) \in Nat
  BY HornerIs, Len(dims) \in 0 .. Len(dims) DEF IsIndex, Number
<1> DEFINE S == {q \in AllIndices(dims) : Before(q, p)}
           m == Number(dims, p)
           f == [q \in S |-> Number(dims, q)]
           R == 0 .. m - 1
<1>4. \A q \in S : IsIndex(dims, q) /\ Number(dims, q) \in R
  <2> SUFFICES ASSUME NEW q \in S PROVE IsIndex(dims, q) /\ Number(dims, q) \in R
    OBVIOUS
  <2>1. IsIndex(dims, q) /\ Before(q, p)
    BY AllIndicesAre
  <2>2. Number(dims, q) < m
    BY <1>1, <2>1, NumberOrder
  <2> QED BY <1>1, <1>3, <2>1, <2>2
<1>5. \A q, r \in S : f[q] = f[r] => q = r
  BY <1>4, NumberOrder
<1>6. \A v \in R : \E q \in S : f[q] = v
  <2> SUFFICES ASSUME NEW v \in R PROVE \E q \in S : f[q] = v
    OBVIOUS
  <2>1. v \in Nat /\ v < m /\ v < Elements(dims)
    BY <1>1, <1>2, <1>3
  <2>2. PICK q : IsIndex(dims, q) /\ Number(dims, q) = v
    BY <2>1, NumberOnto
  <2>3. q \in AllIndices(dims) /\ Before(q, p)
    BY <1>1, <2>1, <2>2, AllIndicesAre, NumberOrder
  <2> QED BY <2>2, <2>3
<1>7. f \in Bijection(S, R)
  <2>1. f \in [S -> R]
    BY <1>4
  <2> HIDE DEF f, S, R
  <2> QED BY <1>5, <1>6, <2>1, Fun_IsBij
<1>8. IsFiniteSet(R) /\ Cardinality(R) = m
  <2>1. m \in Nat
    BY <1>1, <1>3
  <2> HIDE DEF m
  <2>2. 0 \in Int /\ m - 1 \in Int /\ (0 > m - 1 => m = 0) /\ m - 1 - 0 + 1 = m
    BY <2>1
  <2> QED BY <2>2, FS_Interval
<1>9. Cardinality(S) = m
  <2> HIDE DEF f, S, R, m
  <2>1. R \in SUBSET R /\ ExistsBijection(S, R)
    BY <1>7 DEF ExistsBijection
  <2> QED BY <1>8, <2>1, FS_Bijection, Fun_ExistsBijSymmetric
<1> QED BY <1>1, <1>2, <1>3, <1>9 DEF Position
-----------------------------------------------------------------------------
(* The thread that stores the element at an index, and what it stores.     *)

\* The number of an index into a batch of matrices.
LEMMA NumberOfElement ==
  ASSUME NEW dims \in Seq(Nat), NEW n \in Nat, Len(dims) = n + 2,
         NEW p \in [1 .. n + 2 -> Nat]
  PROVE  /\ Horner(dims, p)[n] \in Nat
         /\ Number(dims, p) = Horner(dims, p)[n] * (dims[n + 1] * dims[n + 2])
                                + (p[n + 1] * dims[n + 2] + p[n + 2])
<1> DEFINE h == Horner(dims, p)
           x == h[n]
           d == dims[n + 1]
           e == dims[n + 2]
           i == p[n + 1]
           j == p[n + 2]
<1>1. /\ n \in 0 .. n + 2 /\ n + 1 \in 1 .. n + 2 /\ n + 2 \in 1 .. n + 2
      /\ (n + 1) - 1 = n /\ (n + 2) - 1 = n + 1
  OBVIOUS
<1>2. /\ h \in [0 .. n + 2 -> Nat]
      /\ \A k \in 1 .. n + 2 : h[k] = h[k - 1] * dims[k] + p[k]
  <2>1. p \in [1 .. Len(dims) -> Nat]
    OBVIOUS
  <2>2. /\ h \in [0 .. Len(dims) -> Nat]
        /\ \A k \in 1 .. Len(dims) : h[k] = h[k - 1] * dims[k] + p[k]
    BY <2>1, HornerIs
  <2> HIDE DEF h
  <2> QED BY <2>2
<1>3. x \in Nat /\ d \in Nat /\ e \in Nat /\ i \in Nat /\ j \in Nat
  <2>1. n + 1 \in 1 .. Len(dims) /\ n + 2 \in 1 .. Len(dims)
    BY <1>1
  <2>2. d \in Nat /\ e \in Nat
    BY <2>1
  <2> HIDE DEF h, d, e
  <2> QED BY <1>1, <1>2, <2>2
<1>4. h[n + 1] = x * d + i /\ h[n + 2] = h[n + 1] * e + j
  BY <1>1, <1>2
<1>5. Number(dims, p) = h[n + 2]
  BY DEF Number
<1> HIDE DEF h, x, d, e, i, j
<1>6. (x * d + i) * e + j = x * (d * e) + (i * e + j)
  BY ONLY <1>3
<1>7. Number(dims, p) = x * (d * e) + (i * e + j)
  BY <1>4, <1>5, <1>6
<1> QED BY <1>3, <1>7 DEF h, x, d, e, i, j

LEMMA NumberOfPair ==
  ASSUME NEW dims \in Seq(Nat), Len(dims) = 2, NEW p \in [1 .. 2 -> Nat]
  PROVE  Number(dims, p) = p[1] * dims[2] + p[2]
<1> DEFINE h == Horner(dims, p)
<1>1. /\ h[0] = 0 /\ h[1] = h[1 - 1] * dims[1] + p[1] /\ h[2] = h[2 - 1] * dims[2] + p[2]
  <2>1. p \in [1 .. Len(dims) -> Nat] /\ 1 \in 1 .. Len(dims) /\ 2 \in 1 .. Len(dims)
    OBVIOUS
  <2> QED BY <2>1, HornerIs
<1>2. Number(dims, p) = h[2]
  BY DEF Number
<1> HIDE DEF h
<1>3. dims[1] \in Nat /\ dims[2] \in Nat /\ p[1] \in Nat /\ p[2] \in Nat
  <2>1. dims[1] \in Nat /\ dims[2] \in Nat
    BY OneMatrix
  <2>2. p[1] \in Nat /\ p[2] \in Nat
    BY 1 \in 1 .. 2, 2 \in 1 .. 2
  <2> QED BY <2>1, <2>2
<1> HIDE DEF h
<1>4. h[1] = p[1]
  BY <1>1, <1>3
<1> QED BY <1>1, <1>2, <1>4

LEMMA NumberOfTriple ==
  ASSUME NEW dims \in Seq(Nat), Len(dims) = 3, NEW p \in [1 .. 3 -> Nat]
  PROVE  Number(dims, p) = (p[1] * dims[2] + p[2]) * dims[3] + p[3]
<1> DEFINE h == Horner(dims, p)
<1>1. /\ h[0] = 0 /\ h[1] = h[1 - 1] * dims[1] + p[1] /\ h[2] = h[2 - 1] * dims[2] + p[2]
      /\ h[3] = h[3 - 1] * dims[3] + p[3]
  <2>1. /\ p \in [1 .. Len(dims) -> Nat]
        /\ 1 \in 1 .. Len(dims) /\ 2 \in 1 .. Len(dims) /\ 3 \in 1 .. Len(dims)
    OBVIOUS
  <2> QED BY <2>1, HornerIs
<1>2. Number(dims, p) = h[3]
  BY DEF Number
<1>3. dims[1] \in Nat /\ p[1] \in Nat
  OBVIOUS
<1> HIDE DEF h
<1>4. h[1] = p[1]
  BY <1>1, <1>3
<1>5. h[2] = p[1] * dims[2] + p[2] /\ h[3] = h[2] * dims[3] + p[3]
  BY <1>1, <1>4
<1> QED BY <1>2, <1>5

\* What an operation that has passed its checks knows of matrix dimensions.
LEMMA MatrixDims ==
  ASSUME NEW c, WellFormed(c), Checked(c), c.op \in {"batched", "matrix_multiply"},
         NEW n, n = Len(c.a) - 2
  PROVE  LET r == ResultDims(c)
         IN  /\ n \in Nat /\ Len(c.a) = n + 2 /\ Len(c.b) = n + 2 /\ Len(r) = n + 2
             /\ c.a \in Seq(Nat) /\ c.b \in Seq(Nat) /\ r \in Seq(Nat)
             /\ M(c) \in Nat /\ K(c) \in Nat /\ N(c) \in Nat
             /\ c.a[n + 1] = M(c) /\ c.a[n + 2] = K(c)
             /\ c.b[n + 1] = K(c) /\ c.b[n + 2] = N(c)
             /\ r[n + 1] = M(c) /\ r[n + 2] = N(c)
             /\ \A d \in 1 .. n : c.a[d] = r[d] /\ c.b[d] = r[d]
             /\ c.op = "matrix_multiply" => n = 0
<1> DEFINE r == ResultDims(c)
<1>1. /\ c.a \in Seq(Nat) /\ c.b \in Seq(Nat) /\ Len(c.a) >= 2 /\ Len(c.b) = Len(c.a)
      /\ K(c) = c.b[Len(c.b) - 1]
      /\ \A d \in 1 .. Len(c.a) - 2 : c.a[d] = c.b[d]
      /\ c.op = "matrix_multiply" => Len(c.a) = 2
  <2>1. CASE c.op = "batched"
    BY <2>1 DEF WellFormed, Checked, Multipliable
  <2>2. CASE c.op = "matrix_multiply"
    <3>1. /\ c.a \in Seq(Nat) /\ c.b \in Seq(Nat) /\ Len(c.a) = 2 /\ Len(c.b) = 2
          /\ c.b[1] = K(c)
      BY <2>2 DEF WellFormed
    <3> QED BY <3>1
  <2> QED BY <2>1, <2>2
<1>2. /\ r \in Seq(Nat) /\ Len(r) = Len(c.a) /\ N(c) \in Nat
      /\ \A i \in 1 .. Len(c.a) : r[i] = IF i = Len(c.a) THEN N(c) ELSE c.a[i]
  BY ResultDimsNat
<1> HIDE DEF r
<1>3. /\ n \in Nat /\ Len(c.a) = n + 2 /\ Len(c.a) - 1 = n + 1
      /\ n + 1 \in 1 .. n + 2 /\ n + 2 \in 1 .. n + 2 /\ n + 1 # n + 2
      /\ \A d \in 1 .. n : d \in 1 .. n + 2 /\ d # n + 2
  BY <1>1
<1>4. /\ M(c) = c.a[n + 1] /\ K(c) = c.a[n + 2] /\ N(c) = c.b[n + 2] /\ K(c) = c.b[n + 1]
  BY <1>1, <1>3, Zenon DEF M, K, N, Last
<1>5. \A d \in 1 .. n + 2 : c.a[d] \in Nat
  BY ONLY <1>1, <1>3
<1>6. M(c) \in Nat /\ K(c) \in Nat
  BY <1>3, <1>4, <1>5
<1>7. r[n + 1] = M(c) /\ r[n + 2] = N(c) /\ \A d \in 1 .. n : r[d] = c.a[d]
  BY <1>2, <1>3, <1>4
<1>8. \A d \in 1 .. n : c.a[d] = r[d] /\ c.b[d] = r[d]
  BY <1>1, <1>3, <1>7
<1>9. Len(c.b) = n + 2 /\ Len(r) = n + 2 /\ (c.op = "matrix_multiply" => n = 0)
  BY <1>1, <1>2, <1>3
<1> QED BY <1>1, <1>2, <1>3, <1>4, <1>6, <1>7, <1>8, <1>9, Zenon DEF r

\* The index of an element of an operand's matrix, in the same batch as the result's.
InBatch(p, n, i, j) == SubSeq(p, 1, n) \o <<i, j>>

\* The dimensions of batches of matrices of the same shape.
SameBatch(n, dims, r) == /\ n \in Nat
                         /\ dims \in Seq(Nat) /\ Len(dims) = n + 2
                         /\ r \in Seq(Nat) /\ Len(r) = n + 2
                         /\ \A d \in 1 .. n : dims[d] = r[d]

InMatrix(p, n, dims, first) ==
  \A i, j \in Nat :
    i < dims[n + 1] /\ j < dims[n + 2] =>
      Position(dims, InBatch(p, n, i, j))
        = first * (dims[n + 1] * dims[n + 2]) + (i * dims[n + 2] + j)

LEMMA OperandIndex ==
  ASSUME NEW n, NEW r, NEW p, IsIndex(r, p), NEW dims, SameBatch(n, dims, r)
  PROVE  InMatrix(p, n, dims, Horner(r, p)[n])
<1> SUFFICES ASSUME NEW i \in Nat, i < dims[n + 1], NEW j \in Nat, j < dims[n + 2]
             PROVE  Position(dims, InBatch(p, n, i, j))
                      = Horner(r, p)[n] * (dims[n + 1] * dims[n + 2]) + (i * dims[n + 2] + j)
  BY DEF InMatrix
<1>0. /\ n \in Nat
      /\ dims \in Seq(Nat) /\ Len(dims) = n + 2
      /\ r \in Seq(Nat) /\ Len(r) = n + 2
      /\ \A d \in 1 .. n : dims[d] = r[d]
  BY DEF SameBatch
<1> DEFINE q == SubSeq(p, 1, n) \o <<i, j>>
<1>1. /\ p \in [1 .. n + 2 -> Nat] /\ \A d \in 1 .. n + 2 : p[d] < r[d]
  BY <1>0 DEF IsIndex
<1>2. p \in Seq(Nat) /\ Len(p) = n + 2
  BY <1>0, <1>1
<1>3. /\ SubSeq(p, 1, n) \in Seq(Nat) /\ Len(SubSeq(p, 1, n)) = n
      /\ \A d \in 1 .. n : SubSeq(p, 1, n)[d] = p[d]
  <2>1. 1 \in 1 .. Len(p) + 1 /\ n \in 1 - 1 .. Len(p) /\ n - 1 + 1 = n
    BY <1>0, <1>2
  <2>2. \A d \in 1 .. n : d \in 1 .. n - 1 + 1 /\ 1 + d - 1 = d
    BY <1>0
  <2> QED BY <1>0, <1>2, <2>1, <2>2, SubSeqProperties
<1>4. <<i, j>> \in Seq(Nat) /\ Len(<<i, j>>) = 2 /\ <<i, j>>[1] = i /\ <<i, j>>[2] = j
  BY <1>0
<1>5. q \in Seq(Nat) /\ Len(q) = n + 2
  BY <1>0, <1>3, <1>4
<1>6. \A d \in 1 .. n : q[d] = p[d]
  BY <1>0, <1>3, <1>4
<1>7. q[n + 1] = i /\ q[n + 2] = j
  BY <1>0, <1>3, <1>4
<1> HIDE DEF q
<1>8. q \in [1 .. n + 2 -> Nat]
  BY <1>0, <1>5
<1>9. \A d \in 1 .. n + 2 : q[d] < dims[d]
  <2>1. \A d \in 1 .. n + 2 : d \in 1 .. n \/ d = n + 1 \/ d = n + 2
    BY <1>0
  <2>2. \A d \in 1 .. n : q[d] < dims[d]
    <3>1. \A d \in 1 .. n : d \in 1 .. n + 2
      BY <1>0
    <3> QED BY <1>0, <1>1, <1>6, <3>1
  <2> QED BY <1>0, <1>7, <2>1, <2>2
<1>10. IsIndex(dims, q)
  BY <1>0, <1>8, <1>9 DEF IsIndex
<1>11. q \in AllIndices(dims)
  BY <1>0, <1>10, AllIndicesAre
<1>12. Position(dims, q) = Number(dims, q)
  BY <1>0, <1>11, PositionIs
<1>13. Number(dims, q) = Horner(dims, q)[n] * (dims[n + 1] * dims[n + 2])
                           + (q[n + 1] * dims[n + 2] + q[n + 2])
  BY <1>0, <1>8, NumberOfElement
<1>14. Horner(dims, q)[n] = Horner(r, p)[n]
  <2>1. /\ q \in [1 .. Len(dims) -> Nat] /\ p \in [1 .. Len(r) -> Nat]
        /\ n <= Len(dims) /\ n <= Len(r) /\ n \in 0 .. n
        /\ \A d \in 1 .. n : dims[d] = r[d] /\ q[d] = p[d]
    <3>1. q \in [1 .. Len(dims) -> Nat] /\ p \in [1 .. Len(r) -> Nat]
      <4>1. Len(dims) = n + 2 /\ Len(r) = n + 2
        BY <1>0
      <4> QED BY ONLY <1>1, <1>8, <4>1
    <3>2. n <= Len(dims) /\ n <= Len(r) /\ n \in 0 .. n
      BY ONLY <1>0
    <3> QED BY <1>0, <1>6, <3>1, <3>2
  <2>2. \A d \in 0 .. n : Horner(dims, q)[d] = Horner(r, p)[d]
    BY <1>0, <2>1, HornerPrefix
  <2> QED BY <1>0, <2>1, <2>2
<1> QED BY <1>0, <1>7, <1>11, <1>12, <1>13, <1>14 DEF q, InBatch

\* The element of a product of matrices is made from a row and a column.
LEMMA MatrixReference ==
  ASSUME NEW c, WellFormed(c), Checked(c), c.op \in {"batched", "matrix_multiply"},
         NEW p \in AllIndices(ResultDims(c))
  PROVE  \E batch, i, j \in Nat :
           /\ i < M(c) /\ j < N(c) /\ (c.op = "matrix_multiply" => batch = 0)
           /\ Position(ResultDims(c), p) = batch * (M(c) * N(c)) + (i * N(c) + j)
           /\ Reference(c, p) = RowByColumn(c, batch, i, j)
<1> DEFINE r == ResultDims(c)
           m == M(c)
           kk == K(c)
           nn == N(c)
           n == Len(c.a) - 2
           batch == Horner(r, p)[n]
           i == p[n + 1]
           j == p[n + 2]
<1>1. /\ n \in Nat /\ Len(c.a) = n + 2 /\ Len(c.b) = n + 2 /\ Len(r) = n + 2
      /\ c.a \in Seq(Nat) /\ c.b \in Seq(Nat) /\ r \in Seq(Nat)
      /\ m \in Nat /\ kk \in Nat /\ nn \in Nat
      /\ c.a[n + 1] = m /\ c.a[n + 2] = kk /\ c.b[n + 1] = kk /\ c.b[n + 2] = nn
      /\ r[n + 1] = m /\ r[n + 2] = nn
      /\ \A d \in 1 .. n : c.a[d] = r[d] /\ c.b[d] = r[d]
      /\ c.op = "matrix_multiply" => n = 0
  BY MatrixDims
<1> HIDE DEF r, m, kk, nn, n
<1>2. /\ IsIndex(r, p) /\ Position(r, p) = Number(r, p)
  BY <1>1, PositionIs DEF r
<1>3. /\ p \in [1 .. n + 2 -> Nat] /\ \A d \in 1 .. n + 2 : p[d] < r[d]
  BY <1>1, <1>2 DEF IsIndex
<1>4. /\ n + 1 \in 1 .. n + 2 /\ n + 2 \in 1 .. n + 2
      /\ Len(p) = n + 2 /\ (n + 2) - 1 = n + 1 /\ (n + 2) - 2 = n
  <2> DEFINE u == n + 2
  <2>1. u \in Nat /\ p \in [1 .. u -> Nat]
    BY <1>1, <1>3
  <2> HIDE DEF u
  <2>2. p \in Seq(Nat) /\ Len(p) = u
    BY ONLY <2>1
  <2> QED BY <1>1, <2>2 DEF u
<1>5. i \in Nat /\ i < m /\ j \in Nat /\ j < nn
  BY <1>1, <1>3, <1>4
<1>6. batch \in Nat /\ Number(r, p) = batch * (m * nn) + (i * nn + j)
  BY <1>1, <1>3, NumberOfElement
<1>7. c.op = "matrix_multiply" => batch = 0
  <2>1. Horner(r, p)[0] = 0
    BY <1>1, <1>3, HornerIs
  <2> QED BY <1>1, <2>1
<1> HIDE DEF batch, i, j
<1>8. Reference(c, p) = [k \in 0 .. kk - 1 |->
                           <<Position(c.a, InBatch(p, n, i, k)),
                             Position(c.b, InBatch(p, n, k, j))>>]
  BY <1>4 DEF Reference, kk, i, j, InBatch
<1>9. ASSUME NEW k \in 0 .. kk - 1
      PROVE  /\ Position(c.a, InBatch(p, n, i, k)) = batch * (m * kk) + (i * kk + k)
             /\ Position(c.b, InBatch(p, n, k, j)) = batch * (kk * nn) + (k * nn + j)
  <2>1. k \in Nat /\ k < kk
    BY <1>1
  <2>2. Position(c.a, InBatch(p, n, i, k)) = batch * (m * kk) + (i * kk + k)
    <3>1. SameBatch(n, c.a, r)
      BY <1>1 DEF SameBatch
    <3>2. InMatrix(p, n, c.a, batch)
      BY ONLY <1>2, <3>1, OperandIndex DEF batch
    <3> QED BY <1>1, <1>5, <2>1, <3>2 DEF InMatrix
  <2>3. Position(c.b, InBatch(p, n, k, j)) = batch * (kk * nn) + (k * nn + j)
    <3>1. SameBatch(n, c.b, r)
      BY <1>1 DEF SameBatch
    <3>2. InMatrix(p, n, c.b, batch)
      BY ONLY <1>2, <3>1, OperandIndex DEF batch
    <3> QED BY <1>1, <1>5, <2>1, <3>2 DEF InMatrix
  <2> QED BY <2>2, <2>3
<1>10. Reference(c, p) = RowByColumn(c, batch, i, j)
  BY <1>8, <1>9 DEF RowByColumn, m, kk, nn
<1> QED BY <1>2, <1>5, <1>6, <1>7, <1>10 DEF r, m, nn

\* The thread with these indices, which the launch has, stores this at i.
Computes(c, x, y, z, i, value) ==
  /\ x \in Nat /\ x < Work(c)[1] /\ x < 2^Bits32
  /\ y \in Nat /\ y < Work(c)[2] /\ y < 2^Bits32
  /\ z \in Nat /\ z < Work(c)[3] /\ z < 2^Bits32
  /\ \E s \in Thread(c, x, y, z) : s.to = i /\ s.value = value

LEMMA StoreIs ==
  ASSUME NEW to, NEW value, NEW reads
  PROVE  \E s \in Store(to, value, reads) : s.to = to /\ s.value = value
BY DEF Store

LEMMA CreateComputes ==
  ASSUME NEW c, WellFormed(c), c.op \in Factories,
         NEW i \in Nat, i < Size(c.a), i < 2^Bits32
  PROVE  Computes(c, i, 0, 0, i, CASE c.op = "fill"   -> <<>>
                                   [] c.op = "arange" -> i
                                   [] c.op = "eye"    -> i \div c.a[2] = i % c.a[2]
                                   [] c.op = "random" -> RandomState(i))
<1>1. Work(c) = <<Size(c.a), 1, 1>>
  BY DEF Work, ResultDims, Factories, OneD
<1>2. Thread(c, i, 0, 0) = Create(c, i)
  BY DEF Thread, Factories
<1>3. c.a \in Seq(Nat)
  BY DEF WellFormed
<1>4. ~(i >= Size(c.a))
  BY <1>3, SizeIsNat
<1> DEFINE value == CASE c.op = "fill"   -> <<>>
                      [] c.op = "arange" -> i
                      [] c.op = "eye"    -> i \div c.a[2] = i % c.a[2]
                      [] c.op = "random" -> RandomState(i)
<1>5. Create(c, i) = Store(i, value, {})
  BY <1>4 DEF Create
<1> HIDE DEF value
<1>6. \E s \in Thread(c, i, 0, 0) : s.to = i /\ s.value = value
  BY <1>2, <1>5, StoreIs
<1>7. Computes(c, i, 0, 0, i, value)
  BY <1>1, <1>6, ShapeAssumption DEF Computes
<1> QED BY <1>7 DEF value

LEMMA FactoryComputes ==
  ASSUME NEW c, WellFormed(c), c.op \in Factories \ {"random"}, NoWrap(c.a),
         NEW p \in AllIndices(c.a), Position(c.a, p) < 2^Bits32
  PROVE  \E x, y, z : Computes(c, x, y, z, Position(c.a, p), Reference(c, p))
<1> DEFINE i == Position(c.a, p)
<1>1. c.a \in Seq(Nat) /\ (c.op = "arange" => Len(c.a) = 1) /\ (c.op = "eye" => Len(c.a) = 2)
  BY DEF WellFormed
<1>2. IsIndex(c.a, p) /\ i = Number(c.a, p) /\ i \in Nat /\ i < Elements(c.a)
  BY <1>1, PositionIs
<1>3. i < Size(c.a) /\ p \in [1 .. Len(c.a) -> Nat] /\ \A d \in 1 .. Len(c.a) : p[d] < c.a[d]
  BY <1>2 DEF NoWrap, IsIndex
<1> HIDE DEF i
<1>4. CASE c.op = "fill"
  <2>1. Reference(c, p) = <<>>
    BY <1>4 DEF Reference
  <2> QED BY <1>2, <1>3, <1>4, <2>1, CreateComputes DEF i
<1>5. CASE c.op = "arange"
  <2>1. /\ Horner(c.a, p)[0] = 0 /\ 1 \in 1 .. Len(c.a)
        /\ \A d \in 1 .. Len(c.a) : Horner(c.a, p)[d] = Horner(c.a, p)[d - 1] * c.a[d] + p[d]
    <3>1. Len(c.a) = 1 /\ c.a \in Seq(Nat) /\ p \in [1 .. Len(c.a) -> Nat]
      BY <1>1, <1>3, <1>5
    <3>2. 1 \in 1 .. Len(c.a)
      BY <3>1
    <3> HIDE DEF Horner
    <3>3. /\ Horner(c.a, p)[0] = 0
          /\ \A d \in 1 .. Len(c.a) : Horner(c.a, p)[d] = Horner(c.a, p)[d - 1] * c.a[d] + p[d]
      BY ONLY <3>1, HornerIs
    <3> QED BY <3>2, <3>3
  <2>2. Horner(c.a, p)[1] = p[1]
    <3>1. c.a[1] \in Nat /\ p[1] \in Nat /\ 1 - 1 = 0
      BY <1>1, <1>3, <2>1
    <3>2. Horner(c.a, p)[1] = Horner(c.a, p)[0] * c.a[1] + p[1]
      BY <2>1, <3>1
    <3> HIDE DEF Horner
    <3> QED BY <2>1, <3>1, <3>2
  <2>3. i = p[1]
    BY <1>1, <1>2, <1>5, <2>2 DEF Number
  <2>4. Reference(c, p) = i
    BY <1>5, <2>3 DEF Reference
  <2> QED BY <1>2, <1>3, <1>5, <2>4, CreateComputes DEF i
<1>6. CASE c.op = "eye"
  <2>1. i = p[1] * c.a[2] + p[2]
    BY <1>1, <1>2, <1>3, <1>6, NumberOfPair
  <2>2. /\ c.a[2] \in Nat /\ p[1] \in Nat /\ p[2] \in Nat /\ p[2] < c.a[2]
    BY <1>1, <1>3, <1>6
  <2> DEFINE n == c.a[2]
             u == p[1]
             v == p[2]
  <2> HIDE DEF n, u, v
  <2>3. n \in Nat \ {0} /\ v \in 0 .. n - 1 /\ u \in Nat /\ i = u * n + v
    BY <2>1, <2>2 DEF n, u, v
  <2>4. i \div n \in Nat /\ i % n \in 0 .. n - 1 /\ i = (i \div n) * n + (i % n)
    BY <1>2, <2>3, Divide
  <2>5. i \div n = u /\ i % n = v
    BY <2>3, <2>4, SameRowColumn
  <2>6. Reference(c, p) = (i \div n = i % n)
    BY <1>6, <2>5 DEF Reference, u, v
  <2> QED BY <1>2, <1>3, <1>6, <2>6, CreateComputes DEF i, n
<1> QED BY <1>4, <1>5, <1>6 DEF Factories

LEMMA SignedIs ==
  ASSUME NEW x \in Nat
  PROVE  /\ x < 2^(Bits32 - 1) => Signed(x) = x /\ x < 2^Bits32
         /\ x < 2^Bits32 /\ ~(x < 2^(Bits32 - 1)) => ~(Signed(x) >= 0)
BY ShapeAssumption DEF Signed

LEMMA ElementwiseComputes ==
  ASSUME NEW c, WellFormed(c), Checked(c), c.op = "elementwise", NoWrap(c.a),
         NEW p \in AllIndices(c.a), Position(c.a, p) < Reach(c)
  PROVE  \E x, y, z : Computes(c, x, y, z, Position(c.a, p), Reference(c, p))
<1> DEFINE i == Position(c.a, p)
<1>1. c.a \in Seq(Nat) /\ c.b = c.a /\ Size(c.a) \in Nat
  BY SizeIsNat DEF WellFormed, Checked
<1>2. i \in Nat /\ i < Size(c.a)
  BY <1>1, PositionIs DEF NoWrap
<1>3. Reach(c) = Least(Word32(Size(c.a)), 2^(Bits32 - 1))
  BY DEF Reach
<1>4. Word32(Size(c.a)) \in Nat
  BY <1>1, Words
<1> HIDE DEF i
<1>5. i < Word32(Size(c.a)) /\ i < 2^(Bits32 - 1)
  BY <1>2, <1>3, <1>4, ShapeAssumption DEF Least, i
<1>6. Signed(i) = i /\ i < 2^Bits32
  BY <1>2, <1>5, SignedIs
<1>7. Work(c) = <<Size(c.a), 1, 1>>
  BY DEF Work, ResultDims, OneD
<1>8. Thread(c, i, 0, 0) = Elementwise(c, i)
  BY DEF Thread, Factories
<1>9. Elementwise(c, i) = Store(i, <<i, i>>, {<<"a", i>>, <<"b", i>>})
  BY <1>2, <1>4, <1>5, <1>6 DEF Elementwise
<1>10. Reference(c, p) = <<i, i>>
  BY <1>1 DEF Reference, i
<1>11. \E s \in Thread(c, i, 0, 0) : s.to = i /\ s.value = Reference(c, p)
  BY <1>8, <1>9, <1>10, StoreIs
<1>12. Computes(c, i, 0, 0, i, Reference(c, p))
  BY <1>2, <1>6, <1>7, <1>11, ShapeAssumption DEF Computes
<1> QED BY <1>12 DEF i

LEMMA BatchedComputes ==
  ASSUME NEW c, WellFormed(c), Checked(c), c.op = "batched", SizesFit(c),
         NEW p \in AllIndices(ResultDims(c)), Position(ResultDims(c), p) < 2^Bits32
  PROVE  \E x, y, z : Computes(c, x, y, z, Position(ResultDims(c), p), Reference(c, p))
<1> DEFINE at == Position(ResultDims(c), p)
           m == M(c)
           n == N(c)
<1>1. PICK batch, i, j \in Nat :
        /\ i < m /\ j < n
        /\ at = batch * (m * n) + (i * n + j)
        /\ Reference(c, p) = RowByColumn(c, batch, i, j)
  BY MatrixReference
<1>2. ResultDims(c) \in Seq(Nat) /\ Size(ResultDims(c)) \in Nat /\ m \in Nat /\ n \in Nat
  BY MatrixDims, ResultDimsAre
<1>3. at \in Nat /\ at < Size(ResultDims(c))
  <2>1. NoWrap(ResultDims(c))
    BY DEF SizesFit
  <2> QED BY <1>2, <2>1, PositionIs DEF NoWrap
<1> HIDE DEF at, m, n
<1>4. i * n + j \in Nat /\ i * n + j < m * n /\ m * n \in Nat /\ m * n # 0 /\ n # 0
  BY <1>1, <1>2, RowColumn
<1>5. at \div (m * n) = batch /\ at % (m * n) = i * n + j
  <2> DEFINE w == m * n
             l == i * n + j
  <2>1. w \in Nat \ {0} /\ l \in 0 .. w - 1 /\ at = batch * w + l
    BY <1>1, <1>4
  <2> HIDE DEF w, l
  <2>2. at \div w \in Nat /\ at % w \in 0 .. w - 1 /\ at = (at \div w) * w + (at % w)
    BY <1>3, <2>1, Divide
  <2>3. at \div w = batch /\ at % w = l
    BY <2>1, <2>2, SameRowColumn
  <2> QED BY <2>3 DEF w, l
<1>6. (i * n + j) \div n = i /\ (i * n + j) % n = j
  <2> DEFINE l == i * n + j
  <2>1. n \in Nat \ {0} /\ j \in 0 .. n - 1 /\ l \in Nat /\ l = i * n + j
    BY <1>1, <1>2, <1>4
  <2> HIDE DEF l
  <2>2. l \div n \in Nat /\ l % n \in 0 .. n - 1 /\ l = (l \div n) * n + (l % n)
    BY <2>1, Divide
  <2>3. l \div n = i /\ l % n = j
    BY <2>1, <2>2, SameRowColumn
  <2> QED BY <2>3 DEF l
<1>7. \E s : s \in Batched(c, at)
  <2>1. ~(at >= Size(ResultDims(c)))
    BY <1>2, <1>3
  <2> QED BY <2>1 DEF Batched, Dot, Store
<1>8. PICK s \in Batched(c, at) : TRUE
  BY <1>7
<1>9. s.to = at /\ s.value = RowByColumn(c, at \div (m * n), (at % (m * n)) \div n,
                                         (at % (m * n)) % n)
  BY <1>3, BatchedStores DEF Checked, m, n
<1>10. s.value = Reference(c, p)
  BY <1>1, <1>5, <1>6, <1>9
<1>11. Work(c) = <<Size(ResultDims(c)), 1, 1>> /\ Thread(c, at, 0, 0) = Batched(c, at)
  BY DEF Work, OneD, Thread, Factories
<1>12. at < 2^Bits32
  BY DEF at
<1>13. Computes(c, at, 0, 0, at, Reference(c, p))
  BY <1>3, <1>9, <1>10, <1>11, <1>12, ShapeAssumption DEF Computes
<1> QED BY <1>13 DEF at

LEMMA MatrixMultiplyComputes ==
  ASSUME NEW c, WellFormed(c), Checked(c), c.op = "matrix_multiply", ProductsFit(c),
         M(c) < 2^Bits32, N(c) < 2^Bits32,
         NEW p \in AllIndices(ResultDims(c))
  PROVE  \E x, y, z : Computes(c, x, y, z, Position(ResultDims(c), p), Reference(c, p))
<1> DEFINE at == Position(ResultDims(c), p)
           m == M(c)
           n == N(c)
<1>1. PICK batch, i, j \in Nat :
        /\ i < m /\ j < n /\ batch = 0
        /\ at = batch * (m * n) + (i * n + j)
        /\ Reference(c, p) = RowByColumn(c, batch, i, j)
  BY MatrixReference
<1>2. m \in Nat /\ n \in Nat
  BY MatrixDims
<1> HIDE DEF at
<1>3. at = i * n + j /\ Reference(c, p) = RowByColumn(c, 0, i, j)
  BY <1>1, <1>2
<1>4. Word32(m) = m /\ Word32(n) = n
  BY <1>2, Words
<1>5. PICK s \in MatrixMultiply(c, j, i) : TRUE
  <2>1. ~(i >= Word32(M(c)) \/ j >= Word32(N(c)))
    BY <1>1, <1>2, <1>4
  <2>2. \E s : s \in MatrixMultiply(c, j, i)
    BY <2>1 DEF MatrixMultiply, Dot, Store
  <2> QED BY <2>2
<1>6. s.to = at /\ s.value = Reference(c, p)
  <2>1. /\ M(c) * K(c) <= 2^Bits32 /\ K(c) * N(c) <= 2^Bits32
        /\ M(c) * N(c) <= 2^Bits32 /\ K(c) < 2^(Bits32 - 1)
    BY DEF ProductsFit
  <2> QED BY <1>1, <1>3, <2>1, MatrixMultiplyStores
<1>7. Work(c) = <<n, m, 1>> /\ Thread(c, j, i, 0) = MatrixMultiply(c, j, i)
  BY DEF Work, OneD, Thread, Factories
<1>8. i < 2^Bits32 /\ j < 2^Bits32
  BY <1>1, <1>2, ShapeAssumption
<1>9. Computes(c, j, i, 0, at, Reference(c, p))
  BY <1>1, <1>6, <1>7, <1>8, ShapeAssumption DEF Computes
<1> QED BY <1>9 DEF at

LEMMA PairIndex ==
  ASSUME NEW dims \in Seq(Nat), Len(dims) = 2,
         NEW i \in Nat, i < dims[1], NEW j \in Nat, j < dims[2]
  PROVE  Position(dims, <<i, j>>) = i * dims[2] + j
<1>1. <<i, j>> \in [1 .. 2 -> Nat] /\ \A d \in 1 .. 2 : <<i, j>>[d] < dims[d]
  OBVIOUS
<1>2. IsIndex(dims, <<i, j>>)
  BY <1>1 DEF IsIndex
<1>3. <<i, j>> \in AllIndices(dims)
  BY <1>2, AllIndicesAre
<1>4. Position(dims, <<i, j>>) = Number(dims, <<i, j>>)
  BY <1>3, PositionIs
<1>5. Number(dims, <<i, j>>) = <<i, j>>[1] * dims[2] + <<i, j>>[2]
  BY <1>1, NumberOfPair
<1> QED BY <1>4, <1>5

LEMMA TransposeComputes ==
  ASSUME NEW c, WellFormed(c), c.op = "transpose", SizesFit(c),
         c.a[1] < 2^(Bits32 - 1), c.a[2] < 2^(Bits32 - 1),
         NEW p \in AllIndices(ResultDims(c))
  PROVE  \E x, y, z : Computes(c, x, y, z, Position(ResultDims(c), p), Reference(c, p))
<1> DEFINE r == ResultDims(c)
           at == Position(r, p)
           m == c.a[1]
           n == c.a[2]
           x == p[1]
           y == p[2]
<1>1. c.a \in Seq(Nat) /\ Len(c.a) = 2 /\ m \in Nat /\ n \in Nat
  BY OneMatrix DEF WellFormed
<1>2. r = <<n, m>>
  BY DEF ResultDims
<1>3. r \in Seq(Nat) /\ Len(r) = 2 /\ r[1] = n /\ r[2] = m
  BY <1>1, <1>2
<1> HIDE DEF r
<1>4. IsIndex(r, p) /\ at = Number(r, p)
  BY <1>3, PositionIs DEF r
<1>5. p \in [1 .. 2 -> Nat] /\ \A d \in 1 .. 2 : p[d] < r[d]
  BY <1>3, <1>4 DEF IsIndex
<1>6. x \in Nat /\ x < n /\ y \in Nat /\ y < m
  BY <1>3, <1>5
<1>7. at = x * m + y
  BY <1>3, <1>4, <1>5, NumberOfPair
<1>8. Reference(c, p) = y * n + x
  <2>1. Reference(c, p) = Position(c.a, <<y, x>>)
    BY DEF Reference
  <2> HIDE DEF x, y
  <2> QED BY <1>1, <1>6, <2>1, PairIndex
<1> HIDE DEF at, x, y
<1>9. m < 2^(Bits32 - 1) /\ n < 2^(Bits32 - 1)
  OBVIOUS
<1> HIDE DEF m, n
<1>10. x < 2^(Bits32 - 1) /\ y < 2^(Bits32 - 1)
  BY <1>1, <1>6, <1>9, ShapeAssumption
<1>11. Signed(x) = x /\ Signed(y) = y /\ x < 2^Bits32 /\ y < 2^Bits32
  BY <1>6, <1>10, SignedIs
<1>12. PICK s \in Transpose(c, x, y) : TRUE
  <2>1. y \in 0 .. c.a[1] - 1 /\ x \in 0 .. c.a[2] - 1
    BY <1>1, <1>6 DEF m, n
  <2>2. \E s : s \in Transpose(c, x, y)
    BY <1>11, <2>1 DEF Transpose, Store
  <2> QED BY <2>2
<1>13. s.to = at /\ s.value = Reference(c, p)
  <2>1. s.to = Signed(x) * c.a[1] + Signed(y) /\ s.value = Signed(y) * c.a[2] + Signed(x)
    BY <1>6, <1>12, TransposeStores
  <2> QED BY <1>7, <1>8, <1>11, <2>1 DEF m, n
<1>14. Work(c) = <<n, m, 1>> /\ Thread(c, x, y, 0) = Transpose(c, x, y)
  BY DEF Work, OneD, Thread, Factories, m, n
<1>15. Computes(c, x, y, 0, at, Reference(c, p))
  BY <1>6, <1>11, <1>12, <1>13, <1>14, ShapeAssumption DEF Computes
<1> QED BY <1>15 DEF at, r

LEMMA VolumeComputes ==
  ASSUME NEW c, WellFormed(c), c.op = "volume",
         \A d \in 1 .. 3 : c.a[d] < 2^Bits32,
         NEW p \in AllIndices(c.a)
  PROVE  \E x, y, z : Computes(c, x, y, z, Position(c.a, p), Reference(c, p))
<1> DEFINE at == Position(c.a, p)
           x == p[3]
           y == p[2]
           z == p[1]
<1>1. c.a \in Seq(Nat) /\ Len(c.a) = 3
  BY DEF WellFormed
<1>2. c.a[1] \in Nat /\ c.a[2] \in Nat /\ c.a[3] \in Nat
  BY <1>1
<1>3. IsIndex(c.a, p) /\ at = Number(c.a, p)
  BY <1>1, PositionIs
<1>4. p \in [1 .. 3 -> Nat] /\ \A d \in 1 .. 3 : p[d] < c.a[d]
  BY <1>1, <1>3 DEF IsIndex
<1>5. /\ x \in Nat /\ x < c.a[3] /\ y \in Nat /\ y < c.a[2] /\ z \in Nat /\ z < c.a[1]
  BY <1>4
<1>6. at = (z * c.a[2] + y) * c.a[3] + x
  BY <1>1, <1>3, <1>4, NumberOfTriple
<1>7. Reference(c, p) = <<z, y, x>>
  <2>1. Reference(c, p) = p
    BY DEF Reference
  <2>2. p = <<p[1], p[2], p[3]>>
    BY <1>4
  <2> QED BY <2>1, <2>2
<1> HIDE DEF at, x, y, z
<1>8. PICK s \in Volume(c, x, y, z) : TRUE
  <2>1. ~(x >= c.a[3] \/ y >= c.a[2] \/ z >= c.a[1])
    BY <1>2, <1>5
  <2>2. \E s : s \in Volume(c, x, y, z)
    BY <2>1 DEF Volume, Store
  <2> QED BY <2>2
<1>9. s.to = at /\ s.value = Reference(c, p)
  <2>1. s.to = (z * c.a[2] + y) * c.a[3] + x /\ s.value = <<z, y, x>>
    BY <1>5, <1>8, VolumeStores
  <2> QED BY <1>6, <1>7, <2>1
<1>10. Work(c) = <<c.a[3], c.a[2], c.a[1]>> /\ Thread(c, x, y, z) = Volume(c, x, y, z)
  BY DEF Work, OneD, Thread, Factories
<1>11. x < 2^Bits32 /\ y < 2^Bits32 /\ z < 2^Bits32
  BY <1>2, <1>5, ShapeAssumption
<1>12. Computes(c, x, y, z, at, Reference(c, p))
  BY <1>5, <1>8, <1>9, <1>10, <1>11 DEF Computes
<1> QED BY <1>12 DEF at

\* Every element within reach has its thread.
LEMMA ThreadComputes ==
  ASSUME NEW c, WellFormed(c), Checked(c), c.op # "random",
         NoWrap(ResultDims(c)), SizesFit(c), ProductsFit(c), AxesFit(c),
         NEW p \in AllIndices(ResultDims(c)), Position(ResultDims(c), p) < Reach(c)
  PROVE  \E x, y, z : Computes(c, x, y, z, Position(ResultDims(c), p), Reference(c, p))
<1>1. CASE c.op \in Factories
  <2>1. ResultDims(c) = c.a /\ Reach(c) = 2^Bits32
    BY <1>1 DEF ResultDims, Reach, OneD, Factories
  <2> QED BY <1>1, <2>1, FactoryComputes
<1>2. CASE c.op = "elementwise"
  <2>1. ResultDims(c) = c.a
    BY <1>2 DEF ResultDims
  <2> QED BY <1>2, <2>1, ElementwiseComputes
<1>3. CASE c.op = "batched"
  <2>1. Reach(c) = 2^Bits32
    BY <1>3 DEF Reach, OneD
  <2> QED BY <1>3, <2>1, BatchedComputes
<1>4. CASE c.op = "matrix_multiply"
  <2>1. Work(c) = <<N(c), M(c), 1>>
    BY <1>4 DEF Work, OneD
  <2>2. \A axis \in Axes : Work(c)[axis] < 2^Bits32
    BY <1>4 DEF AxesFit, OneD
  <2>3. N(c) < 2^Bits32 /\ M(c) < 2^Bits32
    BY <2>1, <2>2 DEF Axes
  <2> QED BY <1>4, <2>3, MatrixMultiplyComputes
<1>5. CASE c.op = "transpose"
  <2>1. Work(c) = <<c.a[2], c.a[1], 1>>
    BY <1>5 DEF Work, OneD
  <2>2. \A axis \in Axes : Work(c)[axis] < 2^(Bits32 - 1)
    BY <1>5 DEF AxesFit, OneD
  <2>3. c.a[2] < 2^(Bits32 - 1) /\ c.a[1] < 2^(Bits32 - 1)
    BY <2>1, <2>2 DEF Axes
  <2> QED BY <1>5, <2>3, TransposeComputes
<1>6. CASE c.op = "volume"
  <2>1. Work(c) = <<c.a[3], c.a[2], c.a[1]>> /\ ResultDims(c) = c.a
    BY <1>6 DEF Work, OneD, ResultDims
  <2>2. \A axis \in Axes : Work(c)[axis] < 2^Bits32
    BY <1>6 DEF AxesFit, OneD
  <2>3. \A d \in 1 .. 3 : c.a[d] < 2^Bits32
    BY <2>1, <2>2 DEF Axes
  <2> QED BY <1>6, <2>1, <2>3, VolumeComputes
<1> QED BY <1>1, <1>2, <1>3, <1>4, <1>5, <1>6 DEF WellFormed, OneD, Factories

\* The launch has that thread.
LEMMA Reached ==
  ASSUME NEW c, WellFormed(c), Checked(c), AxesFit(c), NEW x, NEW y, NEW z, NEW i, NEW value,
         Computes(c, x, y, z, i, value)
  PROVE  \E b \in Cells(Geometry(c).grid), t \in Cells(Geometry(c).block) :
           \E s \in ThreadOf(c, b, t) : s.to = i /\ s.value = value
<1> DEFINE g == Geometry(c)
           v == <<x, y, z>>
           b == <<x \div g.block[1], y \div g.block[2], z \div g.block[3]>>
           t == <<x % g.block[1], y % g.block[2], z % g.block[3]>>
<1>1. \A axis \in Axes :
        /\ g.block[axis] \in Nat \ {0} /\ g.block[axis] <= Limits[0].threads
        /\ g.grid[axis] = BlocksFor(Work(c)[axis], g.block[axis])
  BY GeometryIs DEF IsLaunch
<1>2. \A axis \in Axes : /\ Work(c)[axis] \in Nat
                         /\ Work(c)[axis] <= g.block[axis] * (2^Bits32 - 1)
  BY WorkIsNat DEF AxesFit
<1>3. \A axis \in Axes : v[axis] \in Nat /\ v[axis] < Work(c)[axis] /\ v[axis] < 2^Bits32
  BY DEF Computes, Axes
<1> HIDE DEF g
<1>4. \A axis \in Axes : /\ b[axis] = v[axis] \div g.block[axis]
                         /\ t[axis] = v[axis] % g.block[axis]
  BY DEF Axes
<1> HIDE DEF v, b, t
<1>5. ASSUME NEW axis \in Axes
      PROVE  /\ b[axis] \in 0 .. g.grid[axis] - 1
             /\ t[axis] \in 0 .. g.block[axis] - 1
             /\ Id(g, b, t, axis) = v[axis]
  <2> DEFINE n == g.block[axis]
             w == Work(c)[axis]
             q == g.grid[axis]
             u == v[axis]
             P == 2^Bits32
             h == Limits[0].threads
  <2>1. /\ n \in Nat \ {0} /\ n <= h /\ q = BlocksFor(w, n)
        /\ w \in Nat /\ w <= n * (P - 1) /\ u \in Nat /\ u < w /\ u < P
        /\ b[axis] = u \div n /\ t[axis] = u % n
    BY <1>1, <1>2, <1>3, <1>4
  <2>2. h \in Nat /\ h * P <= 2^Bits64 /\ P \in Nat /\ P > 1 /\ 2^Bits64 \in Nat
    BY LimitsAssumption, ShapeAssumption
  <2> HIDE DEF n, w, q, u, P, h
  <2>3. w + n - 1 \in Nat /\ w + n - 1 < P * n
    <3>1. n * (P - 1) = P * n - n
      BY <2>1, <2>2
    <3>2. P * n \in Nat
      BY <2>1, <2>2
    <3> HIDE DEF n
    <3> QED BY <2>1, <2>2, <3>1, <3>2
  <2>4. w + n - 1 < 2^Bits64
    <3>1. n * P <= h * P
      BY <2>1, <2>2, TimesMonotone
    <3>2. n * P = P * n /\ n * P \in Nat /\ h * P \in Nat
      BY <2>1, <2>2
    <3> QED BY <2>2, <2>3, <3>1, <3>2
  <2>5. q = (w + n - 1) \div n /\ q \in Nat /\ q < P
    <3>1. Word64(w + n - 1) = w + n - 1
      BY <2>3, <2>4, Words
    <3>2. (w + n - 1) \div n \in Nat /\ (w + n - 1) \div n < P
      BY <2>1, <2>2, <2>3, Quotient
    <3>3. Word32((w + n - 1) \div n) = (w + n - 1) \div n
      BY <3>2, Words DEF P
    <3> QED BY <2>1, <3>1, <3>2, <3>3 DEF BlocksFor
  <2>6. u < q * n
    <3> DEFINE l == w + n - 1
    <3>1. l \in Nat /\ l = q * n + (l % n) /\ l % n \in 0 .. n - 1
      BY <2>1, <2>3, <2>5, Divide
    <3>2. q * n \in Nat
      BY <2>1, <2>5
    <3>3. l = w + n - 1
      OBVIOUS
    <3> HIDE DEF l
    <3> QED BY <2>1, <3>1, <3>2, <3>3
  <2>7. u \div n \in Nat /\ u \div n < q
    BY <2>1, <2>5, <2>6, Quotient
  <2>8. u % n \in 0 .. n - 1 /\ u = (u \div n) * n + (u % n)
    BY <2>1, Divide
  <2>9. Word32(u) = u
    BY <2>1, Words DEF P
  <2>10. Id(g, b, t, axis) = Word32(u)
    BY <2>1, <2>8 DEF Id, n
  <2> QED BY <2>1, <2>5, <2>7, <2>8, <2>9, <2>10 DEF q, n, u
<1>6. b \in Cells(g.grid) /\ t \in Cells(g.block)
  <2>1. /\ b[1] \in 0 .. g.grid[1] - 1 /\ b[2] \in 0 .. g.grid[2] - 1
        /\ b[3] \in 0 .. g.grid[3] - 1
        /\ t[1] \in 0 .. g.block[1] - 1 /\ t[2] \in 0 .. g.block[2] - 1
        /\ t[3] \in 0 .. g.block[3] - 1
    BY <1>5 DEF Axes
  <2>2. b = <<b[1], b[2], b[3]>> /\ t = <<t[1], t[2], t[3]>>
    BY DEF b, t
  <2> QED BY <2>1, <2>2 DEF Cells
<1>7. ThreadOf(c, b, t) = Thread(c, x, y, z)
  <2>1. Id(g, b, t, 1) = x /\ Id(g, b, t, 2) = y /\ Id(g, b, t, 3) = z
    BY <1>5 DEF Axes, v
  <2> QED BY <2>1 DEF ThreadOf, g
<1>8. \E s \in Thread(c, x, y, z) : s.to = i /\ s.value = value
  BY DEF Computes
<1> QED BY <1>6, <1>7, <1>8 DEF g

LEMMA ThreadSingle ==
  ASSUME NEW c, WellFormed(c), NEW x, NEW y, NEW z,
         NEW r \in Thread(c, x, y, z), NEW s \in Thread(c, x, y, z)
  PROVE  r = s
<1>1. \A to, value, reads : \A u, v \in Store(to, value, reads) : u = v
  BY DEF Store
<1>2. CASE c.op \in Factories
  <2>1. r \in Create(c, x) /\ s \in Create(c, x)
    BY <1>2 DEF Thread, Factories
  <2> QED BY <1>1, <2>1 DEF Create
<1>3. CASE c.op = "elementwise"
  <2>1. r \in Elementwise(c, x) /\ s \in Elementwise(c, x)
    BY <1>3 DEF Thread, Factories
  <2> QED BY <1>1, <2>1 DEF Elementwise
<1>4. CASE c.op = "batched"
  <2>1. r \in Batched(c, x) /\ s \in Batched(c, x)
    BY <1>4 DEF Thread, Factories
  <2> QED BY <1>1, <2>1 DEF Batched, Dot
<1>5. CASE c.op = "matrix_multiply"
  <2>1. r \in MatrixMultiply(c, x, y) /\ s \in MatrixMultiply(c, x, y)
    BY <1>5 DEF Thread, Factories
  <2> QED BY <1>1, <2>1 DEF MatrixMultiply, Dot
<1>6. CASE c.op = "transpose"
  <2>1. r \in Transpose(c, x, y) /\ s \in Transpose(c, x, y)
    BY <1>6 DEF Thread, Factories
  <2> QED BY <1>1, <2>1 DEF Transpose
<1>7. CASE c.op = "volume"
  <2>1. r \in Volume(c, x, y, z) /\ s \in Volume(c, x, y, z)
    BY <1>7 DEF Thread, Factories
  <2> QED BY <1>1, <2>1 DEF Volume
<1> QED BY <1>2, <1>3, <1>4, <1>5, <1>6, <1>7 DEF WellFormed, OneD, Factories

LEMMA ThreadSame ==
  ASSUME NEW c, WellFormed(c), NEW x, NEW y, NEW z, NEW u, NEW v, NEW w,
         SameThread(c, x, y, z, u, v, w)
  PROVE  Thread(c, x, y, z) = Thread(c, u, v, w)
BY DEF SameThread, Thread, WellFormed, OneD, Factories

\* Of one element there is one store.
LEMMA StoresAgree ==
  ASSUME NEW c, WellFormed(c), Checked(c), SizesFit(c), ProductsFit(c),
         NEW b \in Cells(Geometry(c).grid), NEW t \in Cells(Geometry(c).block),
         NEW d \in Cells(Geometry(c).grid), NEW u \in Cells(Geometry(c).block),
         NEW r \in ThreadOf(c, b, t), NEW s \in ThreadOf(c, d, u), r.to = s.to
  PROVE  r = s
<1> DEFINE g == Geometry(c)
           id(e, v, axis) == Id(g, e, v, axis)
<1>1. \A axis \in Axes : /\ id(b, t, axis) \in 0 .. 2^Bits32 - 1
                         /\ id(d, u, axis) \in 0 .. 2^Bits32 - 1
  BY ThreadOfIs
<1>2. /\ ThreadOf(c, b, t) = Thread(c, id(b, t, 1), id(b, t, 2), id(b, t, 3))
      /\ ThreadOf(c, d, u) = Thread(c, id(d, u, 1), id(d, u, 2), id(d, u, 3))
  BY DEF ThreadOf
<1> HIDE DEF id
<1>3. c.op = "matrix_multiply" => M(c) * N(c) <= 2^Bits32
  BY DEF ProductsFit
<1>4. SameThread(c, id(b, t, 1), id(b, t, 2), id(b, t, 3), id(d, u, 1), id(d, u, 2), id(d, u, 3))
  <2>1. /\ id(b, t, 1) \in 0 .. 2^Bits32 - 1 /\ id(b, t, 2) \in 0 .. 2^Bits32 - 1
        /\ id(b, t, 3) \in 0 .. 2^Bits32 - 1 /\ id(d, u, 1) \in 0 .. 2^Bits32 - 1
        /\ id(d, u, 2) \in 0 .. 2^Bits32 - 1 /\ id(d, u, 3) \in 0 .. 2^Bits32 - 1
    BY <1>1 DEF Axes
  <2>2. /\ r \in Thread(c, id(b, t, 1), id(b, t, 2), id(b, t, 3))
        /\ s \in Thread(c, id(d, u, 1), id(d, u, 2), id(d, u, 3))
    BY <1>2
  <2> QED BY ONLY WellFormed(c), Checked(c), SizesFit(c), r.to = s.to, <1>3, <2>1, <2>2, StoredOnce
<1>5. ThreadOf(c, b, t) = ThreadOf(c, d, u)
  BY <1>2, <1>4, ThreadSame
<1> QED BY <1>2, <1>5, ThreadSingle

\* An element out of reach has none.
LEMMA BeyondReach ==
  ASSUME NEW c, WellFormed(c), Checked(c), SizesFit(c), c.op \in OneD, NEW i \in Nat, ~(i < Reach(c)),
         NEW b \in Cells(Geometry(c).grid), NEW t \in Cells(Geometry(c).block),
         NEW s \in ThreadOf(c, b, t)
  PROVE  s.to # i
<1> DEFINE x == Id(Geometry(c), b, t, 1)
           y == Id(Geometry(c), b, t, 2)
           z == Id(Geometry(c), b, t, 3)
<1>1. x \in Nat /\ x \in 0 .. 2^Bits32 - 1
  BY ThreadOfIs DEF Axes
<1>2. s \in Thread(c, x, y, z)
  BY DEF ThreadOf
<1> HIDE DEF x, y, z
<1>3. x < 2^Bits32
  BY <1>1, ShapeAssumption
<1>4. CASE c.op = "elementwise"
  <2>1. s \in Elementwise(c, x)
    BY <1>2, <1>4 DEF Thread, Factories
  <2>2. s.to = Signed(x)
    BY <1>1, <1>4, <2>1, ElementwiseStores
  <2>3. Size(c.a) \in Nat
    BY SizeIsNat DEF WellFormed
  <2>4. Word32(Size(c.a)) \in Nat
    BY <2>3, Words
  <2>5. x < Word32(Size(c.a))
    BY <1>1, <2>1, <2>4 DEF Elementwise
  <2>6. Reach(c) = Least(Word32(Size(c.a)), 2^(Bits32 - 1))
    BY <1>4 DEF Reach
  <2> SUFFICES ASSUME s.to = i PROVE FALSE
    OBVIOUS
  <2>7. x < 2^(Bits32 - 1) /\ x = i
    BY <1>1, <1>3, <2>2, SignedIs
  <2> QED BY <2>4, <2>5, <2>6, <2>7, ShapeAssumption DEF Least
<1>5. CASE c.op # "elementwise"
  <2>1. Reach(c) = 2^Bits32
    BY <1>5 DEF Reach
  <2>2. s.to = x
    <3>1. CASE c.op = "batched"
      <4>1. s \in Batched(c, x)
        BY <1>2, <3>1 DEF Thread, Factories
      <4> QED BY <1>1, <3>1, <4>1, BatchedStores DEF Checked
    <3>2. CASE c.op \in Factories
      <4>1. s \in Create(c, x)
        BY <1>2, <3>2 DEF Thread, Factories
      <4> QED BY <1>1, <3>2, <4>1, CreateStores
    <3> QED BY <1>5, <3>1, <3>2 DEF OneD, Factories
  <2> QED BY <1>3, <2>1, <2>2
<1> QED BY <1>4, <1>5
-----------------------------------------------------------------------------
\* A thread of a block that has run stores value at i.
StoredAs(i, value) ==
  \E b \in Cells(Geometry(call).grid) \ todo, t \in Cells(Geometry(call).block) :
    \E s \in ThreadOf(call, b, t) : s.to = i /\ s.value = value

\* What is in an element is what a block that has run has stored there.
Filled(i) == \/ out[i] = Unwritten /\ ~Stored(i)
             \/ StoredAs(i, out[i])

FilledInv ==
  phase \in {"running", "done"} /\ call.op \notin Host =>
    WellFormed(call) /\ Checked(call) /\ \A i \in DOMAIN out : Filled(i)

\* A block fills its elements.
LEMMA BlockFills ==
  ASSUME BlocksInv, FilledInv, NEW b, RunBlock(b)
  PROVE  FilledInv'
<1> DEFINE block == Cells(Geometry(call).block)
           stores == Stores(b)
           all == UNION {stores[t] : t \in DOMAIN stores}
<1>1. /\ phase = "running" /\ b \in todo
      /\ todo' = todo \ {b} /\ UNCHANGED <<phase, call>>
      /\ out' = [i \in DOMAIN out |->
                   IF \E s \in all : s.to = i THEN (CHOOSE s \in all : s.to = i).value
                   ELSE out[i]]
  BY Zenon DEF RunBlock
<1>2. stores = [t \in block |-> ThreadOf(call, b, t)]
  BY StoresAre
<1>3. \A s : s \in all <=> \E t \in block : s \in ThreadOf(call, b, t)
  BY <1>2
<1>4. /\ WellFormed(call) /\ Checked(call) /\ b \in Cells(Geometry(call).grid)
  BY <1>1 DEF BlocksInv, TypeInv, TypeOK
<1> HIDE DEF stores, all, block
<1>5. DOMAIN out' = DOMAIN out
  BY <1>1
<1> DEFINE ran == Cells(Geometry(call).grid) \ todo'
           Touched(i) == \E d \in ran, t \in block : \E s \in ThreadOf(call, d, t) : s.to = i
           Now(i, v) == \E d \in ran, t \in block :
                          \E s \in ThreadOf(call, d, t) : s.to = i /\ s.value = v
<1>8. ran = (Cells(Geometry(call).grid) \ todo) \cup {b}
  BY <1>1, <1>4
<1>9. ASSUME NEW i \in DOMAIN out, \A j \in DOMAIN out : Filled(j)
      PROVE  (out'[i] = Unwritten /\ ~Touched(i)) \/ Now(i, out'[i])
  <2>1. CASE \E s \in all : s.to = i
    <3> DEFINE s == CHOOSE s \in all : s.to = i
    <3>1. s \in all /\ s.to = i
      BY <2>1
    <3>2. out'[i] = s.value
      BY <1>1, <2>1
    <3> HIDE DEF s
    <3>3. PICK t \in block : s \in ThreadOf(call, b, t)
      BY <1>3, <3>1
    <3>4. b \in ran
      BY <1>8
    <3> HIDE DEF ran
    <3>5. Now(i, s.value)
      BY <3>1, <3>3, <3>4
    <3> QED BY <3>2, <3>5
  <2>2. CASE ~\E s \in all : s.to = i
    <3>1. out'[i] = out[i]
      BY <1>1, <2>2
    <3>2. ~\E t \in block : \E s \in ThreadOf(call, b, t) : s.to = i
      BY <1>3, <2>2
    <3>3. CASE out[i] = Unwritten /\ ~Stored(i)
      <4>1. ~\E d \in Cells(Geometry(call).grid) \ todo, t \in block :
              \E s \in ThreadOf(call, d, t) : s.to = i
        BY <3>3 DEF Stored, block
      <4> HIDE DEF ran
      <4>2. ~Touched(i)
        BY <1>8, <3>2, <4>1
      <4> QED BY <3>1, <3>3, <4>2
    <3>4. CASE StoredAs(i, out[i])
      <4>1. \E d \in Cells(Geometry(call).grid) \ todo, t \in block :
              \E s \in ThreadOf(call, d, t) : s.to = i /\ s.value = out[i]
        BY <3>4 DEF StoredAs, block
      <4> HIDE DEF ran
      <4>2. Now(i, out[i])
        BY <1>8, <4>1
      <4> QED BY <3>1, <4>2
    <3> QED BY <1>9, <3>3, <3>4 DEF Filled
  <2> QED BY <2>1, <2>2
<1>10. ASSUME call.op \notin Host PROVE \A j \in DOMAIN out : Filled(j)
  BY <1>1, <1>10 DEF FilledInv
<1>11. ASSUME call.op \notin Host, NEW i \in DOMAIN out PROVE Filled(i)'
  <2>1. (out'[i] = Unwritten /\ ~Touched(i)) \/ Now(i, out'[i])
    BY <1>9, <1>10, <1>11
  <2> QED BY <1>1, <2>1 DEF Filled, Stored, StoredAs, block
<1> QED BY <1>1, <1>4, <1>5, <1>11 DEF FilledInv

LEMMA FilledNext == BlocksInv /\ FilledInv /\ [Next]_vars => FilledInv'
<1> SUFFICES ASSUME BlocksInv, FilledInv, [Next]_vars PROVE FilledInv'
  OBVIOUS
<1>1. ASSUME phase' \notin {"running", "done"} PROVE FilledInv'
  BY <1>1 DEF FilledInv
<1>2. ASSUME phase \in {"running", "done"}, UNCHANGED <<call, todo, out>> PROVE FilledInv'
  BY <1>2 DEF FilledInv, Filled, Stored, StoredAs
<1>3. ASSUME NEW c, NEW device, Launch(c, device), call' = c, WellFormed(c), Checked(c)
      PROVE  FilledInv'
  <2>1. CASE phase' = "failed"
    BY <1>1, <2>1
  <2>2. CASE phase' # "failed"
    <3>1. todo' = Cells(Geometry(c).grid) /\ out' = Fresh(c)
      BY <1>3, <2>2 DEF Launch
    <3>2. \A i \in DOMAIN out' : out'[i] = Unwritten
      BY <3>1 DEF Fresh
    <3>3. \A i : ~Stored(i)'
      BY <1>3, <3>1 DEF Stored
    <3>4. \A i \in DOMAIN out' : Filled(i)'
      BY <3>2, <3>3 DEF Filled
    <3> QED BY <1>3, <3>4 DEF FilledInv
  <2> QED BY <2>1, <2>2
<1>4. ASSUME NEW c \in Calls, Build(c) PROVE FilledInv'
  BY <1>1, <1>4 DEF Build
<1>5. ASSUME NEW c \in Calls, Make(c) PROVE FilledInv'
  BY <1>3, <1>5, FactoryChecked DEF Make
<1>6. ASSUME Operate PROVE FilledInv'
  <2>1. WellFormed(call) /\ Checked(call)
    BY <1>6, AcceptedChecked DEF Operate, BlocksInv
  <2> QED BY <1>3, <1>6, <2>1 DEF Operate
<1>7. ASSUME NEW c, NEW elements, NEW rest, Load(c, elements, rest), c.op \in Host
      PROVE  FilledInv'
  BY <1>7 DEF Load, FilledInv
<1>8. ASSUME NEW c \in Calls, NEW elements, NEW rest, Load(c, elements, rest),
             c.op = "fill", Size(c.a) = 0
      PROVE  FilledInv'
  <2>1. WellFormed(c) /\ Checked(c) /\ Dims(c) = c.a /\ call' = c
    BY <1>8, FactoryChecked DEF Factories, Dims, ResultDims, Load
  <2>2. Positions(c) = {}
    BY <1>8, <2>1 DEF Positions
  <2>3. DOMAIN out' = {}
    BY <1>8, <2>2 DEF Load, Fresh
  <2> QED BY <2>1, <2>3 DEF FilledInv
<1>9. ASSUME NEW b \in todo, RunBlock(b) PROVE FilledInv'
  BY <1>9, BlockFills
<1>10. CASE Return
  BY <1>2, <1>10 DEF Return
<1>11. CASE Refuse \/ Drop
  BY <1>1, <1>11 DEF Refuse, Drop
<1>12. ASSUME NEW i, Subscript(i) PROVE FilledInv'
  BY <1>2, <1>12 DEF Subscript
<1>13. CASE UNCHANGED arrayVars
  <2>1. UNCHANGED <<phase, call, todo, out>>
    BY <1>13 DEF arrayVars
  <2> QED BY <1>1, <1>2, <2>1
<1>14. ASSUME NEW c \in Calls, FromSequence(c) \/ FromHost(c) \/ FillBytes(c) PROVE FilledInv'
  BY <1>7, <1>8, <1>14 DEF FromSequence, FromHost, FillBytes, Host
<1> QED
  BY <1>4, <1>5, <1>6, <1>9, <1>10, <1>11, <1>12, <1>13, <1>14
     DEF Next, DeviceStep, vars, arrayVars

LEMMA AlwaysFilled == Spec => [](BlocksInv /\ FilledInv)
<1>1. Init => FilledInv
  BY DEF Init, FilledInv
<1> QED BY <1>1, BlocksInit, BlocksNext, FilledNext, PTL DEF Spec

\* Of a call that has returned, an element for which the launch has a thread is what that thread
\* stores.
LEMMA FilledBy ==
  ASSUME BlocksInv, FilledInv, phase = "done", call.op \notin Host,
         SizesFit(call), ProductsFit(call), AxesFit(call),
         NEW i \in DOMAIN out, NEW x, NEW y, NEW z, NEW value, Computes(call, x, y, z, i, value)
  PROVE  out[i] = value
<1>1. WellFormed(call) /\ Checked(call) /\ Filled(i) /\ todo = {}
  BY DEF FilledInv, BlocksInv, TypeInv, TypeOK
<1>2. PICK b \in Cells(Geometry(call).grid), t \in Cells(Geometry(call).block) :
        \E s \in ThreadOf(call, b, t) : s.to = i /\ s.value = value
  BY <1>1, Reached
<1>3. PICK s \in ThreadOf(call, b, t) : s.to = i /\ s.value = value
  BY <1>2
<1>4. StoredAs(i, out[i])
  BY <1>1, <1>3 DEF Filled, Stored
<1>5. PICK d \in Cells(Geometry(call).grid), u \in Cells(Geometry(call).block) :
        \E r \in ThreadOf(call, d, u) : r.to = i /\ r.value = out[i]
  BY <1>4 DEF StoredAs
<1>6. PICK r \in ThreadOf(call, d, u) : r.to = i /\ r.value = out[i]
  BY <1>5
<1>7. r.to = s.to
  BY <1>3, <1>6
<1>8. r = s
  BY <1>1, <1>7, StoresAgree
<1> QED BY <1>3, <1>6, <1>8

\* A call that returns has computed what the operation defines, in every element that
\* a thread index can reach, and nothing elsewhere, whatever the shapes, the blocks'
\* order and the widths of the integers: as long as sizes and the 32 bit products of
\* matrix_multiply do not wrap and rows, columns and its inner dimension fit an int.
THEOREM AlwaysResultCorrect == Spec => []ResultCorrect
<1>1. ASSUME BlocksInv, FilledInv PROVE ResultCorrect
  <2> SUFFICES ASSUME phase = "done", call.op \notin Host \cup {"random"},
                      Exact(call), SizesFit(call), ProductsFit(call), AxesFit(call),
                      NEW p \in AllIndices(Dims(call))
               PROVE  out[Position(Dims(call), p)]
                        = IF Position(Dims(call), p) < Reach(call) THEN Reference(call, p)
                          ELSE Unwritten
    BY DEF ResultCorrect
  <2> DEFINE i == Position(Dims(call), p)
  <2>1. WellFormed(call) /\ Checked(call) /\ todo = {} /\ DOMAIN out = Positions(call)
    BY <1>1 DEF FilledInv, BlocksInv, TypeInv, TypeOK
  <2>2. Dims(call) = ResultDims(call)
    BY <2>1 DEF Dims, Host
  <2>3. ResultDims(call) \in Seq(Nat) /\ NoWrap(ResultDims(call)) /\ Size(ResultDims(call)) \in Nat
    BY <2>1, <2>2, ResultDimsAre DEF Exact
  <2>4. i \in Nat /\ i < Size(ResultDims(call))
    BY <2>2, <2>3, PositionIs DEF NoWrap
  <2> HIDE DEF i
  <2>5. i \in DOMAIN out
    BY <2>1, <2>2, <2>3, <2>4 DEF Positions
  <2>6. CASE i < Reach(call)
    <3>1. PICK x, y, z : Computes(call, x, y, z, i, Reference(call, p))
      BY <2>1, <2>2, <2>3, <2>6, ThreadComputes DEF i
    <3>2. out[i] = Reference(call, p)
      BY <1>1, <2>5, <3>1, FilledBy
    <3> QED BY <2>6, <3>2 DEF i
  <2>7. CASE ~(i < Reach(call))
    <3>1. call.op \in OneD
      <4>1. call.op \notin OneD => Reach(call) = Size(Dims(call))
        BY DEF Reach, OneD
      <4> QED BY <2>2, <2>4, <2>7, <4>1
    <3>2. \A v : ~StoredAs(i, v)
      BY <2>1, <2>4, <2>7, <3>1, BeyondReach DEF StoredAs
    <3>3. Filled(i)
      BY <1>1, <2>5 DEF FilledInv
    <3>4. out[i] = Unwritten
      BY <3>2, <3>3 DEF Filled
    <3> QED BY <2>7, <3>4 DEF i
  <2> QED BY <2>6, <2>7
<1> QED BY <1>1, AlwaysFilled, PTL

LEMMA NoFactor ==
  ASSUME NEW P \in Nat, P % 5 # 0, NEW d \in Nat \ {0}, d < P, NEW q \in Int, d * 5 = q * P
  PROVE  FALSE
<1>1. q > 0
  <2> SUFFICES ASSUME q <= 0 PROVE FALSE
    OBVIOUS
  <2>1. -q \in Nat /\ (-q) * P \in Nat /\ q * P = -((-q) * P)
    OBVIOUS
  <2> QED BY <2>1
<1>2. q < 5
  <2> SUFFICES ASSUME 5 <= q PROVE FALSE
    OBVIOUS
  <2>1. 5 * P <= q * P
    BY <1>1, TimesMonotone
  <2> QED BY <2>1
<1>3. q \in 1 .. 4
  BY <1>1, <1>2
<1>4. q = 1 \/ q = 2 \/ q = 3 \/ q = 4
  BY <1>3
<1> QED BY <1>4

LEMMA RandomStateOnce ==
  ASSUME NEW i \in Nat, NEW j \in Nat, i < j, j < 2^Bits32
  PROVE  RandomState(i) # RandomState(j)
<1> DEFINE P == 2^Bits32
<1>1. P \in Nat \ {0} /\ P % 5 # 0
  BY ShapeAssumption, FactorAssumption
<1>2. i < j /\ j < P
  OBVIOUS
<1>3. RandomState(i) = (i * 5) % P /\ RandomState(j) = (j * 5) % P
  BY DEF RandomState, Word32
<1> HIDE DEF P
<1> SUFFICES ASSUME (i * 5) % P = (j * 5) % P PROVE FALSE
  BY <1>3
<1> DEFINE u == (i * 5) \div P
           v == (j * 5) \div P
           k == (i * 5) % P
<1>4. u \in Nat /\ v \in Nat /\ k \in Nat /\ i * 5 = u * P + k /\ j * 5 = v * P + k
  <2> DEFINE a == i * 5
             b == j * 5
  <2>1. a \in Nat /\ b \in Nat
    OBVIOUS
  <2> HIDE DEF a, b
  <2>2. a % P = b % P
    BY DEF a, b
  <2>3. /\ a \div P \in Nat /\ b \div P \in Nat /\ a % P \in 0 .. P - 1
        /\ a = (a \div P) * P + (a % P) /\ b = (b \div P) * P + (b % P)
    BY <1>1, <2>1, Divide
  <2> QED BY <1>1, <2>2, <2>3 DEF a, b
<1> HIDE DEF u, v, k
<1>5. (v - u) * P = v * P - u * P /\ u * P \in Nat /\ v * P \in Nat
  BY <1>1, <1>4
<1>6. (j - i) * 5 = (v - u) * P
  BY <1>4, <1>5
<1>7. j - i \in Nat \ {0} /\ j - i < P /\ v - u \in Int
  BY <1>1, <1>2, <1>4
<1> QED BY <1>1, <1>6, <1>7, NoFactor

\* No two elements of a random array start from the same generator.
THEOREM AlwaysSeedsDiffer == Spec => []SeedsDiffer
<1>1. ASSUME BlocksInv, FilledInv PROVE SeedsDiffer
  <2> SUFFICES ASSUME phase = "done", call.op = "random", AxesFit(call),
                      NEW i \in Positions(call), NEW j \in Positions(call),
                      i # j, i < 2^Bits32, j < 2^Bits32
               PROVE  out[i] # out[j]
    BY DEF SeedsDiffer
  <2>1. /\ WellFormed(call) /\ call.op \notin Host /\ call.op \in Factories
        /\ DOMAIN out = Positions(call)
    BY <1>1 DEF FilledInv, BlocksInv, TypeInv, TypeOK, Host, Factories
  <2>2. Dims(call) = call.a /\ Size(call.a) \in Nat
    BY <2>1, SizeIsNat DEF Dims, ResultDims, WellFormed
  <2>3. SizesFit(call) /\ ProductsFit(call)
    BY DEF SizesFit, ProductsFit
  <2>4. ASSUME NEW l \in Positions(call), l < 2^Bits32 PROVE out[l] = RandomState(l)
    <3>1. l \in Nat /\ l < Size(call.a)
      BY <2>2 DEF Positions
    <3>2. Computes(call, l, 0, 0, l, RandomState(l))
      BY <2>1, <2>4, <3>1, CreateComputes
    <3> QED BY <1>1, <2>1, <2>3, <2>4, <3>2, FilledBy
  <2>5. i \in Nat /\ j \in Nat /\ (i < j \/ j < i)
    BY <2>2 DEF Positions
  <2> QED BY <2>4, <2>5, RandomStateOnce
<1> QED BY <1>1, AlwaysFilled, PTL
-----------------------------------------------------------------------------
IsOffset(f, strides, p) ==
  /\ f \in [0 .. Len(p) -> Nat] /\ f[0] = 0
  /\ \A i \in 1 .. Len(p) : f[i] = Word64(f[i - 1] + strides[i] * p[i])

LEMMA OffsetIs ==
  ASSUME NEW p \in Seq(Nat), NEW strides, \A i \in 1 .. Len(p) : strides[i] \in Nat
  PROVE  \E f : IsOffset(f, strides, p) /\ Offset(strides, p) = f[Len(p)]
<1> DEFINE n == Len(p)
           step == [i \in 1 .. n |-> [s \in Nat |-> Word64(s + strides[i] * p[i])]]
           Is(g) == g = [i \in 0 .. n |-> IF i = 0 THEN 0
                                         ELSE Word64(g[i - 1] + strides[i] * p[i])]
           f == CHOOSE g : Is(g)
<1>1. n \in Nat /\ \A i \in 1 .. n : strides[i] \in Nat /\ p[i] \in Nat
  OBVIOUS
<1>2. \A i \in 1 .. n, s \in Nat : Word64(s + strides[i] * p[i]) \in Nat
  <2> SUFFICES ASSUME NEW i \in 1 .. n, NEW s \in Nat
               PROVE  Word64(s + strides[i] * p[i]) \in Nat
    OBVIOUS
  <2>1. strides[i] \in Nat /\ p[i] \in Nat
    BY <1>1
  <2>2. \A x, y \in Nat : s + x * y \in Nat
    OBVIOUS
  <2> QED BY <2>1, <2>2, Words
<1>3. step \in [1 .. n -> [Nat -> Nat]]
  BY <1>2
<1>4. \A i \in 1 .. n, s \in Nat : step[i][s] = Word64(s + strides[i] * p[i])
  OBVIOUS
<1>5. Offset(strides, p) = f[n]
  BY DEF Offset
<1> HIDE DEF n, step
<1>6. \A i \in 0 .. n : i # 0 => i \in 1 .. n /\ i - 1 \in 0 .. n
  BY <1>1
<1>7. PICK g \in [0 .. n -> Nat] : IsUp(g, n, 0, step)
  BY <1>1, <1>3, UpRecursion
<1>8. Is(g)
  BY <1>4, <1>6, <1>7 DEF IsUp
<1>9. Is(f)
  BY <1>8
<1> HIDE DEF f
<1>10. f[0] = 0 /\ \A i \in 1 .. n : f[i] = Word64(f[i - 1] + strides[i] * p[i])
  BY <1>1, <1>9
<1>11. \A i \in 1 .. n : f[i - 1] \in Nat => f[i] \in Nat
  BY <1>2, <1>10
<1>12. \A i \in 0 .. n : f[i] \in Nat
  <2>1. f[0] \in Nat
    BY <1>10
  <2> QED BY <1>1, <1>11, <2>1, UpTyped, Zenon
<1>13. f \in [0 .. n -> Nat]
  BY <1>9, <1>12
<1>14. IsOffset(f, strides, p)
  BY <1>10, <1>13 DEF IsOffset, n
<1> QED BY <1>5, <1>14 DEF n

\* One more subscript.
LEMMA OffsetAppend ==
  ASSUME NEW p \in Seq(Nat), NEW i \in Nat,
         NEW strides, \A d \in 1 .. Len(p) + 1 : strides[d] \in Nat
  PROVE  /\ Offset(strides, Append(p, i))
              = Word64(Offset(strides, p) + strides[Len(p) + 1] * i)
         /\ Offset(strides, p) \in Nat
<1> DEFINE n == Len(p)
           q == Append(p, i)
<1>1. n \in Nat /\ q \in Seq(Nat) /\ Len(q) = n + 1 /\ q[n + 1] = i /\ \A d \in 1 .. n : q[d] = p[d]
  OBVIOUS
<1>2. \A d \in 1 .. n : strides[d] \in Nat
  BY <1>1
<1>3. PICK f : IsOffset(f, strides, p) /\ Offset(strides, p) = f[n]
  BY <1>2, OffsetIs
<1>4. PICK g : IsOffset(g, strides, q) /\ Offset(strides, q) = g[n + 1]
  <2>1. \A d \in 1 .. Len(q) : strides[d] \in Nat
    BY <1>1
  <2> HIDE DEF q
  <2> QED BY <1>1, <2>1, OffsetIs
<1> HIDE DEF n, q
<1>5. /\ f \in [0 .. n -> Nat] /\ f[0] = 0
      /\ \A d \in 1 .. n : f[d] = Word64(f[d - 1] + strides[d] * p[d])
  BY <1>3 DEF IsOffset, n
<1>6. /\ g[0] = 0 /\ \A d \in 1 .. n + 1 : g[d] = Word64(g[d - 1] + strides[d] * q[d])
  BY <1>1, <1>4 DEF IsOffset
<1> DEFINE T == {d \in 0 .. n : f[d] = g[d]}
<1>7. 0 \in T
  BY <1>1, <1>5, <1>6
<1>8. ASSUME NEW d \in 0 .. n - 1, d \in T PROVE d + 1 \in T
  <2>1. d + 1 \in 1 .. n /\ d + 1 \in 1 .. n + 1 /\ (d + 1) - 1 = d /\ d + 1 \in 0 .. n
    BY <1>1
  <2>2. q[d + 1] = p[d + 1] /\ f[d] = g[d]
    BY <1>1, <1>8, <2>1
  <2> QED BY <1>5, <1>6, <2>1, <2>2
<1> HIDE DEF T
<1>9. 0 .. n \subseteq T
  BY <1>1, <1>7, <1>8, Upwards
<1>10. f[n] = g[n] /\ f[n] \in Nat
  <2>1. n \in 0 .. n
    BY <1>1
  <2> QED BY <1>5, <1>9, <2>1 DEF T
<1>11. g[n + 1] = Word64(g[n] + strides[n + 1] * i)
  <2>1. n + 1 \in 1 .. n + 1 /\ (n + 1) - 1 = n
    BY <1>1
  <2> QED BY <1>1, <1>6, <2>1
<1> QED BY <1>3, <1>4, <1>10, <1>11 DEF n, q

\* The offset of an index is its number, if the size of the array does not wrap.
LEMMA OffsetIsNumber ==
  ASSUME NEW dims \in Seq(Nat), dims # <<>>, NoWrap(dims), NEW p \in Seq(Nat), IsIndex(dims, p)
  PROVE  Offset(Strides(dims), p) = Number(dims, p)
<1> DEFINE n == Len(dims)
           s == Strides(dims)
           h == Horner(dims, p)
           P == Products(dims)
           E == Elements(dims)
<1>1. n \in Nat \ {0} /\ Len(p) = n /\ \A i \in 1 .. n : dims[i] \in Nat /\ p[i] \in Nat
  <2>1. p \in [1 .. n -> Nat]
    BY DEF IsIndex
  <2> QED BY <2>1
<1>2. /\ h \in [0 .. n -> Nat] /\ h[0] = 0
      /\ \A i \in 1 .. n : h[i] = h[i - 1] * dims[i] + p[i]
  BY HornerIs DEF IsIndex
<1>3. /\ \A i \in 0 .. n : h[i] < P[i]
      /\ P \in [0 .. n -> Nat]
  BY HornerBelow, ProductsAre
<1>4. E \in Nat /\ E < 2^Bits64 /\ E # 0
  <2>1. E \in Nat /\ E < 2^Bits64
    BY ExactProducts
  <2>2. n \in 0 .. n
    BY <1>1
  <2>3. h[n] < E /\ h[n] \in Nat
    BY <1>2, <1>3, <2>2 DEF Elements
  <2> QED BY <2>1, <2>3
<1>5. /\ \A i \in 1 .. n : s[i] \in Nat /\ P[i] * s[i] = E
      /\ \A i \in 1 .. n - 1 : s[i] = s[i + 1] * dims[i + 1]
      /\ s[n] = 1
  <2>1. /\ \A i \in 1 .. n : s[i] \in Nat /\ P[i] * s[i] = E
        /\ \A i \in 1 .. n - 1 : s[i] = s[i + 1] * dims[i + 1]
    BY <1>4, ExactStrides
  <2>2. s[n] = 1
    BY StridesAre
  <2> HIDE DEF s, n, P, E
  <2> QED BY <2>1, <2>2
<1>6. PICK f : IsOffset(f, s, p) /\ Offset(s, p) = f[n]
  <2>1. \A i \in 1 .. Len(p) : s[i] \in Nat
    BY <1>1, <1>5
  <2> HIDE DEF s
  <2> QED BY <1>1, <2>1, OffsetIs
<1> HIDE DEF n, s, h, P, E
<1>7. f[0] = 0 /\ \A i \in 1 .. n : f[i] = Word64(f[i - 1] + s[i] * p[i])
  BY <1>1, <1>6 DEF IsOffset
<1>8. ASSUME NEW i \in 1 .. n
      PROVE  h[i] \in Nat /\ h[i] * s[i] \in Nat /\ h[i] * s[i] < 2^Bits64
  <2> DEFINE x == h[i]
             y == P[i]
             z == s[i]
  <2>1. i \in 0 .. n
    BY <1>1
  <2>2. x \in Nat /\ y \in Nat /\ z \in Nat /\ x < y /\ y * z = E
    BY <1>2, <1>3, <1>5, <2>1
  <2> HIDE DEF x, y, z
  <2>3. x * z \in Nat /\ x * z <= y * z
    BY <2>2, TimesMonotone
  <2> QED BY <1>4, <2>2, <2>3, ShapeAssumption DEF x, z
<1> DEFINE T == {i \in 0 .. n : i # 0 => f[i] = h[i] * s[i]}
<1>9. 0 \in T
  BY <1>1
<1>10. ASSUME NEW i \in 0 .. n - 1, i \in T PROVE i + 1 \in T
  <2> DEFINE x == h[i]
             d == dims[i + 1]
             z == s[i + 1]
             k == p[i + 1]
  <2>1. i + 1 \in 1 .. n /\ (i + 1) - 1 = i /\ i \in 0 .. n /\ (i # 0 => i \in 1 .. n - 1)
    BY <1>1
  <2>2. x \in Nat /\ d \in Nat /\ z \in Nat /\ k \in Nat /\ h[i + 1] = x * d + k
    BY <1>1, <1>2, <1>5, <2>1
  <2>3. f[i] = x * (z * d)
    <3>1. CASE i = 0
      <4>1. x = 0 /\ f[i] = 0
        BY <1>2, <1>7, <3>1
      <4> HIDE DEF x, d, z, k
      <4>2. z * d \in Nat
        BY <2>2
      <4> QED BY <4>1, <4>2
    <3>2. CASE i # 0
      BY <1>5, <1>10, <2>1, <3>2 DEF T
    <3> QED BY <3>1, <3>2
  <2>4. f[i + 1] = Word64(f[i] + z * k)
    BY <1>7, <2>1
  <2>5. h[i + 1] * z \in Nat /\ h[i + 1] * z < 2^Bits64
    BY <1>8, <2>1
  <2> HIDE DEF x, d, z, k
  <2>6. x * (z * d) + z * k = (x * d + k) * z
    BY <2>2
  <2>7. f[i + 1] = h[i + 1] * z
    BY <2>2, <2>3, <2>4, <2>5, <2>6, Words
  <2> QED BY <2>1, <2>7 DEF z
<1> HIDE DEF T
<1>11. 0 .. n \subseteq T
  BY <1>1, <1>9, <1>10, Upwards
<1>12. f[n] = h[n] * s[n] /\ h[n] \in Nat
  <2>1. n \in 0 .. n /\ n # 0 /\ n \in 1 .. n
    BY <1>1
  <2> QED BY <1>8, <1>11, <2>1 DEF T
<1>13. f[n] = h[n]
  BY <1>5, <1>12
<1> QED BY <1>6, <1>13 DEF s, h, n, Number
-----------------------------------------------------------------------------
\* What a path leads to: a view of the dimensions that are left, at the offset of the
\* indices, as long as all but the first are in range; from then on an empty one.
WalkInv ==
  path # <<>> =>
    LET dims == Dims(call)
        k == Len(path)
        rest == 1 .. Len(dims) - k
    IN  /\ path \in Seq(Nat) /\ k <= Len(dims)
        /\ view.bound = (\A i \in 2 .. k : path[i] < dims[i])
        /\ view.dims \in Seq(Nat) /\ Len(view.dims) = Len(dims) - k
        /\ view.bound => /\ view.offset = Offset(Strides(dims), path)
                         /\ view.strides \in Seq(Nat) /\ Len(view.strides) = Len(dims) - k
                         /\ \A j \in rest : /\ view.dims[j] = dims[k + j]
                                            /\ view.strides[j] = Strides(dims)[k + j]
        /\ ~view.bound => \A j \in rest : view.dims[j] = 0

LEMMA StridesSeq ==
  ASSUME NEW dims \in Seq(Nat)
  PROVE  /\ Strides(dims) \in Seq(Nat) /\ Len(Strides(dims)) = Len(dims)
         /\ \A i \in 1 .. Len(dims) : Strides(dims)[i] \in Nat
<1> DEFINE s == Strides(dims)
<1>1. s \in [1 .. Len(dims) -> Nat] /\ Len(dims) \in Nat
  BY StridesAre
<1> HIDE DEF s
<1>2. s \in Seq(Nat) /\ Len(s) = Len(dims)
  BY <1>1
<1> QED BY <1>1, <1>2 DEF s

LEMMA WalkSubscript ==
  ASSUME TypeInv, WalkInv, NEW i \in Nat, Subscript(i)
  PROVE  WalkInv'
<1> DEFINE dims == Dims(call)
           s == Strides(dims)
           k == Len(path)
           n == Len(dims)
<1>1. /\ phase = "done" /\ k < n /\ call' = call
      /\ view' = IF path = <<>> THEN ArrayAt(dims, i) ELSE ViewAt(view, i)
      /\ path' = Append(path, i)
  BY DEF Subscript
<1>2. dims \in Seq(Nat)
  BY <1>1, Assumed DEF TypeInv, TypeOK, Shaped
<1>3. s \in Seq(Nat) /\ Len(s) = n /\ \A j \in 1 .. n : s[j] \in Nat
  BY <1>2, StridesSeq
<1>4. path \in Seq(Nat)
  <2>1. CASE path = <<>>
    BY <2>1
  <2>2. CASE path # <<>>
    BY <2>2 DEF WalkInv
  <2> QED BY <2>1, <2>2
<1> DEFINE q == Append(path, i)
<1>5. /\ k \in Nat /\ n \in Nat /\ q \in Seq(Nat) /\ Len(q) = k + 1 /\ q # <<>>
      /\ q[k + 1] = i /\ \A j \in 1 .. k : q[j] = path[j]
  BY <1>2, <1>4
<1>6. Offset(s, q) = Word64(Offset(s, path) + s[k + 1] * i) /\ Offset(s, path) \in Nat
  <2>1. \A j \in 1 .. Len(path) + 1 : s[j] \in Nat
    BY <1>1, <1>3, <1>5
  <2> HIDE DEF s
  <2> QED BY <1>4, <2>1, OffsetAppend
<1>7. k + 1 \in 1 .. n /\ s[k + 1] \in Nat /\ dims[k + 1] \in Nat /\ s[k + 1] * i = i * s[k + 1]
  <2>1. k + 1 \in 1 .. n
    BY <1>1, <1>5
  <2>2. s[k + 1] \in Nat /\ dims[k + 1] \in Nat
    BY <1>2, <1>3, <2>1
  <2> HIDE DEF s, dims
  <2> QED BY <2>1, <2>2
<1> DEFINE Holds(v) ==
             /\ v.bound = (\A j \in 2 .. k + 1 : q[j] < dims[j])
             /\ v.dims \in Seq(Nat) /\ Len(v.dims) = n - (k + 1)
             /\ v.bound => /\ v.offset = Offset(s, q)
                           /\ v.strides \in Seq(Nat) /\ Len(v.strides) = n - (k + 1)
                           /\ \A j \in 1 .. n - (k + 1) : /\ v.dims[j] = dims[k + 1 + j]
                                                          /\ v.strides[j] = s[k + 1 + j]
             /\ ~v.bound => \A j \in 1 .. n - (k + 1) : v.dims[j] = 0
<1> HIDE DEF s, dims, n
<1>10. ASSUME Holds(view') PROVE WalkInv'
  <2>1. path' = q /\ Len(path') = k + 1 /\ path' \in Seq(Nat) /\ k + 1 <= n
    BY <1>1, <1>5
  <2>2. Dims(call)' = dims /\ Strides(Dims(call)') = s /\ Len(Dims(call)') = n
    BY <1>1 DEF dims, s, n
  <2> HIDE DEF q, k
  <2> QED BY <1>10, <2>1, <2>2 DEF WalkInv
<1>8. CASE path = <<>>
  <2>1. k = 0
    BY <1>8
  <2> DEFINE v == SubView(0, dims, s, i)
  <2>2. view' = v
    BY <1>1, <1>8 DEF ArrayAt, s
  <2>3. /\ v.bound = TRUE /\ v.offset = Word64(0 + i * s[1])
        /\ v.dims = Tail(dims) /\ v.strides = Tail(s)
    BY DEF SubView
  <2>4. /\ Tail(dims) \in Seq(Nat) /\ Len(Tail(dims)) = n - 1
        /\ \A j \in 1 .. n - 1 : Tail(dims)[j] = dims[j + 1]
        /\ Tail(s) \in Seq(Nat) /\ Len(Tail(s)) = n - 1
        /\ \A j \in 1 .. n - 1 : Tail(s)[j] = s[j + 1]
    BY <1>1, <1>2, <1>3, <1>5, <2>1 DEF n
  <2>5. Offset(s, path) = 0
    <3>1. PICK f : IsOffset(f, s, path) /\ Offset(s, path) = f[k]
      <4>1. \A j \in 1 .. Len(path) : s[j] \in Nat
        BY <2>1
      <4> QED BY <1>4, <4>1, OffsetIs
    <3> QED BY <2>1, <3>1 DEF IsOffset
  <2>6. v.offset = Offset(s, q)
    BY <1>6, <1>7, <2>1, <2>3, <2>5
  <2> HIDE DEF v
  <2>7. \A j \in 2 .. k + 1 : q[j] < dims[j]
    BY <2>1
  <2>8. \A j \in 1 .. n - 1 : k + 1 + j = j + 1
    BY <2>1
  <2>9. n - (k + 1) = n - 1
    BY <2>1
  <2>10. Holds(v)
    BY <2>3, <2>4, <2>6, <2>7, <2>8, <2>9
  <2> HIDE DEF Holds
  <2> QED BY <1>10, <2>2, <2>10
<1>9. CASE path # <<>>
  <2>1. /\ view.bound = (\A j \in 2 .. k : path[j] < dims[j])
        /\ view.dims \in Seq(Nat) /\ Len(view.dims) = n - k
        /\ view.bound => /\ view.offset = Offset(s, path)
                         /\ view.strides \in Seq(Nat) /\ Len(view.strides) = n - k
                         /\ \A j \in 1 .. n - k : /\ view.dims[j] = dims[k + j]
                                                  /\ view.strides[j] = s[k + j]
        /\ ~view.bound => \A j \in 1 .. n - k : view.dims[j] = 0
    BY <1>9 DEF WalkInv, dims, s, n
  <2>2. k >= 1 /\ 1 \in 1 .. n - k
    BY <1>1, <1>4, <1>5, <1>9
  <2>3. (\A j \in 2 .. k + 1 : q[j] < dims[j])
          <=> (\A j \in 2 .. k : path[j] < dims[j]) /\ i < dims[k + 1]
    <3>1. \A j \in 2 .. k : j \in 1 .. k /\ j \in 2 .. k + 1
      BY <1>5
    <3>2. \A j \in 2 .. k + 1 : j \in 2 .. k \/ j = k + 1
      BY <1>5
    <3>3. k + 1 \in 2 .. k + 1
      BY <1>5, <2>2
    <3> HIDE DEF q
    <3> QED BY <1>5, <3>1, <3>2, <3>3
  <2>4. view' = ViewAt(view, i)
    BY <1>1, <1>9
  <2>5. CASE i >= view.dims[1]
    <3> DEFINE v == EmptyView(Len(view.dims) - 1)
    <3>1. view' = v
      BY <2>4, <2>5 DEF ViewAt
    <3>2. v.bound = FALSE /\ v.dims = [j \in 1 .. n - (k + 1) |-> 0]
      <4>1. Len(view.dims) - 1 = n - (k + 1)
        BY <1>5, <2>1
      <4> QED BY <4>1 DEF EmptyView
    <3> HIDE DEF v
    <3>3. n - (k + 1) \in Nat
      BY <1>1, <1>5
    <3>4. /\ v.dims \in Seq(Nat) /\ Len(v.dims) = n - (k + 1)
          /\ \A j \in 1 .. n - (k + 1) : v.dims[j] = 0
      <4> DEFINE m == n - (k + 1)
      <4> HIDE DEF m
      <4>1. m \in Nat /\ v.dims = [j \in 1 .. m |-> 0]
        BY <3>2, <3>3 DEF m
      <4>2. v.dims \in Seq(Nat) /\ Len(v.dims) = m /\ \A j \in 1 .. m : v.dims[j] = 0
        BY <4>1
      <4> QED BY <4>2 DEF m
    <3>5. ~(\A j \in 2 .. k + 1 : q[j] < dims[j])
      <4>1. CASE view.bound
        <5>1. view.dims[1] = dims[k + 1]
          BY <2>1, <2>2, <4>1
        <5> QED BY <1>7, <2>3, <2>5, <5>1
      <4>2. CASE ~view.bound
        BY <2>1, <2>3, <4>2
      <4> QED BY <4>1, <4>2
    <3>6. Holds(v)
      BY <3>2, <3>4, <3>5
    <3> HIDE DEF Holds
    <3> QED BY <1>10, <3>1, <3>6
  <2>6. CASE ~(i >= view.dims[1])
    <3> DEFINE v == [SubView(view.offset, view.dims, view.strides, i) EXCEPT !.bound = view.bound]
    <3>1. view' = v
      BY <2>4, <2>6 DEF ViewAt
    <3>2. view.bound
      <4> SUFFICES ASSUME ~view.bound PROVE FALSE
        OBVIOUS
      <4>1. view.dims[1] = 0
        BY <2>1, <2>2
      <4> QED BY <2>6, <4>1
    <3>3. i < dims[k + 1]
      <4>1. view.dims[1] = dims[k + 1]
        BY <2>1, <2>2, <3>2
      <4> QED BY <1>7, <2>6, <4>1
    <3>4. /\ v.bound = view.bound /\ v.offset = Word64(view.offset + i * view.strides[1])
          /\ v.dims = Tail(view.dims) /\ v.strides = Tail(view.strides)
      BY DEF SubView
    <3> HIDE DEF v
    <3>5. v.offset = Offset(s, q)
      <4>1. view.strides[1] = s[k + 1]
        BY <2>1, <2>2, <3>2
      <4> QED BY <1>6, <1>7, <2>1, <3>2, <3>4, <4>1
    <3>6. v.bound = (\A j \in 2 .. k + 1 : q[j] < dims[j])
      BY <2>1, <2>3, <3>2, <3>3, <3>4
    <3> DEFINE m == n - k
    <3>7. m \in Nat /\ m # 0
      BY <1>1, <1>5
    <3>8. /\ Len(view.dims) = m /\ Len(view.strides) = m
          /\ view.dims \in Seq(Nat) /\ view.strides \in Seq(Nat)
      BY <2>1, <3>2
    <3>9. n - (k + 1) = m - 1
      BY <1>5
    <3>10. \A j \in 1 .. m : view.dims[j] = dims[k + j] /\ view.strides[j] = s[k + j]
      BY <2>1, <3>2
    <3> HIDE DEF m
    <3>11. /\ v.dims \in Seq(Nat) /\ Len(v.dims) = m - 1
           /\ v.strides \in Seq(Nat) /\ Len(v.strides) = m - 1
           /\ \A j \in 1 .. m - 1 : v.dims[j] = view.dims[j + 1] /\ v.strides[j] = view.strides[j + 1]
      BY <3>4, <3>7, <3>8
    <3>12. \A j \in 1 .. m - 1 : v.dims[j] = dims[k + 1 + j] /\ v.strides[j] = s[k + 1 + j]
      <4>1. \A j \in 1 .. m - 1 : j + 1 \in 1 .. m /\ k + (j + 1) = k + 1 + j
        BY <1>5, <3>7
      <4> QED BY <3>10, <3>11, <4>1
    <3>13. Holds(v)
      BY <3>2, <3>4, <3>5, <3>6, <3>9, <3>11, <3>12
    <3> HIDE DEF Holds
    <3> QED BY <1>10, <3>1, <3>13
  <2> QED BY <2>5, <2>6
<1> QED BY <1>8, <1>9

LEMMA WalkNext == TypeInv /\ WalkInv /\ [Next]_vars => WalkInv'
<1> SUFFICES ASSUME TypeInv, WalkInv, [Next]_vars PROVE WalkInv'
  OBVIOUS
<1>1. ASSUME path' = <<>> PROVE WalkInv'
  BY <1>1 DEF WalkInv
<1>2. ASSUME UNCHANGED <<call, path, view>> PROVE WalkInv'
  BY <1>2 DEF WalkInv
<1>3. phase # "done" => path = <<>>
  BY DEF TypeInv, TypeOK
<1>4. ASSUME phase # "done", UNCHANGED path PROVE WalkInv'
  BY <1>1, <1>3, <1>4
<1>5. ASSUME NEW c \in Calls,
             Build(c) \/ Make(c) \/ FromSequence(c) \/ FromHost(c) \/ FillBytes(c)
      PROVE  WalkInv'
  BY <1>4, <1>5 DEF Build, Make, Launch, FromSequence, FromHost, FillBytes, Load
<1>6. CASE Operate \/ Refuse \/ Return
  BY <1>4, <1>6 DEF Operate, Launch, Refuse, Return
<1>7. CASE Drop
  BY <1>1, <1>7 DEF Drop
<1>8. ASSUME NEW b \in todo, RunBlock(b) PROVE WalkInv'
  BY <1>2, <1>8 DEF RunBlock
<1>9. ASSUME phase = "done", Len(path) < Len(Dims(call)),
             NEW i \in Interesting(Dims(call)[Len(path) + 1]), Subscript(i)
      PROVE  WalkInv'
  <2>1. Dims(call) \in Seq(Nat)
    BY <1>9, Assumed DEF TypeInv, TypeOK, Shaped
  <2>2. PICK S : path \in Seq(S)
    BY DEF TypeInv, Shaped, IsSequence
  <2>3. Dims(call)[Len(path) + 1] \in Nat
    BY <1>9, <2>1, <2>2
  <2>4. i \in Nat
    BY <1>9, <2>3 DEF Interesting
  <2> QED BY <1>9, <2>4, WalkSubscript
<1>10. CASE UNCHANGED arrayVars
  BY <1>2, <1>10 DEF arrayVars
<1> QED
  BY <1>5, <1>6, <1>7, <1>8, <1>9, <1>10 DEF Next, DeviceStep, vars, arrayVars

\* Subscripts in range lead to the element of the result in row-major order, which read()
\* finds too, and a later one out of range to an empty view: for any number of dimensions.
THEOREM AlwaysWalkFindsElement == Spec => []WalkFindsElement
<1>1. ASSUME TypeInv, WalkInv PROVE WalkFindsElement
  <2> DEFINE dims == Dims(call)
  <2> SUFFICES ASSUME path # <<>>, Len(path) = Len(dims), Exact(call)
               PROVE  /\ view.bound = (\A i \in 2 .. Len(dims) : path[i] < dims[i])
                      /\ (\A i \in DOMAIN dims : path[i] < dims[i]) =>
                           /\ view.offset = Position(dims, path)
                           /\ view.offset = Offset(Strides(dims), path)
                           /\ view.offset \in DOMAIN out
    BY DEF WalkFindsElement
  <2>1. dims \in Seq(Nat) /\ DOMAIN out = 0 .. Size(dims) - 1
    BY <1>1, Assumed DEF TypeInv, TypeOK, Shaped, Positions
  <2>2. /\ path \in Seq(Nat)
        /\ view.bound = (\A i \in 2 .. Len(dims) : path[i] < dims[i])
        /\ view.bound => view.offset = Offset(Strides(dims), path)
    BY <1>1 DEF WalkInv
  <2>3. NoWrap(dims) /\ Size(dims) \in Nat
    BY <2>1, SizeIsNat DEF Exact
  <2> HIDE DEF dims
  <2>4. ASSUME \A i \in DOMAIN dims : path[i] < dims[i]
        PROVE  /\ view.offset = Position(dims, path)
               /\ view.offset = Offset(Strides(dims), path)
               /\ view.offset \in DOMAIN out
    <3>1. DOMAIN dims = 1 .. Len(dims) /\ Len(dims) \in Nat /\ dims # <<>>
      BY <2>1, <2>2
    <3>2. path \in [1 .. Len(dims) -> Nat]
      BY <2>2
    <3>3. IsIndex(dims, path)
      BY <2>4, <3>1, <3>2 DEF IsIndex
    <3>4. view.bound
      <4>1. \A i \in 2 .. Len(dims) : i \in DOMAIN dims
        BY <3>1
      <4> QED BY <2>2, <2>4, <4>1
    <3>5. Offset(Strides(dims), path) = Number(dims, path)
      BY <2>1, <2>2, <2>3, <3>1, <3>3, OffsetIsNumber
    <3>6. path \in AllIndices(dims)
      BY <2>1, <3>3, AllIndicesAre
    <3>7. /\ Position(dims, path) = Number(dims, path)
          /\ Number(dims, path) \in Nat /\ Number(dims, path) < Elements(dims)
      BY <2>1, <3>6, PositionIs
    <3>8. Number(dims, path) \in DOMAIN out
      BY <2>1, <2>3, <3>7 DEF NoWrap
    <3> QED BY <2>2, <3>4, <3>5, <3>7, <3>8
  <2> QED BY <2>2, <2>4
<1>2. Init => WalkInv
  BY DEF Init, WalkInv
<1>3. Spec => [](TypeInv /\ WalkInv)
  BY <1>2, TypeInit, TypeNext, WalkNext, PTL DEF Spec
<1> QED BY <1>1, <1>3, PTL

-----------------------------------------------------------------------------
(* Nested sequences.                                                       *)

\* What joining two sequences gives.
LEMMA Joined ==
  ASSUME NEW X, NEW s \in Seq(X), NEW t \in Seq(X)
  PROVE  /\ s \o t \in Seq(X) /\ Len(s) \in Nat /\ Len(t) \in Nat
         /\ Len(s \o t) = Len(s) + Len(t)
         /\ \A k \in 1 .. Len(s) : (s \o t)[k] = s[k]
         /\ \A k \in 1 .. Len(t) : (s \o t)[Len(s) + k] = t[k]
OBVIOUS

\* The beginning of a beginning.
LEMMA BeginsStep ==
  ASSUME NEW X, NEW s \in Seq(X), NEW t \in Seq(X), NEW u \in Seq(X),
         Len(s \o t) <= Len(u), \A k \in 1 .. Len(s \o t) : u[k] = (s \o t)[k]
  PROVE  Len(s) <= Len(u) /\ \A k \in 1 .. Len(s) : u[k] = s[k]
<1>1. /\ Len(s) \in Nat /\ Len(t) \in Nat /\ Len(u) \in Nat
      /\ Len(s \o t) = Len(s) + Len(t)
      /\ \A k \in 1 .. Len(s) : (s \o t)[k] = s[k]
  BY Joined
<1>2. \A k \in 1 .. Len(s) : k \in 1 .. Len(s \o t)
  BY <1>1
<1> QED BY <1>1, <1>2

\* What FlattenSeq makes of the first rows: f[i] of the first i.
IsFlat(f, rows) ==
  /\ f[1] = rows[1]
  /\ \A i \in 2 .. Len(rows) : f[i] = f[i - 1] \o rows[i]

\* The function by which FlattenSeq is defined exists, and is what the definition says.
LEMMA FlattenExists ==
  ASSUME NEW X, NEW rows \in Seq(Seq(X)), Len(rows) # 0
  PROVE  \E f \in [1 .. Len(rows) -> Seq(X)] :
           IsFlat(f, rows) /\ FlattenSeq(rows) = f[Len(rows)]
<1> DEFINE n == Len(rows)
           m == n - 1
           step == [i \in 1 .. m |-> [s \in Seq(X) |-> s \o rows[i + 1]]]
           Is(g) == g = [i \in 1 .. n |-> IF i = 1 THEN rows[i] ELSE g[i - 1] \o rows[i]]
           f == CHOOSE g : Is(g)
<1>1. n \in Nat /\ m \in Nat /\ n = m + 1 /\ \A i \in 1 .. n : rows[i] \in Seq(X)
  OBVIOUS
<1>2. FlattenSeq(rows) = f[n]
  BY DEF FlattenSeq
<1> HIDE DEF n, m
<1>3. \A i \in 1 .. m : i + 1 \in 1 .. n
  BY <1>1
<1>4. \A s, t \in Seq(X) : s \o t \in Seq(X)
  OBVIOUS
<1>5. step \in [1 .. m -> [Seq(X) -> Seq(X)]]
  BY <1>1, <1>3, <1>4
<1>6. \A i \in 1 .. m, s \in Seq(X) : step[i][s] = s \o rows[i + 1]
  OBVIOUS
<1> HIDE DEF step
<1>7. rows[1] \in Seq(X)
  BY <1>1
<1>8. PICK u \in [0 .. m -> Seq(X)] : IsUp(u, m, rows[1], step)
  BY <1>1, <1>5, <1>7, UpRecursion
<1> DEFINE h == [i \in 1 .. n |-> u[i - 1]]
<1>9. \A i \in 1 .. n : h[i] = IF i = 1 THEN rows[i] ELSE h[i - 1] \o rows[i]
  <2> SUFFICES ASSUME NEW i \in 1 .. n
               PROVE  h[i] = IF i = 1 THEN rows[i] ELSE h[i - 1] \o rows[i]
    OBVIOUS
  <2>1. i - 1 \in 0 .. m /\ h[i] = u[i - 1]
    BY <1>1
  <2>2. u[i - 1] = IF i - 1 = 0 THEN rows[1] ELSE step[i - 1][u[(i - 1) - 1]]
    BY <1>8, <2>1 DEF IsUp
  <2>3. CASE i = 1
    BY <2>1, <2>2, <2>3
  <2>4. CASE i # 1
    <3>1. i - 1 \in 1 .. m /\ (i - 1) - 1 \in 0 .. m /\ (i - 1) + 1 = i /\ i - 1 \in 1 .. n
      BY <1>1, <2>4
    <3>2. u[(i - 1) - 1] \in Seq(X) /\ h[i - 1] = u[(i - 1) - 1]
      BY <1>8, <3>1
    <3>3. step[i - 1][h[i - 1]] = h[i - 1] \o rows[(i - 1) + 1]
      BY <1>6, <3>1, <3>2
    <3>4. u[i - 1] = step[i - 1][u[(i - 1) - 1]]
      BY <2>2, <3>1
    <3>5. h[i] = step[i - 1][h[i - 1]]
      BY <2>1, <3>2, <3>4
    <3> HIDE DEF h
    <3>6. h[i] = h[i - 1] \o rows[i]
      BY <3>1, <3>3, <3>5
    <3> QED BY <2>4, <3>6
  <2> QED BY <2>3, <2>4
<1>10. h \in [1 .. n -> Seq(X)]
  <2>1. \A i \in 1 .. n : i - 1 \in 0 .. m
    BY <1>1
  <2> QED BY <1>8, <2>1
<1>11. h = [i \in 1 .. n |-> IF i = 1 THEN rows[i] ELSE h[i - 1] \o rows[i]]
  BY <1>9
<1> HIDE DEF h
<1>12. Is(f)
  BY <1>11
<1> HIDE DEF f
<1>13. \A i \in 1 .. n : f[i] = IF i = 1 THEN rows[i] ELSE f[i - 1] \o rows[i]
  BY <1>12
<1> DEFINE T == {i \in 0 .. m : f[i + 1] = h[i + 1]}
<1>14. 0 .. m \subseteq T
  <2>1. 0 \in T
    BY <1>1, <1>9, <1>13
  <2>2. ASSUME NEW i \in 0 .. m - 1, i \in T PROVE i + 1 \in T
    <3>1. (i + 1) + 1 \in 1 .. n /\ (i + 1) + 1 # 1 /\ ((i + 1) + 1) - 1 = i + 1
          /\ i + 1 \in 0 .. m
      BY <1>1
    <3>2. f[i + 1] = h[i + 1]
      BY <2>2
    <3> QED BY <1>9, <1>13, <3>1, <3>2
  <2> HIDE DEF T
  <2> QED BY <1>1, <2>1, <2>2, Upwards
<1>15. \A i \in 1 .. n : f[i] = h[i]
  <2>1. \A i \in 1 .. n : i - 1 \in 0 .. m /\ (i - 1) + 1 = i
    BY <1>1
  <2> QED BY <1>14, <2>1
<1>16. f[n] = h[n] /\ IsFlat(h, rows)
  <2>1. n \in 1 .. n /\ 1 \in 1 .. n /\ \A i \in 2 .. n : i \in 1 .. n /\ i # 1
    BY <1>1
  <2> QED BY <1>9, <1>15, <2>1 DEF IsFlat, n
<1> QED BY <1>2, <1>10, <1>16 DEF n

\* The sequence made of the first rows begins the one made of all.
LEMMA FlattenIs ==
  ASSUME NEW X, NEW rows \in Seq(Seq(X)), Len(rows) # 0
  PROVE  \E f \in [1 .. Len(rows) -> Seq(X)] :
           /\ IsFlat(f, rows) /\ FlattenSeq(rows) = f[Len(rows)]
           /\ \A i \in 1 .. Len(rows) :
                /\ Len(f[i]) <= Len(f[Len(rows)])
                /\ \A k \in 1 .. Len(f[i]) : f[Len(rows)][k] = f[i][k]
<1>0. PICK f \in [1 .. Len(rows) -> Seq(X)] :
        IsFlat(f, rows) /\ FlattenSeq(rows) = f[Len(rows)]
  BY FlattenExists
<1> DEFINE n == Len(rows)
           Begins(j) == /\ Len(f[j]) <= Len(f[n])
                        /\ \A k \in 1 .. Len(f[j]) : f[n][k] = f[j][k]
           T == {j \in 1 .. n : Begins(j)}
<1>1. n \in Nat /\ n \in 1 .. n /\ \A j \in 1 .. n : f[j] \in Seq(X) /\ rows[j] \in Seq(X)
  <2>1. n \in Nat /\ n \in 1 .. n
    OBVIOUS
  <2>2. \A j \in 1 .. n : f[j] \in Seq(X)
    OBVIOUS
  <2>3. \A j \in 1 .. n : rows[j] \in Seq(X)
    OBVIOUS
  <2> QED BY <2>1, <2>2, <2>3
<1>2. n \in T
  BY <1>1
<1>3. ASSUME NEW j \in 1 .. n - 1, j + 1 \in T PROVE j \in T
  <2>1. j \in 1 .. n /\ j + 1 \in 2 .. n /\ j + 1 \in 1 .. n /\ (j + 1) - 1 = j
    BY <1>1
  <2>2. f[j + 1] = f[j] \o rows[j + 1]
    BY <1>0, <2>1 DEF IsFlat
  <2> DEFINE s == f[j]
             t == rows[j + 1]
             u == f[n]
  <2>3. s \in Seq(X) /\ t \in Seq(X) /\ u \in Seq(X)
    BY <1>1, <2>1
  <2>4. Len(s \o t) <= Len(u) /\ \A k \in 1 .. Len(s \o t) : u[k] = (s \o t)[k]
    BY <1>3, <2>2
  <2> HIDE DEF s, t, u
  <2>5. Len(s) <= Len(u) /\ \A k \in 1 .. Len(s) : u[k] = s[k]
    BY <2>3, <2>4, BeginsStep
  <2>6. Begins(j)
    BY <2>5 DEF s, u
  <2> QED BY <2>1, <2>6
<1> HIDE DEF T
<1>4. 1 .. n \subseteq T
  BY <1>1, <1>2, <1>3, Downwards
<1>5. \A j \in 1 .. n : Begins(j)
  BY <1>4 DEF T
<1> QED BY <1>0, <1>5

\* Rows of one length d before row r put its elements d * (r - 1) places on.
LEMMA FlattenRow ==
  ASSUME NEW X, NEW rows \in Seq(Seq(X)), NEW d \in Nat, NEW r \in 1 .. Len(rows),
         \A q \in 1 .. r : Len(rows[q]) = d
  PROVE  /\ FlattenSeq(rows) \in Seq(X)
         /\ (r - 1) * d + d <= Len(FlattenSeq(rows))
         /\ r = Len(rows) => Len(FlattenSeq(rows)) = (r - 1) * d + d
         /\ \A i \in 1 .. d : FlattenSeq(rows)[(r - 1) * d + i] = rows[r][i]
<1> DEFINE n == Len(rows)
<1>1. n \in Nat /\ n # 0 /\ r \in Nat /\ \A q \in 1 .. n : rows[q] \in Seq(X)
  OBVIOUS
<1>2. PICK f \in [1 .. n -> Seq(X)] :
        /\ IsFlat(f, rows) /\ FlattenSeq(rows) = f[n]
        /\ \A i \in 1 .. n : /\ Len(f[i]) <= Len(f[n])
                             /\ \A k \in 1 .. Len(f[i]) : f[n][k] = f[i][k]
  BY <1>1, FlattenIs
<1> DEFINE m == r - 1
           T == {q \in 0 .. m : Len(f[q + 1]) = q * d + d}
<1>3. m \in Nat
  OBVIOUS
<1>4. 0 \in T
  <2>1. f[1] = rows[1] /\ 1 \in 1 .. r /\ 0 * d + d = d
    BY <1>2 DEF IsFlat
  <2> QED BY <2>1
<1>5. ASSUME NEW q \in 0 .. m - 1, q \in T PROVE q + 1 \in T
  <2>1. /\ q + 1 \in 1 .. n /\ (q + 1) + 1 \in 2 .. n /\ (q + 1) + 1 \in 1 .. r
        /\ ((q + 1) + 1) - 1 = q + 1 /\ q + 1 \in 0 .. m /\ (q + 1) + 1 \in 1 .. n
    OBVIOUS
  <2>2. f[(q + 1) + 1] = f[q + 1] \o rows[(q + 1) + 1]
    BY <1>2, <2>1 DEF IsFlat
  <2>3. f[q + 1] \in Seq(X) /\ rows[(q + 1) + 1] \in Seq(X) /\ Len(rows[(q + 1) + 1]) = d
    BY <1>1, <1>2, <2>1
  <2> DEFINE s == f[q + 1]
             t == rows[(q + 1) + 1]
             u == f[(q + 1) + 1]
  <2>4. Len(u) = Len(s) + d
    <3>1. s \in Seq(X) /\ t \in Seq(X) /\ Len(t) = d /\ u = s \o t
      BY <2>2, <2>3
    <3> HIDE DEF s, t, u
    <3> QED BY <3>1, Joined
  <2>5. Len(f[q + 1]) = q * d + d
    BY <1>5
  <2>6. (q + 1) * d = q * d + d
    OBVIOUS
  <2> QED BY <2>1, <2>4, <2>5, <2>6
<1> HIDE DEF T
<1>6. 0 .. m \subseteq T
  BY <1>3, <1>4, <1>5, Upwards
<1>7. Len(f[r]) = (r - 1) * d + d
  <2>1. m \in T
    BY <1>3, <1>6
  <2> QED BY <2>1 DEF T
<1>8. /\ Len(f[r]) <= Len(f[n]) /\ \A k \in 1 .. Len(f[r]) : f[n][k] = f[r][k]
  BY <1>2
<1>9. (r - 1) * d \in Nat
  BY <1>3
<1>10. \A i \in 1 .. d : f[r][(r - 1) * d + i] = rows[r][i]
  <2>1. CASE r = 1
    <3>1. f[r] = rows[r] /\ (r - 1) * d = 0
      BY <1>2, <2>1 DEF IsFlat
    <3> QED BY <3>1
  <2>2. CASE r # 1
    <3>1. r \in 2 .. n /\ r - 1 \in 1 .. n /\ m - 1 \in 0 .. m /\ (m - 1) + 1 = r - 1
      BY <1>1, <2>2
    <3>2. f[r] = f[r - 1] \o rows[r]
      BY <1>2, <3>1 DEF IsFlat
    <3>3. f[r - 1] \in Seq(X) /\ rows[r] \in Seq(X)
      BY <1>1, <1>2, <3>1
    <3>3a. Len(rows[r]) = d
      BY <1>1
    <3>4. Len(f[r - 1]) = (r - 1) * d
      <4>1. m - 1 \in T
        BY <1>6, <3>1
      <4>2. Len(f[r - 1]) = (m - 1) * d + d
        BY <3>1, <4>1 DEF T
      <4> QED BY <1>1, <4>2
    <3>5. \A i \in 1 .. d : f[r][Len(f[r - 1]) + i] = rows[r][i]
      <4> DEFINE s == f[r - 1]
                 t == rows[r]
                 u == f[r]
      <4>1. s \in Seq(X) /\ t \in Seq(X) /\ Len(t) = d /\ u = s \o t
        BY <3>2, <3>3, <3>3a
      <4> HIDE DEF s, t, u
      <4>2. \A i \in 1 .. d : u[Len(s) + i] = t[i]
        BY <4>1, Joined
      <4> QED BY <4>2 DEF s, t, u
    <3> QED BY <3>4, <3>5
  <2> QED BY <2>1, <2>2
<1>11. f[n] \in Seq(X) /\ Len(f[n]) \in Nat
  <2>1. n \in 1 .. n
    BY <1>1
  <2>2. f[n] \in Seq(X)
    BY <1>2, <2>1
  <2> QED BY <2>2
<1>12. \A i \in 1 .. d : (r - 1) * d + i \in 1 .. Len(f[r])
  BY <1>7, <1>9
<1>13. \A i \in 1 .. d : f[n][(r - 1) * d + i] = rows[r][i]
  BY <1>8, <1>10, <1>12
<1> HIDE DEF n, m
<1>14. /\ f[n] \in Seq(X) /\ (r - 1) * d + d <= Len(f[n])
       /\ (r = n => Len(f[n]) = (r - 1) * d + d)
  BY <1>7, <1>8, <1>11
<1> QED BY <1>2, <1>13, <1>14 DEF n

\* Rows no longer than d.
LEMMA FlattenAtMost ==
  ASSUME NEW X, NEW rows \in Seq(Seq(X)), NEW d \in Nat, Len(rows) # 0,
         \A q \in 1 .. Len(rows) : Len(rows[q]) <= d
  PROVE  FlattenSeq(rows) \in Seq(X) /\ Len(FlattenSeq(rows)) <= Len(rows) * d
<1> DEFINE n == Len(rows)
           m == n - 1
<1>1. n \in Nat /\ m \in Nat /\ n = m + 1 /\ \A q \in 1 .. n : rows[q] \in Seq(X)
  OBVIOUS
<1>2. PICK f \in [1 .. n -> Seq(X)] : IsFlat(f, rows) /\ FlattenSeq(rows) = f[n]
  BY FlattenExists
<1> DEFINE T == {q \in 0 .. m : Len(f[q + 1]) <= q * d + d}
<1>3. 0 \in T
  <2>1. f[1] = rows[1] /\ 1 \in 1 .. n /\ 0 * d + d = d
    BY <1>1, <1>2 DEF IsFlat
  <2> QED BY <1>1, <2>1
<1>4. ASSUME NEW q \in 0 .. m - 1, q \in T PROVE q + 1 \in T
  <2>1. /\ q + 1 \in 1 .. n /\ (q + 1) + 1 \in 2 .. n
        /\ ((q + 1) + 1) - 1 = q + 1 /\ q + 1 \in 0 .. m /\ (q + 1) + 1 \in 1 .. n
    OBVIOUS
  <2>2. f[(q + 1) + 1] = f[q + 1] \o rows[(q + 1) + 1]
    BY <1>2, <2>1 DEF IsFlat
  <2> DEFINE s == f[q + 1]
             t == rows[(q + 1) + 1]
             u == f[(q + 1) + 1]
  <2>3. s \in Seq(X) /\ t \in Seq(X) /\ Len(t) <= d /\ u = s \o t
    BY <1>1, <1>2, <2>1, <2>2
  <2>4. Len(s) <= q * d + d
    BY <1>4
  <2>5. (q + 1) * d = q * d + d /\ q * d \in Nat
    OBVIOUS
  <2> DEFINE qd == q * d
  <2>6. qd \in Nat /\ (q + 1) * d = qd + d /\ Len(s) <= qd + d
    BY <2>4, <2>5
  <2> HIDE DEF s, t, u, qd
  <2>7. Len(u) = Len(s) + Len(t) /\ Len(s) \in Nat /\ Len(t) \in Nat
    BY <2>3, Joined
  <2>8. Len(u) <= (q + 1) * d + d
    BY <2>3, <2>6, <2>7
  <2> QED BY <2>1, <2>8 DEF u
<1> HIDE DEF T
<1>5. 0 .. m \subseteq T
  BY <1>1, <1>3, <1>4, Upwards
<1>6. Len(f[n]) <= m * d + d
  <2>1. m \in 0 .. m
    BY <1>1
  <2>2. m \in T
    BY <1>5, <2>1
  <2> QED BY <1>1, <2>2 DEF T
<1>7. m * d + d = n * d /\ f[n] \in Seq(X)
  BY <1>1, <1>2
<1> QED BY <1>2, <1>6, <1>7

-----------------------------------------------------------------------------
\* The levels of nested sequences, each without brackets.
IsLevels(g, nested, n) ==
  g = [l \in 1 .. n |-> IF l = 1 THEN nested ELSE FlattenSeq(g[l - 1])]

\* There is such a function.
LEMMA LevelsExist ==
  ASSUME NEW nested, NEW n \in Nat \ {0}
  PROVE  \E g : IsLevels(g, nested, n)
<1> DEFINE m == n - 1
           Upto(k, g) == \A l \in 1 .. k + 1 :
                           g[l] = IF l = 1 THEN nested ELSE FlattenSeq(g[l - 1])
           T == {k \in 0 .. m : \E g : Upto(k, g)}
<1>1. m \in Nat /\ n = m + 1
  OBVIOUS
<1> HIDE DEF m
<1>2. 0 \in T
  <2> DEFINE g == [l \in 1 .. 1 |-> nested]
  <2>1. Upto(0, g)
    OBVIOUS
  <2> HIDE DEF Upto, g
  <2> QED BY <1>1, <2>1
<1>3. ASSUME NEW k \in 0 .. m - 1, k \in T PROVE k + 1 \in T
  <2>1. PICK g : Upto(k, g)
    BY <1>3
  <2> DEFINE h == [l \in 1 .. (k + 1) + 1 |-> IF l = (k + 1) + 1 THEN FlattenSeq(g[k + 1]) ELSE g[l]]
  <2>2. \A l \in 1 .. k + 1 : h[l] = g[l]
    OBVIOUS
  <2>3. h[(k + 1) + 1] = FlattenSeq(h[k + 1])
    OBVIOUS
  <2> HIDE DEF h
  <2>4. ASSUME NEW l \in 1 .. (k + 1) + 1
        PROVE  h[l] = IF l = 1 THEN nested ELSE FlattenSeq(h[l - 1])
    <3>1. CASE l = (k + 1) + 1
      <4>1. l # 1 /\ l - 1 = k + 1
        BY <3>1
      <4> QED BY <2>3, <3>1, <4>1
    <3>2. CASE l # (k + 1) + 1 /\ l # 1
      <4>1. l \in 1 .. k + 1 /\ l - 1 \in 1 .. k + 1
        BY <3>2
      <4> QED BY <2>1, <2>2, <3>2, <4>1
    <3>3. CASE l = 1
      <4>1. l \in 1 .. k + 1
        BY <3>3
      <4> QED BY <2>1, <2>2, <3>3, <4>1
    <3> QED BY <3>1, <3>2, <3>3
  <2>5. k + 1 \in 0 .. m
    BY <1>1
  <2> QED BY <2>4, <2>5
<1> HIDE DEF T
<1>4. 0 .. m \subseteq T
  BY <1>1, <1>2, <1>3, Upwards
<1>5. m \in T
  BY <1>1, <1>4
<1>6. PICK g : Upto(m, g)
  BY <1>5 DEF T
<1> DEFINE h == [l \in 1 .. n |-> g[l]]
<1>7. \A l \in 1 .. n : h[l] = IF l = 1 THEN nested ELSE FlattenSeq(h[l - 1])
  <2>1. \A l \in 1 .. n : g[l] = IF l = 1 THEN nested ELSE FlattenSeq(g[l - 1])
    BY <1>1, <1>6
  <2>2. \A l \in 1 .. n : l # 1 => l - 1 \in 1 .. n
    BY <1>1
  <2> QED BY <2>1, <2>2
<1>8. h = [l \in 1 .. n |-> IF l = 1 THEN nested ELSE FlattenSeq(h[l - 1])]
  BY <1>7
<1> HIDE DEF h
<1> QED BY <1>8 DEF IsLevels

\* The first sequence of each level.
IsFirsts(g, nested, n) ==
  g = [l \in 1 .. n |-> IF l = 1 THEN nested ELSE Head(g[l - 1])]

\* They exist.
LEMMA FirstsExist ==
  ASSUME NEW nested, NEW n \in Nat \ {0}
  PROVE  \E g : IsFirsts(g, nested, n)
<1> DEFINE m == n - 1
           Upto(k, g) == \A l \in 1 .. k + 1 :
                           g[l] = IF l = 1 THEN nested ELSE Head(g[l - 1])
           T == {k \in 0 .. m : \E g : Upto(k, g)}
<1>1. m \in Nat /\ n = m + 1
  OBVIOUS
<1> HIDE DEF m
<1>2. 0 \in T
  <2> DEFINE g == [l \in 1 .. 1 |-> nested]
  <2>1. Upto(0, g)
    OBVIOUS
  <2> HIDE DEF Upto, g
  <2> QED BY <1>1, <2>1
<1>3. ASSUME NEW k \in 0 .. m - 1, k \in T PROVE k + 1 \in T
  <2>1. PICK g : Upto(k, g)
    BY <1>3
  <2> DEFINE h == [l \in 1 .. (k + 1) + 1 |-> IF l = (k + 1) + 1 THEN Head(g[k + 1]) ELSE g[l]]
  <2>2. \A l \in 1 .. k + 1 : h[l] = g[l]
    OBVIOUS
  <2>3. h[(k + 1) + 1] = Head(h[k + 1])
    OBVIOUS
  <2> HIDE DEF h
  <2>4. ASSUME NEW l \in 1 .. (k + 1) + 1
        PROVE  h[l] = IF l = 1 THEN nested ELSE Head(h[l - 1])
    <3>1. CASE l = (k + 1) + 1
      <4>1. l # 1 /\ l - 1 = k + 1
        BY <3>1
      <4> QED BY <2>3, <3>1, <4>1
    <3>2. CASE l # (k + 1) + 1 /\ l # 1
      <4>1. l \in 1 .. k + 1 /\ l - 1 \in 1 .. k + 1
        BY <3>2
      <4> QED BY <2>1, <2>2, <3>2, <4>1
    <3>3. CASE l = 1
      <4>1. l \in 1 .. k + 1
        BY <3>3
      <4> QED BY <2>1, <2>2, <3>3, <4>1
    <3> QED BY <3>1, <3>2, <3>3
  <2>5. k + 1 \in 0 .. m
    BY <1>1
  <2> QED BY <2>4, <2>5
<1> HIDE DEF T
<1>4. 0 .. m \subseteq T
  BY <1>1, <1>2, <1>3, Upwards
<1>5. m \in T
  BY <1>1, <1>4
<1>6. PICK g : Upto(m, g)
  BY <1>5 DEF T
<1> DEFINE h == [l \in 1 .. n |-> g[l]]
<1>7. \A l \in 1 .. n : h[l] = IF l = 1 THEN nested ELSE Head(h[l - 1])
  <2>1. \A l \in 1 .. n : g[l] = IF l = 1 THEN nested ELSE Head(g[l - 1])
    BY <1>1, <1>6
  <2>2. \A l \in 1 .. n : l # 1 => l - 1 \in 1 .. n
    BY <1>1
  <2> QED BY <2>1, <2>2
<1>8. h = [l \in 1 .. n |-> IF l = 1 THEN nested ELSE Head(h[l - 1])]
  BY <1>7
<1> HIDE DEF h
<1> QED BY <1>8 DEF IsFirsts

\* Leaves is the last of the levels.
LEMMA LeavesIs ==
  ASSUME NEW nested, NEW n \in Nat \ {0}
  PROVE  \E g : IsLevels(g, nested, n) /\ Leaves(nested, n) = g[n]
<1> DEFINE f == CHOOSE g : IsLevels(g, nested, n)
<1>1. IsLevels(f, nested, n)
  BY LevelsExist
<1>2. Leaves(nested, n) = f[n]
  BY DEF Leaves, IsLevels
<1> HIDE DEF f
<1> QED BY <1>1, <1>2

\* Levels do not depend on how many there are.
LEMMA LevelsAgree ==
  ASSUME NEW nested, NEW n \in Nat, NEW g, NEW h,
         IsLevels(g, nested, n + 1), IsLevels(h, nested, n)
  PROVE  \A l \in 1 .. n : g[l] = h[l]
<1>1. /\ \A l \in 1 .. n + 1 : g[l] = IF l = 1 THEN nested ELSE FlattenSeq(g[l - 1])
      /\ \A l \in 1 .. n : h[l] = IF l = 1 THEN nested ELSE FlattenSeq(h[l - 1])
  BY DEF IsLevels
<1> DEFINE T == {l \in 0 .. n : l # 0 => g[l] = h[l]}
<1>2. 0 \in T
  OBVIOUS
<1>3. ASSUME NEW l \in 0 .. n - 1, l \in T PROVE l + 1 \in T
  <2>1. l + 1 \in 1 .. n /\ l + 1 \in 1 .. n + 1 /\ (l + 1) - 1 = l /\ l + 1 \in 0 .. n
    OBVIOUS
  <2>2. l = 0 => l + 1 = 1
    OBVIOUS
  <2>3. l # 0 => l + 1 # 1 /\ g[l] = h[l]
    BY <1>3
  <2> QED BY <1>1, <2>1, <2>2, <2>3
<1> HIDE DEF T
<1>4. 0 .. n \subseteq T
  BY <1>2, <1>3, Upwards
<1>5. \A l \in 1 .. n : l \in 0 .. n /\ l # 0
  OBVIOUS
<1> QED BY <1>4, <1>5 DEF T

\* The next level is the one before, flattened.
LEMMA LeavesStep ==
  ASSUME NEW nested, NEW l \in Nat \ {0}
  PROVE  Leaves(nested, l + 1) = FlattenSeq(Leaves(nested, l))
<1>1. l + 1 \in Nat \ {0} /\ l + 1 # 1 /\ (l + 1) - 1 = l /\ l + 1 \in 1 .. l + 1 /\ l \in 1 .. l
  OBVIOUS
<1>2. PICK g : IsLevels(g, nested, l + 1) /\ Leaves(nested, l + 1) = g[l + 1]
  BY <1>1, LeavesIs
<1>3. PICK h : IsLevels(h, nested, l) /\ Leaves(nested, l) = h[l]
  BY LeavesIs
<1>4. g[l] = h[l]
  BY <1>1, <1>2, <1>3, LevelsAgree
<1>5. g[l + 1] = FlattenSeq(g[l])
  BY <1>1, <1>2 DEF IsLevels
<1> QED BY <1>2, <1>3, <1>4, <1>5

\* The first level is the input.
LEMMA LeavesFirst == ASSUME NEW nested PROVE Leaves(nested, 1) = nested
<1>1. PICK g : IsLevels(g, nested, 1) /\ Leaves(nested, 1) = g[1]
  BY LeavesIs
<1> QED BY <1>1 DEF IsLevels

\* The first two dimensions.
LEMMA DeducedDimsAre ==
  ASSUME NEW nested, NEW n \in Nat \ {0}
  PROVE  /\ DOMAIN DeducedDims(nested, n) = 1 .. n
         /\ DeducedDims(nested, n)[1] = Len(nested)
         /\ n >= 2 => DeducedDims(nested, n)[2] = Len(Head(nested))
<1> DEFINE f == CHOOSE g : IsFirsts(g, nested, n)
<1>1. IsFirsts(f, nested, n)
  BY FirstsExist
<1>2. DeducedDims(nested, n) = [l \in 1 .. n |-> Len(f[l])]
  BY DEF DeducedDims, IsFirsts
<1> HIDE DEF f
<1>3. f[1] = nested
  <2>1. 1 \in 1 .. n
    OBVIOUS
  <2> QED BY <1>1, <2>1 DEF IsFirsts
<1>4. n >= 2 => f[2] = Head(nested)
  <2>1. n >= 2 => 2 \in 1 .. n /\ 2 # 1 /\ 2 - 1 = 1
    OBVIOUS
  <2> QED BY <1>1, <1>3, <2>1 DEF IsFirsts
<1> QED BY <1>2, <1>3, <1>4

-----------------------------------------------------------------------------
\* Sequences of sequences, by the elements they hold.
LEMMA SeqOfSeqs ==
  ASSUME NEW rows, IsSeq(rows), \A i \in DOMAIN rows : IsSeq(rows[i])
  PROVE  \E X : rows \in Seq(Seq(X))
<1> DEFINE X == UNION {Range(rows[i]) : i \in DOMAIN rows}
<1>1. /\ Len(rows) \in Nat /\ DOMAIN rows = 1 .. Len(rows)
      /\ rows = [i \in 1 .. Len(rows) |-> rows[i]]
  BY DEF IsSeq
<1>2. ASSUME NEW i \in DOMAIN rows PROVE rows[i] \in Seq(X)
  <2>1. rows[i] \in Seq(Range(rows[i]))
    BY DEF IsSeq
  <2>2. Range(rows[i]) \subseteq X
    OBVIOUS
  <2> HIDE DEF X
  <2> QED BY <2>1, <2>2, SeqMonotonic
<1> HIDE DEF X
<1>3. rows \in [1 .. Len(rows) -> Seq(X)]
  BY <1>1, <1>2
<1>4. rows \in Seq(Seq(X))
  BY <1>1, <1>3, SeqDef
<1> QED BY <1>4

\* The leading rows of one length stand one after the other.
LEMMA FlattenRows ==
  ASSUME NEW X, NEW rows \in Seq(Seq(X)), NEW d \in Nat
  PROVE  \A r \in 1 .. Len(rows) :
           (\A q \in 1 .. r : Len(rows[q]) = d) =>
             /\ FlattenSeq(rows) \in Seq(X)
             /\ (r - 1) * d + d <= Len(FlattenSeq(rows))
             /\ \A i \in 1 .. d : FlattenSeq(rows)[(r - 1) * d + i] = rows[r][i]
<1>1. ASSUME NEW r \in 1 .. Len(rows), \A q \in 1 .. r : Len(rows[q]) = d
      PROVE  /\ FlattenSeq(rows) \in Seq(X)
             /\ (r - 1) * d + d <= Len(FlattenSeq(rows))
             /\ \A i \in 1 .. d : FlattenSeq(rows)[(r - 1) * d + i] = rows[r][i]
  BY <1>1, FlattenRow
<1> QED BY <1>1

\* Rows of one length.
LEMMA FlattenEven ==
  ASSUME NEW X, NEW rows \in Seq(Seq(X)), NEW d \in Nat, Len(rows) # 0,
         \A q \in 1 .. Len(rows) : Len(rows[q]) = d
  PROVE  /\ FlattenSeq(rows) \in Seq(X)
         /\ Len(FlattenSeq(rows)) = Len(rows) * d
         /\ \A r \in 1 .. Len(rows), i \in 1 .. d :
              FlattenSeq(rows)[(r - 1) * d + i] = rows[r][i]
<1> DEFINE m == Len(rows)
<1>1. m \in Nat /\ m \in 1 .. m
  OBVIOUS
<1>2. ASSUME NEW r \in 1 .. m
      PROVE  /\ FlattenSeq(rows) \in Seq(X)
             /\ r = m => Len(FlattenSeq(rows)) = (r - 1) * d + d
             /\ \A i \in 1 .. d : FlattenSeq(rows)[(r - 1) * d + i] = rows[r][i]
  <2>1. \A q \in 1 .. r : Len(rows[q]) = d
    BY <1>1
  <2> QED BY <2>1, FlattenRow
<1>3. FlattenSeq(rows) \in Seq(X) /\ Len(FlattenSeq(rows)) = (m - 1) * d + d
  BY <1>1, <1>2
<1>4. (m - 1) * d + d = m * d
  BY <1>1
<1> QED BY <1>2, <1>3, <1>4

\* What Seq makes of a set is a sequence.
LEMMA SeqIsSeq ==
  ASSUME NEW X, NEW s \in Seq(X)
  PROVE  IsSeq(s)
<1>1. Len(s) \in Nat /\ s \in [1 .. Len(s) -> X] /\ DOMAIN s = 1 .. Len(s)
  BY LenProperties
<1>2. s \in [1 .. Len(s) -> Range(s)]
  BY <1>1 DEF Range
<1>3. s \in Seq(Range(s))
  BY <1>1, <1>2, SeqDef
<1> QED BY <1>3 DEF IsSeq

\* A size that wraps is smaller than the number of elements.
LEMMA SizeAtMost ==
  ASSUME NEW dims \in Seq(Nat)
  PROVE  Elements(dims) \in Nat /\ Size(dims) \in Nat /\ Size(dims) <= Elements(dims)
<1> DEFINE n == Len(dims)
           P == Products(dims)
           s == Sizes(dims)
           T == {i \in 0 .. n : s[i] <= P[i]}
<1>1. n \in Nat /\ \A i \in 1 .. n : dims[i] \in Nat
  OBVIOUS
<1>2. /\ P \in [0 .. n -> Nat] /\ P[0] = 1
      /\ \A i \in 1 .. n : P[i] = P[i - 1] * dims[i]
  BY ProductsAre
<1>3. /\ s \in [0 .. n -> Nat] /\ s[0] = 1
      /\ \A i \in 1 .. n : s[i] = Word64(s[i - 1] * dims[i])
  BY SizesAre
<1>4. Elements(dims) = P[n] /\ Size(dims) = s[n]
  BY DEF Elements, Size
<1> HIDE DEF n, P, s
<1>5. 0 \in T
  BY <1>1, <1>2, <1>3
<1>6. ASSUME NEW i \in 0 .. n - 1, i \in T PROVE i + 1 \in T
  <2>1. i + 1 \in 1 .. n /\ (i + 1) - 1 = i /\ i \in 0 .. n /\ i + 1 \in 0 .. n
    BY <1>1
  <2>2. P[i] \in Nat /\ s[i] \in Nat /\ dims[i + 1] \in Nat /\ s[i] <= P[i]
    BY <1>1, <1>2, <1>3, <1>6, <2>1
  <2>3. \A x, y, z \in Nat : x <= y => x * z <= y * z /\ x * z \in Nat /\ y * z \in Nat
    <3> SUFFICES ASSUME NEW x \in Nat, NEW y \in Nat, NEW z \in Nat, x <= y
                 PROVE  x * z <= y * z /\ x * z \in Nat /\ y * z \in Nat
      OBVIOUS
    <3>1. (y - x) * z \in Nat /\ y * z = x * z + (y - x) * z /\ x * z \in Nat
      OBVIOUS
    <3> QED BY <3>1
  <2>4. s[i] * dims[i + 1] <= P[i] * dims[i + 1] /\ s[i] * dims[i + 1] \in Nat
        /\ P[i] * dims[i + 1] \in Nat
    BY <2>2, <2>3
  <2>5. Word64(s[i] * dims[i + 1]) <= s[i] * dims[i + 1] /\ Word64(s[i] * dims[i + 1]) \in Nat
    BY <2>4, Words
  <2>6. s[i + 1] = Word64(s[i] * dims[i + 1]) /\ P[i + 1] = P[i] * dims[i + 1]
    BY <1>2, <1>3, <2>1
  <2> QED BY <2>1, <2>4, <2>5, <2>6
<1> HIDE DEF T
<1>7. 0 .. n \subseteq T
  BY <1>1, <1>5, <1>6, Upwards
<1>8. n \in 0 .. n /\ n \in T
  BY <1>1, <1>7
<1> QED BY <1>2, <1>3, <1>4, <1>8 DEF T

\* The sequences of each level are as long as the dimensions say.
Even(nested, dims) ==
  /\ IsNested(nested, Len(dims)) /\ dims # <<>> /\ Len(nested) = dims[1]
  /\ \A l \in 1 .. Len(dims) - 1 : \A i \in DOMAIN Leaves(nested, l) :
       Len(Leaves(nested, l)[i]) = dims[l + 1]

\* Every level of even input has the size the dimensions before it give.
LEMMA EvenLevels ==
  ASSUME NEW dims \in Seq(Nat), NEW nested, Even(nested, dims), Elements(dims) # 0
  PROVE  \A l \in 1 .. Len(dims) :
           IsSeq(Leaves(nested, l)) /\ Len(Leaves(nested, l)) = Products(dims)[l]
<1> DEFINE n == Len(dims)
           P == Products(dims)
           T == {k \in 0 .. n - 1 : /\ IsSeq(Leaves(nested, k + 1))
                                    /\ Len(Leaves(nested, k + 1)) = P[k + 1]}
<1>1. n \in Nat /\ n >= 1 /\ \A i \in 1 .. n : dims[i] \in Nat
  BY DEF Even
<1>2. /\ P \in [0 .. n -> Nat] /\ P[0] = 1
      /\ \A i \in 1 .. n : P[i] = P[i - 1] * dims[i]
  BY ProductsAre
<1>3. P[n] # 0
  BY DEF Elements
<1> HIDE DEF P
<1>4. 0 \in T
  <2>1. Leaves(nested, 1) = nested /\ IsSeq(nested) /\ Len(nested) = dims[1]
    BY LeavesFirst DEF Even, IsNested
  <2>2. P[1] = dims[1]
    <3>1. P[1] = P[0] * dims[1] /\ dims[1] \in Nat
      BY <1>1, <1>2
    <3> QED BY <1>2, <3>1
  <2> QED BY <1>1, <2>1, <2>2
<1>5. ASSUME NEW k \in 0 .. (n - 1) - 1, k \in T PROVE k + 1 \in T
  <2> DEFINE rows == Leaves(nested, k + 1)
             d == dims[(k + 1) + 1]
             m == Len(rows)
  <2>1. /\ k + 1 \in 1 .. n - 1 /\ k + 1 \in Nat \ {0} /\ k + 1 \in 0 .. n - 1
        /\ (k + 1) + 1 \in 1 .. n /\ ((k + 1) + 1) - 1 = k + 1 /\ k + 1 \in 0 .. n
    BY <1>1
  <2>2. IsSeq(rows) /\ m = P[k + 1]
    BY <1>5
  <2>3. \A i \in DOMAIN rows : IsSeq(rows[i]) /\ Len(rows[i]) = d
    BY <2>1 DEF Even, IsNested
  <2>4. P[(k + 1) + 1] = P[k + 1] * d /\ P[k + 1] \in Nat /\ d \in Nat
    BY <1>1, <1>2, <2>1
  <2>5. Leaves(nested, (k + 1) + 1) = FlattenSeq(rows)
    BY <2>1, LeavesStep
  <2> HIDE DEF rows, d
  <2>6. CASE m = 0
    <3>1. rows = <<>>
      <4>1. rows \in Seq(Range(rows))
        BY <2>2 DEF IsSeq
      <4> QED BY <2>6, <4>1, EmptySeq
    <3>2. FlattenSeq(rows) = rows
      BY <2>6 DEF FlattenSeq
    <3>3. P[(k + 1) + 1] = 0
      BY <2>2, <2>4, <2>6
    <3> QED BY <2>1, <2>2, <2>5, <2>6, <3>2, <3>3
  <2>7. CASE m # 0
    <3>1. PICK X : rows \in Seq(Seq(X))
      BY <2>2, <2>3, SeqOfSeqs
    <3>2. m \in Nat /\ DOMAIN rows = 1 .. m /\ m \in 1 .. m
      BY <2>7, <3>1
    <3>3. \A q \in 1 .. m : Len(rows[q]) = d
      BY <2>3, <3>2
    <3>4. FlattenSeq(rows) \in Seq(X) /\ Len(FlattenSeq(rows)) = m * d
      BY <2>4, <2>7, <3>1, <3>3, FlattenEven
    <3>6. IsSeq(FlattenSeq(rows))
      BY <3>4, SeqIsSeq
    <3> QED BY <2>1, <2>2, <2>4, <2>5, <3>4, <3>6
  <2> QED BY <2>6, <2>7
<1> HIDE DEF T
<1>6. 0 .. n - 1 \subseteq T
  <2>1. n - 1 \in Nat
    BY <1>1
  <2> QED BY <1>4, <1>5, <2>1, Upwards
<1>7. \A l \in 1 .. n : l - 1 \in 0 .. n - 1 /\ (l - 1) + 1 = l
  BY <1>1
<1>8. \A l \in 1 .. n : l - 1 \in T
  BY <1>6, <1>7
<1> QED BY <1>7, <1>8 DEF T, P

-----------------------------------------------------------------------------
\* Cut into pieces of their length, rows are what they were.
LEMMA RowsBack ==
  ASSUME NEW X, NEW rows \in Seq(Seq(X)), NEW d \in Nat \ {0}, Len(rows) # 0,
         \A q \in 1 .. Len(rows) : Len(rows[q]) = d
  PROVE  LET s == FlattenSeq(rows)
         IN  [i \in 1 .. Len(s) \div d |-> SubSeq(s, (i - 1) * d + 1, i * d)] = rows
<1> DEFINE s == FlattenSeq(rows)
           m == Len(rows)
<1>1. /\ s \in Seq(X) /\ Len(s) = m * d
      /\ \A r \in 1 .. m, i \in 1 .. d : s[(r - 1) * d + i] = rows[r][i]
  BY FlattenEven
<1>2. /\ m \in Nat /\ \A r \in 1 .. m : rows[r] \in Seq(X)
      /\ rows = [r \in 1 .. m |-> rows[r]]
  OBVIOUS
<1>3. (m * d) \div d = m
  <2>1. m * d \in Nat
    BY <1>2
  <2> DEFINE x == m * d
  <2> HIDE DEF x
  <2>2. /\ x \div d \in Nat /\ x % d \in 0 .. d - 1
        /\ x = (x \div d) * d + (x % d)
    BY <2>1, Divide DEF x
  <2>3. (x \div d) * d + (x % d) = m * d + 0 /\ 0 \in 0 .. d - 1
    BY <2>2 DEF x
  <2> HIDE DEF m
  <2>4. x \div d = m
    BY <1>2, <2>2, <2>3, SameRowColumn
  <2> QED BY <2>4 DEF x
<1> HIDE DEF s
<1>4. ASSUME NEW r \in 1 .. m
      PROVE  SubSeq(s, (r - 1) * d + 1, r * d) = rows[r]
  <2> DEFINE a == (r - 1) * d
             t == SubSeq(s, a + 1, a + d)
  <2>1. a \in Nat /\ r * d = a + d
    BY <1>2
  <2>2. a + d <= Len(s)
    <3>1. (m - r) * d \in Nat /\ m * d = r * d + (m - r) * d /\ m * d \in Nat /\ r * d \in Nat
      BY <1>2
    <3> QED BY <1>1, <2>1, <3>1
  <2> HIDE DEF a
  <2>3. \A j \in a + 1 .. a + d : s[j] \in X
    <3>1. \A j \in a + 1 .. a + d : j \in 1 .. Len(s)
      BY <1>1, <2>1, <2>2
    <3> QED BY <1>1, <3>1, ElementOfSeq
  <2>4. /\ t \in Seq(X) /\ Len(t) = d
        /\ \A i \in 1 .. d : t[i] = s[a + i]
    <3>1. /\ SubSeq(s, a + 1, a + d) \in Seq(X)
          /\ Len(SubSeq(s, a + 1, a + d))
               = IF a + 1 <= a + d THEN (a + d) - (a + 1) + 1 ELSE 0
          /\ \A i \in 1 .. (a + d) - (a + 1) + 1 :
               SubSeq(s, a + 1, a + d)[i] = s[(a + 1) + i - 1]
      BY <2>1, <2>3, SubSeqProperties
    <3>2. a + 1 <= a + d /\ (a + d) - (a + 1) + 1 = d
          /\ \A i \in 1 .. d : (a + 1) + i - 1 = a + i
      BY <2>1
    <3> QED BY <3>1, <3>2
  <2> HIDE DEF t
  <2>5. \A i \in 1 .. d : s[a + i] = rows[r][i]
    BY <1>1 DEF a
  <2>6. rows[r] \in Seq(X) /\ Len(rows[r]) = d
    BY <1>2
  <2> DEFINE row == rows[r]
  <2>7. row \in Seq(X) /\ Len(row) = Len(t) /\ \A i \in 1 .. Len(t) : t[i] = row[i]
    BY <2>4, <2>5, <2>6
  <2> HIDE DEF row
  <2>8. t = row
    BY <2>4, <2>7, SeqEqual
  <2> QED BY <2>1, <2>8 DEF a, t, row
<1> HIDE DEF m
<1>5. [r \in 1 .. m |-> SubSeq(s, (r - 1) * d + 1, r * d)] = [r \in 1 .. m |-> rows[r]]
  BY <1>4
<1>6. Len(s) \div d = m
  BY <1>1, <1>3
<1> QED BY <1>2, <1>5, <1>6 DEF s

\* print() puts the brackets back.
LEMMA NestedIs ==
  ASSUME NEW dims \in Seq(Nat), NEW nested, Even(nested, dims), Elements(dims) # 0
  PROVE  Nested(Leaves(nested, Len(dims)), dims) = nested
<1> DEFINE n == Len(dims)
           flat == Leaves(nested, n)
           Cut(l, s) == [i \in 1 .. Len(s) \div dims[l + 1] |->
                           SubSeq(s, (i - 1) * dims[l + 1] + 1, i * dims[l + 1])]
           Is(g) == g = [l \in 1 .. n |-> IF l = n THEN flat ELSE Cut(l, g[l + 1])]
           f == CHOOSE g : Is(g)
           h == [l \in 1 .. n |-> Leaves(nested, l)]
<1>1. n \in Nat /\ n >= 1 /\ \A l \in 1 .. n : dims[l] \in Nat
  BY DEF Even
<1>2. \A l \in 1 .. n : IsSeq(Leaves(nested, l)) /\ Len(Leaves(nested, l)) = Products(dims)[l]
  BY EvenLevels
<1>3. /\ Products(dims) \in [0 .. n -> Nat] /\ Products(dims)[0] = 1
      /\ \A i \in 1 .. n : Products(dims)[i] = Products(dims)[i - 1] * dims[i]
  BY ProductsAre
<1>4. \A l \in 1 .. n : Products(dims)[l] # 0 /\ dims[l] # 0
  <2> DEFINE P == Products(dims)
             T == {i \in 1 .. n : P[i] # 0}
  <2>1. n \in T
    BY <1>1 DEF Elements
  <2>2. ASSUME NEW i \in 1 .. n, P[i] # 0 PROVE P[i - 1] # 0 /\ dims[i] # 0
    <3>1. P[i] = P[i - 1] * dims[i] /\ P[i - 1] \in Nat /\ dims[i] \in Nat
      <4>1. i - 1 \in 0 .. n
        BY <1>1
      <4> QED BY <1>1, <1>3, <4>1 DEF P
    <3>2. \A x, y \in Nat : x * y # 0 => x # 0 /\ y # 0
      OBVIOUS
    <3> QED BY <2>2, <3>1, <3>2
  <2> HIDE DEF P
  <2>3. ASSUME NEW i \in 1 .. n - 1, i + 1 \in T PROVE i \in T
    <3>1. i + 1 \in 1 .. n /\ (i + 1) - 1 = i /\ i \in 1 .. n
      BY <1>1
    <3> QED BY <2>2, <2>3, <3>1
  <2> HIDE DEF T
  <2>4. 1 .. n \subseteq T
    BY <1>1, <2>1, <2>3, Downwards
  <2> QED BY <2>2, <2>4 DEF T, P
<1>5. ASSUME NEW l \in 1 .. n, l # n
      PROVE  Cut(l, Leaves(nested, l + 1)) = Leaves(nested, l)
  <2> DEFINE rows == Leaves(nested, l)
             d == dims[l + 1]
  <2>1. l \in 1 .. n - 1 /\ l + 1 \in 1 .. n /\ l \in Nat \ {0}
    BY <1>1, <1>5
  <2>2. /\ \A i \in DOMAIN rows : IsSeq(rows[i]) /\ Len(rows[i]) = d
        /\ d \in Nat \ {0}
    BY <1>1, <1>4, <2>1 DEF Even, IsNested
  <2>3. Leaves(nested, l + 1) = FlattenSeq(rows)
    BY <2>1, LeavesStep
  <2>4. IsSeq(rows) /\ Len(rows) # 0
    BY <1>2, <1>4
  <2> HIDE DEF rows, d
  <2>5. PICK X : rows \in Seq(Seq(X))
    BY <2>2, <2>4, SeqOfSeqs
  <2>6. \A q \in 1 .. Len(rows) : Len(rows[q]) = d
    BY <2>2, <2>5
  <2>7. LET s == FlattenSeq(rows)
        IN  [i \in 1 .. Len(s) \div d |-> SubSeq(s, (i - 1) * d + 1, i * d)] = rows
    BY <2>2, <2>4, <2>5, <2>6, RowsBack
  <2> QED BY <2>3, <2>7 DEF rows, d
<1>6. Nested(flat, dims) = f[1]
  <2>1. Len(flat) # 0
    BY <1>1, <1>2, <1>4
  <2>2. flat # <<>>
    BY <2>1
  <2> QED BY <2>2 DEF Nested
<1> HIDE DEF Cut, flat
<1>7. \A l \in 1 .. n : h[l] = IF l = n THEN flat ELSE Cut(l, h[l + 1])
  <2>1. \A l \in 1 .. n : l # n => l + 1 \in 1 .. n
    BY <1>1
  <2>2. \A l \in 1 .. n : h[l] = Leaves(nested, l)
    OBVIOUS
  <2> HIDE DEF h
  <2> QED BY <1>5, <2>1, <2>2 DEF flat
<1>8. Is(h)
  BY <1>7
<1>9. Is(f)
  BY <1>8
<1>10. h[1] = nested
  BY <1>1, LeavesFirst
<1> HIDE DEF f, h
<1>11. f[1] = h[1]
  <2> DEFINE T == {l \in 1 .. n : f[l] = h[l]}
  <2>1. \A l \in 1 .. n : f[l] = IF l = n THEN flat ELSE Cut(l, f[l + 1])
    BY <1>9
  <2>2. n \in 1 .. n /\ 1 \in 1 .. n
    BY <1>1
  <2>3. n \in T
    BY <1>7, <2>1, <2>2
  <2>4. ASSUME NEW l \in 1 .. n - 1, l + 1 \in T PROVE l \in T
    <3>1. l \in 1 .. n /\ l # n /\ f[l + 1] = h[l + 1]
      BY <1>1, <2>4
    <3>2. f[l] = Cut(l, f[l + 1]) /\ h[l] = Cut(l, h[l + 1])
      BY <1>7, <2>1, <3>1
    <3> QED BY <3>1, <3>2
  <2> HIDE DEF T
  <2>5. 1 .. n \subseteq T
    BY <1>1, <2>3, <2>4, Downwards
  <2>6. 1 \in T
    BY <2>2, <2>5
  <2> QED BY <2>6 DEF T
<1> QED BY <1>6, <1>10, <1>11 DEF flat

-----------------------------------------------------------------------------
\* What an array made from sequences holds.
LoadedInv ==
  call # NoCall /\ call.op = "sequence" =>
    LET elements == Leaves(call.nested, call.rank)
    IN  /\ phase \in {"done", "undefined"}
        /\ phase = "done" =>
             /\ Len(elements) <= Size(Dims(call))
             /\ out = [i \in Positions(call) |->
                         IF i < Len(elements) THEN elements[i + 1] ELSE 0]
        /\ phase = "undefined" => Len(elements) > Size(Dims(call))

\* Every step keeps it: only FromSequence writes from nested input.
LEMMA LoadedNext == TypeInv /\ LoadedInv /\ [Next]_vars => LoadedInv'
<1> SUFFICES ASSUME TypeInv, LoadedInv, [Next]_vars PROVE LoadedInv'
  OBVIOUS
<1>1. (phase = "idle") = (call = NoCall)
  BY DEF TypeInv, TypeOK
<1>2. ASSUME UNCHANGED <<phase, call, out>> PROVE LoadedInv'
  BY <1>2 DEF LoadedInv, Positions
<1>3. ASSUME call' = NoCall \/ call'.op # "sequence" PROVE LoadedInv'
  BY <1>3 DEF LoadedInv
<1>4. ASSUME NEW c, FromSequence(c) PROVE LoadedInv'
  BY <1>4 DEF FromSequence, Load, LoadedInv, Positions
<1>5. ASSUME NEW c, Build(c) \/ Make(c) \/ FromHost(c) \/ FillBytes(c) PROVE LoadedInv'
  <2>1. call' = c /\ c.op # "sequence"
    BY <1>5 DEF Build, Make, FromHost, FillBytes, Load, Host, Factories
  <2> QED BY <1>3, <2>1
<1>6. ASSUME phase \in {"built", "running"}, call' = call PROVE LoadedInv'
  <2>1. call # NoCall
    BY <1>1, <1>6
  <2>2. call.op # "sequence"
    BY <1>6, <2>1 DEF LoadedInv
  <2> QED BY <1>3, <1>6, <2>2
<1>7. CASE Operate \/ Refuse \/ Return
  BY <1>6, <1>7 DEF Operate, Refuse, Return
<1>8. ASSUME NEW b, RunBlock(b) PROVE LoadedInv'
  BY <1>6, <1>8 DEF RunBlock
<1>9. CASE Drop
  BY <1>3, <1>9 DEF Drop
<1>10. ASSUME NEW i, Subscript(i) PROVE LoadedInv'
  BY <1>2, <1>10 DEF Subscript
<1>11. CASE DeviceStep \/ UNCHANGED vars
  BY <1>2, <1>11 DEF DeviceStep, arrayVars, vars
<1> QED BY <1>4, <1>5, <1>7, <1>8, <1>9, <1>10, <1>11 DEF Next

\* It holds throughout.
LEMMA AlwaysLoaded == Spec => [](TypeInv /\ LoadedInv)
<1>1. Init => LoadedInv
  BY DEF Init, LoadedInv
<1> QED BY <1>1, TypeInit, TypeNext, LoadedNext, PTL DEF Spec

\* The calls that make an array from sequences.
LEMMA SequenceCall ==
  ASSUME TypeInv, call # NoCall, call.op = "sequence"
  PROVE  /\ SequencesOK(call)
         /\ Dims(call) = DeducedDims(call.nested, call.rank)
         /\ Dims(call) \in Seq(Nat) /\ Len(Dims(call)) = call.rank /\ call.rank \in Nat \ {0}
         /\ Dims(call)[1] = Len(call.nested)
         /\ call.rank >= 2 => Dims(call)[2] = Len(Head(call.nested))
<1>1. call \in Calls
  BY DEF TypeInv, Shaped
<1>2. SequencesOK(call)
  BY <1>1, ComputeAssumption DEF WellFormed, OneD, Host
<1>3. Dims(call) = DeducedDims(call.nested, call.rank) /\ Dims(call) \in Seq(Nat)
      /\ call.rank \in Nat \ {0}
  BY <1>2 DEF SequencesOK, Dims
<1>4. /\ DOMAIN Dims(call) = 1 .. call.rank
      /\ Dims(call)[1] = Len(call.nested)
      /\ call.rank >= 2 => Dims(call)[2] = Len(Head(call.nested))
  BY <1>3, DeducedDimsAre
<1>5. Len(Dims(call)) = call.rank
  BY <1>3, <1>4
<1> QED BY <1>2, <1>3, <1>4, <1>5

\* An array made from sequences that are even at every level prints as them, whatever the
\* rank and the widths of the integers: decomposeRanges and print() go through the levels
\* alike.
THEOREM AlwaysPrintRoundTrip == Spec => []PrintRoundTrip
<1>1. ASSUME TypeInv, LoadedInv PROVE PrintRoundTrip
  <2> DEFINE dims == Dims(call)
             nested == call.nested
             e == Leaves(nested, call.rank)
  <2> SUFFICES ASSUME phase = "done", call.op = "sequence", Regular(call), Size(dims) # 0
               PROVE  Nested([i \in 1 .. Size(dims) |-> out[i - 1]], dims) = nested
    BY DEF PrintRoundTrip
  <2>1. call # NoCall
    BY <1>1 DEF TypeInv, TypeOK
  <2>2. /\ SequencesOK(call) /\ dims \in Seq(Nat) /\ Len(dims) = call.rank
        /\ call.rank \in Nat \ {0} /\ dims[1] = Len(nested)
    BY <1>1, <2>1, SequenceCall
  <2>3. Even(nested, dims)
    BY <2>2 DEF Even, SequencesOK, Regular
  <2>4. /\ Elements(dims) \in Nat /\ Size(dims) \in Nat /\ Size(dims) <= Elements(dims)
        /\ Elements(dims) # 0
    BY <2>2, SizeAtMost
  <2>5. IsSeq(e) /\ Len(e) = Elements(dims)
    <3>1. call.rank \in 1 .. Len(dims)
      BY <2>2
    <3> QED BY <2>2, <2>3, <2>4, <3>1, EvenLevels DEF Elements
  <2>6. Len(e) = Size(dims)
    BY <1>1, <2>1, <2>4, <2>5 DEF LoadedInv
  <2>7. \A i \in 1 .. Size(dims) : out[i - 1] = e[i]
    <3>1. \A i \in 1 .. Size(dims) :
            i - 1 \in Positions(call) /\ i - 1 < Len(e) /\ (i - 1) + 1 = i
      BY <2>4, <2>6 DEF Positions
    <3>2. out = [i \in Positions(call) |-> IF i < Len(e) THEN e[i + 1] ELSE 0]
      BY <1>1, <2>1 DEF LoadedInv
    <3> QED BY <3>1, <3>2
  <2>8. [i \in 1 .. Size(dims) |-> out[i - 1]] = e
    <3>1. e = [i \in 1 .. Len(e) |-> e[i]]
      BY <2>5 DEF IsSeq
    <3> QED BY <2>6, <2>7, <3>1
  <2>9. Nested(e, dims) = nested
    BY <2>2, <2>3, <2>4, NestedIs
  <2> QED BY <2>8, <2>9
<1> QED BY <1>1, AlwaysLoaded, PTL

\* The leading rows of f that have length k stand one after the other in FlattenSeq(f).
FlatRows(f, k) ==
  \A t \in 1 .. Len(f) :
    (\A q \in 1 .. t : Len(f[q]) = k) =>
      /\ (t - 1) * k + k <= Len(FlattenSeq(f))
      /\ \A i \in 1 .. k : FlattenSeq(f)[(t - 1) * k + i] = f[t][i]

\* FlattenSeq does that.
LEMMA FlatRowsHold ==
  ASSUME NEW X, NEW f \in Seq(Seq(X)), NEW k \in Nat
  PROVE  FlatRows(f, k)
BY FlattenRows DEF FlatRows

\* Of two dimensions.
LEMMA OffsetOfPair ==
  ASSUME NEW dims \in Seq(Nat), Len(dims) = 2, dims[2] < 2^Bits64,
         NEW i \in Nat, NEW j \in Nat, i * dims[2] + j < 2^Bits64
  PROVE  Offset(Strides(dims), <<i, j>>) = i * dims[2] + j
<1> DEFINE s == Strides(dims)
           p == <<i, j>>
           d == dims[2]
<1>1. d \in Nat /\ p \in Seq(Nat) /\ Len(p) = 2 /\ p[1] = i /\ p[2] = j /\ i * d \in Nat
  <2>1. d \in Nat
    <3>1. 2 \in 1 .. Len(dims)
      OBVIOUS
    <3> QED BY <3>1, ElementOfSeq
  <2>2. \A x, y \in Nat : x * y \in Nat
    OBVIOUS
  <2>3. p \in Seq(Nat) /\ Len(p) = 2 /\ p[1] = i /\ p[2] = j
    OBVIOUS
  <2> HIDE DEF d, p
  <2> QED BY <2>1, <2>2, <2>3
<1>2. s[2] = 1 /\ s[1] = d
  <2>1. s[2] = 1 /\ s[1] = Word64(s[2] * d)
    <3>1. dims # <<>> /\ 1 \in 1 .. Len(dims) - 1 /\ 1 + 1 = 2
      OBVIOUS
    <3> QED BY <3>1, StridesAre
  <2>2. s[2] * d = d
    BY <1>1, <2>1
  <2> QED BY <1>1, <2>1, <2>2, Words
<1> HIDE DEF s, p, d
<1>3. \A k \in 1 .. Len(p) : s[k] \in Nat
  BY <1>1, <1>2
<1>4. PICK f : IsOffset(f, s, p) /\ Offset(s, p) = f[Len(p)]
  BY <1>1, <1>3, OffsetIs
<1>5. f[0] = 0 /\ f[1] = Word64(f[0] + s[1] * p[1]) /\ f[2] = Word64(f[1] + s[2] * p[2])
  <2>1. 1 \in 1 .. Len(p) /\ 2 \in 1 .. Len(p) /\ 1 - 1 = 0 /\ 2 - 1 = 1
    BY <1>1
  <2> QED BY <1>4, <2>1 DEF IsOffset
<1>6. 0 + d * i = i * d /\ i * d < 2^Bits64 /\ 2^Bits64 \in Nat
  <2>1. i * d + j < 2^Bits64 /\ 2^Bits64 \in Nat
    BY ShapeAssumption DEF d
  <2>2. d * i = i * d
    BY <1>1
  <2> QED BY <1>1, <2>1, <2>2
<1>7. f[1] = i * d
  <2>1. f[1] = Word64(i * d)
    BY <1>1, <1>2, <1>5, <1>6
  <2> QED BY <1>1, <1>6, <2>1, Words
<1>8. f[2] = i * d + j
  <2>1. f[2] = Word64(i * d + j)
    BY <1>1, <1>2, <1>5, <1>7
  <2>2. i * d + j \in Nat /\ i * d + j < 2^Bits64
    BY <1>1 DEF d
  <2> QED BY <2>1, <2>2, Words
<1> QED BY <1>1, <1>4, <1>8 DEF s, p, d

\* The rows of irregular input keep their places up to the first that is not as long as
\* the first row, and only longer rows overrun the vector on the host: decomposeRanges
\* counts elements, whatever the number of rows.
THEOREM AlwaysRowsInPlace == Spec => []RowsInPlace
<1>1. ASSUME TypeInv, LoadedInv PROVE RowsInPlace
  <2> DEFINE dims == Dims(call)
             rows == call.nested
             d == dims[2]
             e == FlattenSeq(rows)
  <2> SUFFICES ASSUME call # NoCall, call.op = "sequence", call.rank = 2
               PROVE  /\ phase = "done" =>
                           \A r \in DOMAIN rows :
                             (\A q \in 1 .. r : Len(rows[q]) = d) =>
                               \A i \in DOMAIN rows[r] :
                                 out[Offset(Strides(dims), <<r - 1, i - 1>>)] = rows[r][i]
                      /\ phase = "undefined" /\ Exact(call) =>
                           \E r \in DOMAIN rows : Len(rows[r]) > Len(rows[1])
    BY DEF RowsInPlace
  <2>1. /\ SequencesOK(call) /\ dims = DeducedDims(rows, 2)
        /\ dims \in Seq(Nat) /\ Len(dims) = 2 /\ dims[1] = Len(rows) /\ d = Len(Head(rows))
    BY <1>1, SequenceCall
  <2>2. Leaves(rows, 1) = rows /\ Leaves(rows, 2) = e
    <3>1. Leaves(rows, 1 + 1) = FlattenSeq(Leaves(rows, 1))
      BY LeavesStep
    <3> QED BY <3>1, LeavesFirst
  <2>3. IsSeq(rows) /\ \A i \in DOMAIN rows : IsSeq(rows[i])
    <3>1. 1 \in 1 .. call.rank - 1
      OBVIOUS
    <3> QED BY <2>1, <2>2, <3>1 DEF SequencesOK, IsNested
  <2>4. PICK X : rows \in Seq(Seq(X))
    BY <2>3, SeqOfSeqs
  <2>5. d \in Nat /\ Len(rows) # 0 /\ Len(rows) \in Nat /\ DOMAIN rows = 1 .. Len(rows)
    <3>1. 1 \in 1 .. call.rank - 1 /\ DeducedDims(rows, call.rank) = dims
      BY <2>1
    <3> QED BY <2>1, <2>4, <3>1 DEF SequencesOK
  <2>6. d = Len(rows[1])
    BY <2>1, <2>4, <2>5
  <2>7. Size(dims) \in Nat /\ Size(dims) < 2^Bits64 /\ 2^Bits64 \in Nat
    <3>1. Size(dims) = Word64(Sizes(dims)[1] * d) /\ Sizes(dims)[1] \in Nat
      <4>1. 2 \in 1 .. Len(dims) /\ 2 - 1 = 1 /\ 1 \in 0 .. Len(dims)
        BY <2>1
      <4> QED BY <2>1, <4>1, SizesAre DEF Size
    <3>2. Sizes(dims)[1] * d \in Nat
      BY <2>5, <3>1
    <3> QED BY <3>1, <3>2, Words, ShapeAssumption
  <2>8. /\ phase = "done" =>
             /\ Len(e) <= Size(dims)
             /\ out = [i \in Positions(call) |-> IF i < Len(e) THEN e[i + 1] ELSE 0]
        /\ phase = "undefined" => Len(e) > Size(dims)
    BY <1>1, <2>2 DEF LoadedInv
  <2>9. Positions(call) = 0 .. Size(dims) - 1
    BY DEF Positions
  <2>10. Exact(call) => Size(dims) = Len(rows) * d
    <3>1. /\ Products(dims)[0] = 1 /\ Products(dims)[1] = Products(dims)[0] * dims[1]
          /\ Products(dims)[2] = Products(dims)[1] * dims[2]
      <4>1. 1 \in 1 .. Len(dims) /\ 2 \in 1 .. Len(dims) /\ 1 - 1 = 0 /\ 2 - 1 = 1
        BY <2>1
      <4> QED BY <2>1, <4>1, ProductsAre
    <3>2. Elements(dims) = Len(rows) * d
      <4>1. Products(dims)[1] = Len(rows)
        BY <2>1, <2>5, <3>1
      <4>2. Elements(dims) = Products(dims)[2]
        BY <2>1 DEF Elements
      <4> QED BY <3>1, <4>1, <4>2
    <3> QED BY <3>2 DEF Exact, NoWrap
  <2> HIDE DEF dims, rows, d, e
  <2>11. ASSUME phase = "done", NEW r \in 1 .. Len(rows),
                \A q \in 1 .. r : Len(rows[q]) = d, NEW i \in DOMAIN rows[r]
         PROVE  out[Offset(Strides(dims), <<r - 1, i - 1>>)] = rows[r][i]
    <3>1. r \in 1 .. Len(rows) /\ r \in 1 .. r
      BY <2>5
    <3>2. i \in 1 .. d
      BY <2>4, <2>11, <3>1
    <3>3. /\ (r - 1) * d + d <= Len(e)
          /\ \A k \in 1 .. d : e[(r - 1) * d + k] = rows[r][k]
      <4>1. \A q \in 1 .. r : Len(rows[q]) = d
        BY <2>11
      <4>2. \A t \in 1 .. Len(rows) :
              (\A q \in 1 .. t : Len(rows[q]) = d) =>
                /\ (t - 1) * d + d <= Len(e)
                /\ \A k \in 1 .. d : e[(t - 1) * d + k] = rows[t][k]
        <5>1. rows \in Seq(Seq(X)) /\ d \in Nat
          BY <2>4, <2>5
        <5>2. FlatRows(rows, d)
          BY <5>1, FlatRowsHold
        <5> QED BY <5>2 DEF FlatRows, e
      <4> HIDE DEF e
      <4> QED BY <3>1, <4>1, <4>2
    <3> DEFINE a == (r - 1) * d
    <3>4. a \in Nat /\ r - 1 \in Nat /\ i - 1 \in Nat /\ Len(e) \in Nat
      BY <2>5, <3>1, <3>2, <3>3
    <3>5. a + (i - 1) < Len(e) /\ (a + (i - 1)) + 1 = a + i /\ d <= Len(e)
      <4>1. a + d <= Len(e)
        BY <3>3
      <4> HIDE DEF a
      <4> QED BY <2>5, <3>2, <3>4, <4>1
    <3>6. Len(e) <= Size(dims)
      BY <2>8, <2>11
    <3>7. Offset(Strides(dims), <<r - 1, i - 1>>) = a + (i - 1)
      <4>1. a + (i - 1) < 2^Bits64 /\ d < 2^Bits64
        <5> HIDE DEF a
        <5> QED BY <2>5, <2>7, <3>2, <3>4, <3>5, <3>6
      <4> QED BY <2>1, <3>4, <4>1, OffsetOfPair DEF d
    <3> HIDE DEF a
    <3>8. a + (i - 1) \in Positions(call)
      BY <2>7, <2>9, <3>2, <3>4, <3>5, <3>6
    <3>9. out[a + (i - 1)] = e[a + i]
      BY <2>8, <2>11, <3>5, <3>8
    <3> QED BY <3>2, <3>3, <3>7, <3>9 DEF a
  <2>12. ASSUME phase = "undefined", Exact(call), \A r \in DOMAIN rows : ~(Len(rows[r]) > d)
         PROVE  FALSE
    <3>1. \A q \in 1 .. Len(rows) : Len(rows[q]) <= d
      <4>1. \A q \in 1 .. Len(rows) : Len(rows[q]) \in Nat
        BY <2>4
      <4> QED BY <2>5, <2>12, <4>1
    <3>2. e \in Seq(X) /\ Len(e) <= Len(rows) * d
      BY <2>4, <2>5, <3>1, FlattenAtMost DEF e
    <3>3. Len(e) \in Nat /\ Len(e) > Size(dims) /\ Size(dims) = Len(rows) * d
      BY <2>8, <2>10, <2>12, <3>2
    <3> QED BY <2>7, <3>2, <3>3
  <2> QED BY <2>5, <2>6, <2>11, <2>12 DEF rows, dims, d
<1> QED BY <1>1, AlwaysLoaded, PTL

==============================================================================
