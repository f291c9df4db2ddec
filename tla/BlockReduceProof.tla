-------------------------- MODULE BlockReduceProof --------------------------
(* Where the barriers of a block reduction leave races, and what the        *)
(* reductions compute, for warps, blocks and grids of any size and any      *)
(* input.                                                                   *)
EXTENDS BlockReduce, TLAPS, FiniteSetTheorems

\* The number of barriers a thread has passed.
Stage(t) ==
  CASE pc[t] \in {"shuffle", "write", "sync"} -> IF round[t] = 1 THEN 0 ELSE 2
    [] pc[t] \in {"read", "shuffle0", "atomic", "broadcast", "syncBroadcast"}
         -> IF round[t] = 1 THEN 1 ELSE 3
    [] pc[t] = "take" -> IF round[t] = 1 THEN 2 ELSE 4
    [] OTHER -> IF round[t] = 1 THEN 1 ELSE 4

\* The threads of a block have passed as many barriers.
Together == \A t, u \in Threads : t[1] = u[1] => Stage(t) = Stage(u)

SameWarp(t, u) == t[1] = u[1] /\ Wid(t) = Wid(u)

\* The lanes of a warp leave a shuffle together.
Lockstep ==
  \A t, u \in Threads : SameWarp(t, u) =>
    /\ pc[t] = "write" => pc[u] \in {"write", "sync"}
    /\ pc[t] \in {"atomic", "broadcast"} => pc[u] \notin {"read", "shuffle0"}

IInv == TypeOK /\ Together /\ Lockstep
-----------------------------------------------------------------------------
\* The lane and the warp of a thread determine it.
LEMMA DivMod ==
  ASSUME NEW n \in Nat \ {0}, NEW i \in Nat
  PROVE  /\ i \div n \in Nat /\ i % n \in 0 .. n - 1
         /\ i = n * (i \div n) + (i % n)
OBVIOUS

\* The indices below WarpSize are the lanes of the first warp.
LEMMA FirstWarp ==
  ASSUME NEW n \in Nat \ {0}, NEW i \in Nat
  PROVE  i < n => i \div n = 0 /\ i % n = i
<1>1. SUFFICES ASSUME i < n PROVE i \div n = 0 /\ i % n = i
OBVIOUS
<1>2. /\ i \div n \in Nat /\ i % n \in 0 .. n - 1
      /\ i = n * (i \div n) + (i % n)
  BY DivMod
<1>3. i \div n = 0
  <2>1. SUFFICES ASSUME i \div n >= 1 PROVE FALSE
    BY <1>2
  <2>2. n * (i \div n) >= n
    BY <1>2, <2>1
  <2> QED BY <1>1, <1>2, <2>2
<1> QED BY <1>2, <1>3

LEMMA ThreadsNat ==
  ASSUME launch \in Launches, NEW t \in Threads
  PROVE  /\ t[1] \in Blocks /\ t[2] \in Nat /\ t = <<t[1], t[2]>>
         /\ Wid(t) \in Nat /\ Lane(t) \in 0 .. WarpSize - 1
         /\ t[2] = WarpSize * Wid(t) + Lane(t)
         /\ t[2] = 0 => Wid(t) = 0
         /\ t[2] < NumWarps => Wid(t) = 0
<1>1. launch.block \in Nat /\ NumWarps \in 1 .. WarpSize /\ WarpSize \in Nat \ {0}
  BY BlockReduceAssumption DEF NumWarps
<1>2. t[1] \in Blocks /\ t[2] \in Nat /\ t = <<t[1], t[2]>>
  BY <1>1 DEF Threads, Indices
<1>3. /\ Wid(t) \in Nat /\ Lane(t) \in 0 .. WarpSize - 1
      /\ t[2] = WarpSize * Wid(t) + Lane(t)
  BY <1>1, <1>2, DivMod DEF Wid, Lane
<1>4. t[2] < WarpSize => Wid(t) = 0
  BY <1>1, <1>2, FirstWarp DEF Wid
<1> QED BY <1>1, <1>2, <1>3, <1>4

LEMMA InitInv == Init => IInv
<1>1. SUFFICES ASSUME Init PROVE IInv
  OBVIOUS
<1>2. TypeOK
  BY <1>1 DEF Init, TypeOK, Labels
<1>3. Together
  BY <1>1 DEF Init, Together, Stage
<1>4. Lockstep
  BY <1>1 DEF Init, Lockstep
<1> QED BY <1>2, <1>3, <1>4 DEF IInv

\* What TypeOK says of one thread.
LabelOK(t, label, r) ==
  /\ r = 2 => Softmax
  /\ label \in {"broadcast", "syncBroadcast", "take"} => Softmax
  /\ label = "atomic" => ~Softmax
  /\ label \in {"atomic", "broadcast"} => t[2] = 0
  /\ label = "write" => Lane(t) = 0
  /\ label = "shuffle0" => Wid(t) = 0

\* A step that moves one thread on, to a label that no shuffle or barrier leads
\* to, keeps the invariant if it passes no barrier.
LEMMA OneMoves ==
  ASSUME IInv, NEW t \in Threads, NEW label \in Labels, NEW r \in {1, 2},
         launch' = launch,
         pc' = [pc EXCEPT ![t] = label], round' = [round EXCEPT ![t] = r],
         LabelOK(t, label, r), Stage(t)' = Stage(t),
         label \notin {"write", "atomic", "broadcast"},
         pc[t] # "sync", pc[t] = "write" => label = "sync",
         label \in {"read", "shuffle0"} => pc[t] \in {"read", "shuffle0"}
  PROVE  IInv'
<1>1. Threads' = Threads /\ Softmax' = Softmax
  BY DEF Threads, Blocks, Indices, Softmax
<1>2. /\ pc \in [Threads -> Labels] /\ round \in [Threads -> {1, 2}]
      /\ launch \in Launches
  BY DEF IInv, TypeOK
<1>3. ASSUME NEW u \in Threads, u # t
      PROVE  pc'[u] = pc[u] /\ round'[u] = round[u]
  BY <1>2, <1>3
<1>4. pc'[t] = label /\ round'[t] = r
  BY <1>2
<1>5. TypeOK'
  <2>1. \A u \in Threads : LabelOK(u, pc'[u], round'[u])
    BY <1>3, <1>4 DEF IInv, TypeOK, LabelOK
  <2> QED BY <1>1, <1>2, <2>1 DEF TypeOK, LabelOK, Lane, Wid
<1>6. Together'
  <2>1. ASSUME NEW u \in Threads PROVE Stage(u)' = Stage(u)
    BY <1>3, <2>1 DEF Stage
  <2> QED BY <1>1, <2>1 DEF IInv, Together
<1>7. Lockstep'
  <2>1. SUFFICES ASSUME NEW u \in Threads, NEW v \in Threads, SameWarp(u, v)
                 PROVE  /\ pc'[u] = "write" => pc'[v] \in {"write", "sync"}
                        /\ pc'[u] \in {"atomic", "broadcast"}
                             => pc'[v] \notin {"read", "shuffle0"}
    BY <1>1 DEF Lockstep, SameWarp, Wid
  <2>2. /\ pc[u] = "write" => pc[v] \in {"write", "sync"}
        /\ pc[u] \in {"atomic", "broadcast"} => pc[v] \notin {"read", "shuffle0"}
    BY <2>1 DEF IInv, Lockstep
  <2>3. CASE u = t
    BY <1>4, <2>3
  <2>4. CASE u # t /\ v = t
    BY <1>3, <1>4, <2>2, <2>4
  <2>5. CASE u # t /\ v # t
    BY <1>3, <2>2, <2>5
  <2> QED BY <2>3, <2>4, <2>5
<1> QED BY <1>5, <1>6, <1>7 DEF IInv

LEMMA Unchanged ==
  ASSUME IInv, NEW t \in Threads, round' = round
  PROVE  round' = [round EXCEPT ![t] = round[t]] /\ round[t] \in {1, 2}
BY DEF IInv, TypeOK

\* Every step of one thread keeps the invariant.
LEMMA StepInv == ASSUME IInv, NEW t \in Threads, Step(t) PROVE IInv'
<1> USE DEF GoTo
<1>1. /\ pc \in [Threads -> Labels] /\ round[t] \in {1, 2}
      /\ launch \in Launches /\ LabelOK(t, pc[t], round[t])
  BY DEF IInv, TypeOK, LabelOK
<1>2. t[2] = 0 => Wid(t) = 0
  BY <1>1, ThreadsNat
<1>3. ASSUME NEW label \in Labels, NEW r \in {1, 2},
             pc' = [pc EXCEPT ![t] = label], round' = [round EXCEPT ![t] = r]
      PROVE  pc'[t] = label /\ round'[t] = r
  BY <1>1, <1>3 DEF IInv, TypeOK
<1>4. CASE Write(t)
  <2>1. pc' = [pc EXCEPT ![t] = "sync"] /\ round' = round /\ launch' = launch
    BY <1>4 DEF Write
  <2>2. round' = [round EXCEPT ![t] = round[t]] /\ "sync" \in Labels
    BY <2>1, Unchanged DEF Labels
  <2>3. Stage(t)' = Stage(t)
    BY <1>1, <1>3, <1>4, <2>1, <2>2 DEF Stage, Write
  <2> QED BY <1>1, <1>4, <2>1, <2>2, <2>3, OneMoves DEF Write, LabelOK
<1>5. CASE Read(t)
  <2> DEFINE label == IF Wid(t) = 0 THEN "shuffle0" ELSE AfterReduction(t)
  <2>1. pc[t] = "read" /\ pc' = [pc EXCEPT ![t] = label]
        /\ round' = round /\ launch' = launch
    BY <1>5 DEF Read
  <2>2. CASE Wid(t) = 0
    <3>1. label = "shuffle0" /\ label \in Labels
      BY <2>2 DEF Labels
    <3>2. round' = [round EXCEPT ![t] = round[t]]
      BY <2>1, Unchanged
    <3>3. Stage(t)' = Stage(t)
      BY <1>1, <1>3, <2>1, <3>1, <3>2 DEF Stage
    <3> HIDE DEF label
    <3> QED BY <1>1, <2>1, <2>2, <3>1, <3>2, <3>3, OneMoves DEF LabelOK
  <2>3. CASE Wid(t) # 0
    <3>1. label = (IF Softmax THEN "syncBroadcast" ELSE "done")
      BY <1>2, <2>3 DEF AfterReduction
    <3>2. round' = [round EXCEPT ![t] = round[t]] /\ label \in Labels
      BY <2>1, <3>1, Unchanged DEF Labels
    <3> HIDE DEF label
    <3>3. Stage(t)' = Stage(t)
      BY <1>1, <1>3, <2>1, <3>1, <3>2 DEF Stage, LabelOK
    <3> QED BY <1>1, <2>1, <3>1, <3>2, <3>3, OneMoves DEF LabelOK
  <2> QED BY <2>2, <2>3
<1>6. CASE Atomic(t)
  <2>1. pc[t] = "atomic" /\ pc' = [pc EXCEPT ![t] = "done"]
        /\ round' = round /\ launch' = launch
    BY <1>6 DEF Atomic
  <2>2. round' = [round EXCEPT ![t] = round[t]] /\ "done" \in Labels
    BY <2>1, Unchanged DEF Labels
  <2>3. Stage(t)' = Stage(t)
    BY <1>1, <1>3, <2>1, <2>2 DEF Stage, LabelOK
  <2> QED BY <1>1, <2>1, <2>2, <2>3, OneMoves DEF LabelOK
<1>7. CASE Broadcast(t)
  <2>1. pc[t] = "broadcast" /\ pc' = [pc EXCEPT ![t] = "syncBroadcast"]
        /\ round' = round /\ launch' = launch
    BY <1>7 DEF Broadcast
  <2>2. round' = [round EXCEPT ![t] = round[t]] /\ "syncBroadcast" \in Labels
    BY <2>1, Unchanged DEF Labels
  <2>3. Stage(t)' = Stage(t)
    BY <1>1, <1>3, <2>1, <2>2 DEF Stage, LabelOK
  <2> QED BY <1>1, <2>1, <2>2, <2>3, OneMoves DEF LabelOK
<1>8. CASE TakeMax(t)
  <2>1. pc[t] = "take" /\ round[t] = 1 /\ pc' = [pc EXCEPT ![t] = "shuffle"]
        /\ round' = [round EXCEPT ![t] = 2] /\ launch' = launch
    BY <1>8 DEF TakeMax
  <2>2. "shuffle" \in Labels /\ 2 \in {1, 2}
    BY DEF Labels
  <2>3. Stage(t)' = Stage(t)
    <3>1. pc'[t] = "shuffle" /\ round'[t] = 2
      BY <1>3, <2>1, <2>2
    <3> QED BY <2>1, <3>1 DEF Stage
  <2> QED BY <1>1, <2>1, <2>2, <2>3, OneMoves DEF LabelOK
<1>9. CASE TakeSum(t)
  <2>1. pc[t] = "take" /\ round[t] = 2 /\ pc' = [pc EXCEPT ![t] = "done"]
        /\ round' = round /\ launch' = launch
    BY <1>9 DEF TakeSum
  <2>2. round' = [round EXCEPT ![t] = round[t]] /\ "done" \in Labels
    BY <2>1, Unchanged DEF Labels
  <2>3. Stage(t)' = Stage(t)
    BY <1>1, <1>3, <2>1, <2>2 DEF Stage
  <2> QED BY <1>1, <2>1, <2>2, <2>3, OneMoves DEF LabelOK
<1> QED BY <1>4, <1>5, <1>6, <1>7, <1>8, <1>9 DEF Step
-----------------------------------------------------------------------------
\* A step that moves whole warps on together keeps the invariant if it keeps the
\* threads of every block at one stage.
LEMMA ManyMove ==
  ASSUME IInv, NEW S \in SUBSET Threads, NEW next \in [S -> Labels],
         launch' = launch, round' = round,
         pc' = [t \in Threads |-> IF t \in S THEN next[t] ELSE pc[t]],
         \A t \in S : LabelOK(t, next[t], round[t]),
         \A t, u \in Threads : t \in S /\ SameWarp(t, u) => u \in S,
         Together',
         \A t, u \in S :
           /\ next[t] = "write" => next[u] \in {"write", "sync"}
           /\ next[t] \in {"atomic", "broadcast"} => next[u] \notin {"read", "shuffle0"}
  PROVE  IInv'
<1>1. Threads' = Threads /\ Softmax' = Softmax
  BY DEF Threads, Blocks, Indices, Softmax
<1>2. \A t \in Threads : pc'[t] = IF t \in S THEN next[t] ELSE pc[t]
  OBVIOUS
<1>3. TypeOK'
  <2>1. \A u \in Threads : LabelOK(u, pc'[u], round'[u])
    BY <1>2 DEF IInv, TypeOK, LabelOK
  <2>2. pc' \in [Threads -> Labels]
    BY DEF IInv, TypeOK
  <2> QED BY <1>1, <2>1, <2>2 DEF IInv, TypeOK, LabelOK, Lane, Wid
<1>4. Lockstep'
  <2>1. SUFFICES ASSUME NEW u \in Threads, NEW v \in Threads, SameWarp(u, v)
                 PROVE  /\ pc'[u] = "write" => pc'[v] \in {"write", "sync"}
                        /\ pc'[u] \in {"atomic", "broadcast"}
                             => pc'[v] \notin {"read", "shuffle0"}
    BY <1>1 DEF Lockstep, SameWarp, Wid
  <2>2. SameWarp(v, u)
    BY <2>1 DEF SameWarp
  <2>3. CASE u \in S
    BY <1>2, <2>1, <2>3
  <2>4. CASE u \notin S
    <3>1. v \notin S
      BY <2>1, <2>2, <2>4
    <3> QED BY <1>2, <2>1, <2>4, <3>1 DEF IInv, Lockstep
  <2> QED BY <2>3, <2>4
<1> QED BY <1>3, <1>4 DEF IInv

\* The lanes of a warp go through a shuffle together.
LEMMA WarpInv ==
  ASSUME IInv, NEW b \in Blocks, NEW w \in Warps, NEW r \in {1, 2},
         Shuffle(b, w, r) \/ (w = 0 /\ ShuffleFirst(b, r))
  PROVE  IInv'
<1> DEFINE S == WarpOf(b, w)
           next == IF Shuffle(b, w, r)
                   THEN [t \in S |-> IF Lane(t) = 0 THEN "write" ELSE "sync"]
                   ELSE [t \in S |-> AfterReduction(t)]
<1>1. /\ S \in SUBSET Threads
      /\ \A t, u \in Threads : t \in S /\ SameWarp(t, u) => u \in S
  BY DEF WarpOf, SameWarp
<1>2. /\ \/ \A t \in S : pc[t] = "shuffle" /\ round[t] = r
         \/ w = 0 /\ \A t \in S : pc[t] = "shuffle0" /\ round[t] = r
      /\ launch' = launch /\ round' = round
      /\ pc' = [t \in Threads |-> IF t \in S THEN next[t] ELSE pc[t]]
  BY DEF Shuffle, ShuffleFirst, Reduce
<1>3. ASSUME NEW t \in S
      PROVE  /\ next[t] \in Labels /\ LabelOK(t, next[t], round[t])
             /\ \/ pc[t] = "shuffle" /\ next[t] \in {"write", "sync"}
                \/ /\ pc[t] = "shuffle0"
                   /\ next[t] \in {"atomic", "broadcast", "syncBroadcast", "done"}
                   /\ next[t] = "done" => round[t] = 1
  <2>1. t \in Threads /\ LabelOK(t, pc[t], round[t]) /\ round[t] \in {1, 2}
    BY <1>1 DEF IInv, TypeOK, LabelOK
  <2>2. CASE Shuffle(b, w, r)
    BY <2>1, <2>2 DEF Shuffle, LabelOK, Labels
  <2>3. CASE ~Shuffle(b, w, r)
    <3>1. pc[t] = "shuffle0" /\ next[t] = AfterReduction(t)
      BY <2>3 DEF ShuffleFirst
    <3> QED BY <2>1, <3>1 DEF AfterReduction, LabelOK, Labels
  <2> QED BY <2>2, <2>3
<1>4. next \in [S -> Labels]
  BY <1>3
<1> HIDE DEF next
<1>5. \A t \in Threads : Stage(t)' = Stage(t)
  <2>1. SUFFICES ASSUME NEW t \in Threads PROVE Stage(t)' = Stage(t)
    OBVIOUS
  <2>2. pc'[t] = (IF t \in S THEN next[t] ELSE pc[t]) /\ round'[t] = round[t]
    BY <1>2
  <2>3. CASE t \in S
    <3>1. /\ pc'[t] = next[t] /\ round[t] \in {1, 2}
      BY <2>2, <2>3 DEF IInv, TypeOK
    <3> HIDE DEF S
    <3> QED BY <1>3, <2>2, <2>3, <3>1 DEF Stage
  <2>4. CASE t \notin S
    BY <2>2, <2>4 DEF Stage
  <2> QED BY <2>3, <2>4
<1>6. Threads' = Threads
  BY <1>2 DEF Threads, Blocks, Indices
<1>7. Together'
  BY <1>5, <1>6 DEF IInv, Together
<1>8. \A t, u \in S :
        /\ next[t] = "write" => next[u] \in {"write", "sync"}
        /\ next[t] \in {"atomic", "broadcast"} => next[u] \notin {"read", "shuffle0"}
  <2> HIDE DEF S
  <2>1. SUFFICES ASSUME NEW t \in S, NEW u \in S
                 PROVE  /\ next[t] = "write" => next[u] \in {"write", "sync"}
                        /\ next[t] \in {"atomic", "broadcast"}
                             => next[u] \notin {"read", "shuffle0"}
    OBVIOUS
  <2>2. pc[t] = pc[u]
    BY <1>2
  <2> QED BY <1>3, <2>2
<1> HIDE DEF S
<1> QED BY <1>1, <1>2, <1>3, <1>4, <1>7, <1>8, ManyMove

\* A block passes a barrier as a whole.
LEMMA BarrierInv ==
  ASSUME IInv, NEW b \in Blocks, NEW from, NEW to, Barrier(b, from, to),
         \/ from = "sync" /\ to = "read"
         \/ from = "syncBroadcast" /\ to = "take"
  PROVE  IInv'
<1> DEFINE S == BlockOf(b)
           next == [t \in S |-> to]
<1>1. /\ S \in SUBSET Threads
      /\ \A t, u \in Threads : t \in S /\ t[1] = u[1] => u \in S
  BY DEF BlockOf
<1>2. /\ \A t \in S : pc[t] = from
      /\ launch' = launch /\ round' = round
      /\ pc' = [t \in Threads |-> IF t \in S THEN next[t] ELSE pc[t]]
  BY DEF Barrier, BlockOf
<1>3. /\ next \in [S -> Labels] /\ \A t \in S : next[t] = to
  BY DEF Labels
<1>4. \A t \in S : LabelOK(t, next[t], round[t])
  BY <1>1, <1>2, <1>3 DEF IInv, TypeOK, LabelOK
<1> HIDE DEF next, S
<1>5. Threads' = Threads
  BY <1>2 DEF Threads, Blocks, Indices
<1>6. Together'
  <2>1. SUFFICES ASSUME NEW t \in Threads, NEW u \in Threads, t[1] = u[1]
                 PROVE  Stage(t)' = Stage(u)'
    BY <1>5 DEF Together
  <2>2. Stage(t) = Stage(u) /\ round[t] \in {1, 2} /\ round[u] \in {1, 2}
    BY <2>1 DEF IInv, Together, TypeOK
  <2>3. \A v \in Threads : pc'[v] = (IF v \in S THEN to ELSE pc[v])
    BY <1>2, <1>3
  <2>4. CASE t \in S
    <3>1. u \in S
      BY <1>1, <2>1, <2>4
    <3>2. round[t] = round[u]
      BY <1>2, <2>2, <2>4, <3>1 DEF Stage
    <3> QED BY <1>2, <2>3, <2>4, <3>1, <3>2 DEF Stage
  <2>5. CASE t \notin S
    <3>1. u \notin S
      BY <1>1, <2>1, <2>5
    <3> QED BY <1>2, <2>2, <2>3, <2>5, <3>1 DEF Stage
  <2> QED BY <2>4, <2>5
<1> QED BY <1>1, <1>2, <1>3, <1>4, <1>6, ManyMove DEF SameWarp
-----------------------------------------------------------------------------
LEMMA NextInv == IInv /\ [Next]_vars => IInv'
<1>1. SUFFICES ASSUME IInv, [Next]_vars PROVE IInv'
  OBVIOUS
<1>2. ASSUME NEW t \in Threads, Step(t) PROVE IInv'
  BY <1>1, <1>2, StepInv
<1>3. ASSUME NEW b \in Blocks, Meet(b) PROVE IInv'
  <2>1. ASSUME NEW r \in {1, 2}, NEW w \in Warps, Shuffle(b, w, r) PROVE IInv'
    BY <1>1, <1>3, <2>1, WarpInv
  <2>2. ASSUME NEW r \in {1, 2}, ShuffleFirst(b, r) PROVE IInv'
    <3>1. launch.block \in Nat \ {0} /\ WarpSize \in Nat \ {0}
      BY <1>1, BlockReduceAssumption DEF IInv, TypeOK
    <3>2. 0 \in Indices /\ 0 \div WarpSize = 0
      BY <3>1, FirstWarp DEF Indices
    <3>3. 0 \in Warps
      BY <3>2 DEF Warps
    <3> QED BY <1>1, <1>3, <2>2, <3>3, WarpInv
  <2>3. CASE Barrier(b, "sync", "read")
    BY <1>1, <1>3, <2>3, BarrierInv
  <2>4. CASE Barrier(b, "syncBroadcast", "take")
    BY <1>1, <1>3, <2>4, BarrierInv
  <2> QED BY <1>3, <2>1, <2>2, <2>3, <2>4 DEF Meet
<1>4. CASE UNCHANGED vars
  <2>1. TypeOK'
    BY <1>1, <1>4 DEF IInv, TypeOK, vars, Threads, Blocks, Indices, Softmax, Lane, Wid
  <2>2. Together'
    BY <1>1, <1>4 DEF IInv, Together, Stage, vars, Threads, Blocks, Indices
  <2>3. Lockstep'
    BY <1>1, <1>4 DEF IInv, Lockstep, SameWarp, Wid, vars, Threads, Blocks, Indices
  <2> QED BY <2>1, <2>2, <2>3 DEF IInv
<1> QED BY <1>1, <1>2, <1>3, <1>4 DEF Next

\* The inductive invariant holds.
LEMMA Invariance == Spec => []IInv
BY InitInv, NextInv, PTL DEF Spec

\* The labels and rounds of threads are consistent, whatever the warp size, the
\* grid, the block and the input: thread 0 alone delivers the block's result.
THEOREM TypeCorrectness == Spec => []TypeOK
BY Invariance, PTL DEF IInv

LEMMA RacesExcluded == IInv => RacesInSoftmaxOnly
<1>1. SUFFICES ASSUME IInv, NEW t \in Threads, NEW u \in Threads, Race(t, u)
               PROVE  /\ Softmax
                      /\ t[2] = 0 /\ pc[t] = "write" /\ round[t] = 2
                      /\ Wid(u) # 0 /\ pc[u] = "take" /\ round[u] = 1
  BY DEF RacesInSoftmaxOnly
<1>2. /\ Stage(t) = Stage(u) /\ round[t] \in {1, 2} /\ round[u] \in {1, 2}
      /\ launch \in Launches
      /\ LabelOK(t, pc[t], round[t]) /\ LabelOK(u, pc[u], round[u])
  BY <1>1 DEF IInv, TypeOK, Together, Race, LabelOK
<1>3. WarpSize \in Nat \ {0}
  BY BlockReduceAssumption
<1>4. /\ t[1] = u[1] /\ t # u
      /\ Writing(t) \cap (Writing(u) \cup Reading(u)) # {}
  BY <1>1 DEF Race
<1>5. \/ pc[u] = "write" /\ Writing(u) \cup Reading(u) = {Wid(u)}
      \/ pc[u] \in {"broadcast", "take"} /\ Writing(u) \cup Reading(u) = {0}
      \/ pc[u] = "read" /\ u[2] < NumWarps
  BY <1>4 DEF Writing, Reading, ReadsWarp
<1>6. CASE pc[t] = "write"
  <2>1. Writing(t) = {Wid(t)} /\ Lane(t) = 0
    BY <1>2, <1>6 DEF Writing, LabelOK
  <2>2. pc[u] # "read" /\ pc[u] # "broadcast"
    BY <1>2, <1>6 DEF Stage
  <2>3. pc[u] # "write"
    <3>1. SUFFICES ASSUME pc[u] = "write" PROVE FALSE
      OBVIOUS
    <3>2. Wid(t) = Wid(u) /\ Lane(u) = 0
      BY <1>2, <1>4, <1>5, <2>1, <3>1 DEF LabelOK
    <3>3. t[2] = u[2]
      BY <1>2, <2>1, <3>2, ThreadsNat
    <3> QED BY <1>2, <1>4, <3>3, ThreadsNat
  <2>4. pc[u] = "take" /\ Wid(t) = 0
    BY <1>4, <1>5, <2>1, <2>2, <2>3
  <2>5. Wid(u) # 0
    BY <1>1, <1>4, <1>6, <2>4 DEF IInv, Lockstep, SameWarp
  <2>6. round[t] = 2 /\ round[u] = 1
    BY <1>2, <1>6, <2>4 DEF Stage
  <2>7. t[2] = 0
    BY <1>2, <1>3, <2>1, <2>4, ThreadsNat
  <2> QED BY <1>2, <1>6, <2>4, <2>5, <2>6, <2>7 DEF LabelOK
<1>7. CASE pc[t] = "broadcast"
  <2>1. Writing(t) = {0} /\ t[2] = 0 /\ Wid(t) = 0
    BY <1>2, <1>7, ThreadsNat DEF Writing, LabelOK
  <2>2. pc[u] # "write" /\ pc[u] # "take"
    BY <1>2, <1>7 DEF Stage
  <2>3. pc[u] # "broadcast"
    BY <1>2, <1>4, <2>1, ThreadsNat DEF LabelOK
  <2>4. pc[u] = "read" /\ Wid(u) = 0
    BY <1>2, <1>5, <2>2, <2>3, ThreadsNat
  <2> QED BY <1>1, <1>4, <1>7, <2>1, <2>4 DEF IInv, Lockstep, SameWarp
<1>8. pc[t] \in {"write", "broadcast"}
  BY <1>4 DEF Writing
<1> QED BY <1>6, <1>7, <1>8

\* The barriers of the block reductions separate every pair of conflicting
\* accesses to shared memory, but for the one of softmax, for all sizes.
THEOREM RaceFreedom == Spec => []RacesInSoftmaxOnly
BY Invariance, RacesExcluded, PTL

LEMMA LeastElement ==
  ASSUME NEW T \in SUBSET Nat, T # {}
  PROVE  \E x \in T : \A y \in T : x <= y
<1> DEFINE Less == {ss \in Nat \X Nat : ss[1] < ss[2]}
<1>1. IsWellFoundedOn(Less, Nat)
  BY ONLY NatLessThanWellFounded DEF OpToRel
<1> HIDE DEF Less
<1>2. PICK x \in T : \A y \in T : ~(<<y, x>> \in Less)
  BY <1>1, WFMin
<1>3. \A y \in T : ~(y < x)
  BY <1>2 DEF Less
<1> QED BY <1>2, <1>3

\* Upwards from 0.
LEMMA Upwards ==
  ASSUME NEW n \in Nat, NEW T, 0 \in T, \A i \in 0 .. n - 1 : i \in T => i + 1 \in T
  PROVE  0 .. n \subseteq T
<1> SUFFICES ASSUME (0 .. n) \ T # {} PROVE FALSE
  OBVIOUS
<1> DEFINE U == (0 .. n) \ T
<1>0. U \in SUBSET Nat /\ U # {}
  OBVIOUS
<1> HIDE DEF U
<1>1. PICK x \in U : \A y \in U : x <= y
  BY <1>0, LeastElement
<1> USE DEF U
<1>2. x - 1 \in 0 .. n - 1
  BY <1>1
<1>3. x - 1 \in T
  BY <1>1, <1>2
<1> QED BY <1>1, <1>2, <1>3

\* Among subsets of a finite set, one that contains no other.
LEMMA SmallestSet ==
  ASSUME NEW C, IsFiniteSet(C), NEW F \in SUBSET (SUBSET C), F # {}
  PROVE  \E s \in F : \A u \in F : u \subseteq s => u = s
<1>1. IsWellFoundedOn(StrictSubsetOrdering(C), SUBSET C)
  BY FS_StrictSubsetOrderingWellFounded, FS_FiniteSubsetsOfFinite
<1>2. PICK s \in F : \A u \in F : ~(<<u, s>> \in StrictSubsetOrdering(C))
  BY <1>1, WFMin
<1>3. ASSUME NEW u \in F, u \subseteq s PROVE u = s
  <2>1. <<u, s>> \in (SUBSET C) \X (SUBSET C)
    BY <1>2
  <2> QED BY <1>2, <1>3, <2>1 DEF StrictSubsetOrdering
<1> QED BY <1>2, <1>3

\* One element after the other makes any subset.
LEMMA SetsGrow ==
  ASSUME NEW C, IsFiniteSet(C), NEW F, {} \in F,
         \A s \in SUBSET C : \A x \in C \ s : s \in F => s \cup {x} \in F
  PROVE  SUBSET C \subseteq F
<1> DEFINE D == (SUBSET C) \ F
<1> SUFFICES ASSUME D # {} PROVE FALSE
  OBVIOUS
<1>1. PICK s \in D : \A u \in D : u \subseteq s => u = s
  <2>1. D \in SUBSET (SUBSET C)
    OBVIOUS
  <2> HIDE DEF D
  <2> QED BY <2>1, SmallestSet
<1>2. PICK x \in s : TRUE
  BY <1>1
<1>3. s \ {x} \in SUBSET C /\ x \in C \ (s \ {x}) /\ s = (s \ {x}) \cup {x}
  BY <1>1, <1>2
<1>4. s \ {x} \in F
  BY <1>1, <1>2, <1>3
<1> QED BY <1>1, <1>3, <1>4

Any(s) == CHOOSE x \in s : TRUE

\* g is the function that SumFunctionOnSet defines by recursion.
IsSums(g, f, C) ==
  g = [s \in SUBSET C |-> IF s = {} THEN 0 ELSE f[Any(s)] + g[s \ {Any(s)}]]

\* g sums f over the subsets of C as SumFunctionOnSet does.
Sums(g, f, C) ==
  \A s \in SUBSET C : g[s] = IF s = {} THEN 0 ELSE f[Any(s)] + g[s \ {Any(s)}]

LEMMA AnyIn == ASSUME NEW s, s # {} PROVE Any(s) \in s
BY DEF Any

LEMMA SumsExist ==
  ASSUME NEW C, IsFiniteSet(C), NEW f
  PROVE  \E g : IsSums(g, f, C)
<1> DEFINE Upto(n, g) ==
             \A s \in SUBSET C : Cardinality(s) <= n =>
               g[s] = IF s = {} THEN 0 ELSE f[Any(s)] + g[s \ {Any(s)}]
           T == {n \in Nat : \E g : Upto(n, g)}
<1>0. ASSUME NEW s \in SUBSET C
      PROVE  /\ Cardinality(s) \in Nat /\ Cardinality(s) <= Cardinality(C)
             /\ Cardinality(s) = 0 => s = {}
             /\ s # {} => /\ s \ {Any(s)} \in SUBSET C
                          /\ Cardinality(s \ {Any(s)}) = Cardinality(s) - 1
  <2>1. IsFiniteSet(s) /\ Cardinality(s) <= Cardinality(C)
    BY FS_Subset
  <2>2. Cardinality(s) \in Nat /\ (Cardinality(s) = 0 => s = {})
    BY <2>1, FS_CardinalityType, FS_EmptySet
  <2>3. ASSUME s # {} PROVE Cardinality(s \ {Any(s)}) = Cardinality(s) - 1
    BY <2>1, <2>3, AnyIn, FS_RemoveElement
  <2> QED BY <2>1, <2>2, <2>3
<1>1. 0 \in T
  <2> DEFINE zero == [s \in SUBSET C |-> 0]
  <2>0. \A s \in SUBSET C : zero[s] = 0
    OBVIOUS
  <2> HIDE DEF zero
  <2>1. Upto(0, zero)
    <3> SUFFICES ASSUME NEW s \in SUBSET C, Cardinality(s) <= 0
                 PROVE  zero[s] = IF s = {} THEN 0 ELSE f[Any(s)] + zero[s \ {Any(s)}]
      OBVIOUS
    <3>1. s = {}
      <4>1. Cardinality(s) \in Nat /\ (Cardinality(s) = 0 => s = {})
        BY <1>0, Zenon
      <4> QED BY <4>1
    <3> QED BY <2>0, <3>1
  <2> HIDE DEF Upto
  <2> QED BY <2>1
<1>2. ASSUME NEW n \in Nat, n \in T PROVE n + 1 \in T
  <2>1. PICK g : Upto(n, g)
    BY <1>2
  <2> DEFINE h == [s \in SUBSET C |-> IF Cardinality(s) <= n THEN g[s]
                                      ELSE f[Any(s)] + g[s \ {Any(s)}]]
  <2>2. Upto(n + 1, h)
    <3> SUFFICES ASSUME NEW s \in SUBSET C, Cardinality(s) <= n + 1
                 PROVE  h[s] = IF s = {} THEN 0 ELSE f[Any(s)] + h[s \ {Any(s)}]
      OBVIOUS
    <3>1. CASE s = {}
      <4>1. Cardinality(s) = 0
        BY <3>1, FS_EmptySet
      <4>2. Cardinality(s) <= n /\ g[s] = 0
        BY <2>1, <3>1, <4>1
      <4>3. h[s] = g[s]
        BY <4>2
      <4> HIDE DEF h
      <4> QED BY <3>1, <4>2, <4>3
    <3>2. CASE s # {}
      <4>1. s \ {Any(s)} \in SUBSET C /\ Cardinality(s \ {Any(s)}) <= n
        BY <1>0, <3>2
      <4>2. h[s \ {Any(s)}] = g[s \ {Any(s)}]
        BY <4>1
      <4>3. CASE Cardinality(s) <= n
        <5>1. h[s] = g[s]
          BY <4>3
        <5>2. g[s] = f[Any(s)] + g[s \ {Any(s)}]
          BY <2>1, <3>2, <4>3
        <5> HIDE DEF h
        <5> QED BY <3>2, <4>2, <5>1, <5>2
      <4>4. CASE ~(Cardinality(s) <= n)
        <5>1. h[s] = f[Any(s)] + g[s \ {Any(s)}]
          BY <4>4
        <5> HIDE DEF h
        <5> QED BY <3>2, <4>2, <5>1
      <4> QED BY <4>3, <4>4
    <3> QED BY <3>1, <3>2
  <2> HIDE DEF Upto, h
  <2> QED BY <2>2
<1>3. Cardinality(C) \in T
  <2>1. Cardinality(C) \in Nat
    BY FS_CardinalityType
  <2> HIDE DEF T
  <2>2. 0 .. Cardinality(C) \subseteq T
    BY <1>1, <1>2, <2>1, Upwards
  <2> QED BY <2>1, <2>2
<1>4. PICK g : Upto(Cardinality(C), g)
  BY <1>3
<1> DEFINE h == [s \in SUBSET C |-> g[s]]
<1>5. ASSUME NEW s \in SUBSET C
      PROVE  h[s] = IF s = {} THEN 0 ELSE f[Any(s)] + h[s \ {Any(s)}]
  <2>1. g[s] = IF s = {} THEN 0 ELSE f[Any(s)] + g[s \ {Any(s)}]
    BY <1>0, <1>4
  <2>2. s \ {Any(s)} \in SUBSET C
    OBVIOUS
  <2> QED BY <2>1, <2>2
<1>6. h = [s \in SUBSET C |-> IF s = {} THEN 0 ELSE f[Any(s)] + h[s \ {Any(s)}]]
  BY <1>5
<1> HIDE DEF h
<1> QED BY <1>6 DEF IsSums

\* Two that do agree.
LEMMA SumsAgree ==
  ASSUME NEW C, IsFiniteSet(C), NEW f, NEW g, NEW h, Sums(g, f, C), Sums(h, f, C)
  PROVE  \A s \in SUBSET C : g[s] = h[s]
<1> DEFINE F == {s \in SUBSET C : g[s] # h[s]}
<1> SUFFICES ASSUME F # {} PROVE FALSE
  OBVIOUS
<1>1. PICK s \in F : \A u \in F : u \subseteq s => u = s
  <2>1. F \in SUBSET (SUBSET C)
    OBVIOUS
  <2> HIDE DEF F
  <2> QED BY <2>1, SmallestSet
<1>2. s \in SUBSET C /\ g[s] # h[s]
  OBVIOUS
<1>3. s # {}
  BY <1>2 DEF Sums
<1>4. Any(s) \in s /\ s \ {Any(s)} \in SUBSET C /\ s \ {Any(s)} \subseteq s
  BY <1>2, <1>3, AnyIn
<1>5. s \ {Any(s)} # s
  BY <1>4
<1>6. g[s \ {Any(s)}] = h[s \ {Any(s)}]
  BY <1>1, <1>4, <1>5
<1> QED BY <1>2, <1>3, <1>6 DEF Sums

LEMMA SumIs ==
  ASSUME NEW C, IsFiniteSet(C), NEW f
  PROVE  \E g : Sums(g, f, C) /\ SumFunctionOnSet(f, C) = g[C]
<1> DEFINE g == CHOOSE g : IsSums(g, f, C)
<1>1. SumFunctionOnSet(f, C) = g[C]
  BY DEF SumFunctionOnSet, FoldFunctionOnSet, MapThenFoldSet, Any, IsSums
<1>2. IsSums(g, f, C)
  BY SumsExist
<1>3. Sums(g, f, C)
  <2> HIDE DEF g
  <2> QED BY <1>2 DEF Sums, IsSums
<1> QED BY <1>1, <1>3

LEMMA SumStep ==
  ASSUME NEW C, IsFiniteSet(C), NEW f
  PROVE  SumFunctionOnSet(f, C) =
           IF C = {} THEN 0 ELSE f[Any(C)] + SumFunctionOnSet(f, C \ {Any(C)})
<1> DEFINE D == C \ {Any(C)}
<1>1. PICK g : Sums(g, f, C) /\ SumFunctionOnSet(f, C) = g[C]
  BY SumIs
<1>2. IsFiniteSet(D)
  BY FS_Subset
<1>3. PICK h : Sums(h, f, D) /\ SumFunctionOnSet(f, D) = h[D]
  BY <1>2, SumIs
<1>4. Sums(g, f, D)
  BY <1>1 DEF Sums
<1>5. g[D] = h[D]
  <2> HIDE DEF D
  <2> QED BY <1>2, <1>3, <1>4, SumsAgree
<1> QED BY <1>1, <1>3, <1>5 DEF Sums

LEMMA SumRemove ==
  ASSUME NEW C, IsFiniteSet(C), NEW f, \A c \in C : f[c] \in Int
  PROVE  \A s \in SUBSET C :
           /\ SumFunctionOnSet(f, s) \in Int
           /\ \A x \in s : SumFunctionOnSet(f, s) = f[x] + SumFunctionOnSet(f, s \ {x})
<1> DEFINE Good(s) == /\ SumFunctionOnSet(f, s) \in Int
                      /\ \A x \in s :
                           SumFunctionOnSet(f, s) = f[x] + SumFunctionOnSet(f, s \ {x})
           F == {s \in SUBSET C : ~Good(s)}
<1> SUFFICES ASSUME F # {} PROVE FALSE
  OBVIOUS
<1>1. PICK s \in F : \A u \in F : u \subseteq s => u = s
  <2>1. F \in SUBSET (SUBSET C)
    OBVIOUS
  <2> HIDE DEF F
  <2> QED BY <2>1, SmallestSet
<1>2. s \in SUBSET C /\ ~Good(s) /\ IsFiniteSet(s)
  BY FS_Subset
<1>3. ASSUME NEW x \in s PROVE Good(s \ {x})
  <2>1. s \ {x} \in SUBSET C /\ s \ {x} \subseteq s /\ s \ {x} # s
    BY <1>2
  <2> HIDE DEF Good
  <2> QED BY <1>1, <2>1
<1>4. CASE s = {}
  BY <1>2, <1>4, SumStep
<1>5. CASE s # {}
  <2> DEFINE a == Any(s)
             S(u) == SumFunctionOnSet(f, u)
  <2>1. a \in s /\ S(s) = f[a] + S(s \ {a}) /\ f[a] \in Int
    BY <1>2, <1>5, AnyIn, SumStep
  <2>0. ASSUME NEW x \in s
        PROVE  /\ S(s \ {x}) \in Int
               /\ \A y \in s \ {x} : S(s \ {x}) = f[y] + S((s \ {x}) \ {y})
    BY <1>3
  <2>2. S(s \ {a}) \in Int
    BY <2>0, <2>1
  <2>3. ASSUME NEW x \in s, x # a PROVE S(s) = f[x] + S(s \ {x})
    <3>1. (s \ {a}) \ {x} = (s \ {x}) \ {a} /\ x \in s \ {a} /\ a \in s \ {x}
      BY <2>1, <2>3
    <3> DEFINE rest == S((s \ {x}) \ {a})
    <3>2. S(s \ {a}) = f[x] + rest
      <4>1. S(s \ {a}) = f[x] + S((s \ {a}) \ {x})
        BY <2>0, <2>1, <3>1, Zenon
      <4> QED BY <3>1, <4>1, Zenon
    <3>3. S(s \ {x}) = f[a] + rest /\ S(s \ {x}) \in Int
      BY <2>0, <3>1, Zenon
    <3>4. rest \in Int
      <4>1. Good((s \ {x}) \ {a})
        <5>1. (s \ {x}) \ {a} \in SUBSET C /\ (s \ {x}) \ {a} \subseteq s /\ (s \ {x}) \ {a} # s
          BY <1>2, <2>1
        <5> HIDE DEF Good
        <5> QED BY <1>1, <5>1
      <4> QED BY <4>1
    <3>5. f[x] \in Int
      BY <1>2
    <3> HIDE DEF S, a, rest
    <3> QED BY <2>1, <3>2, <3>3, <3>4, <3>5
  <2> HIDE DEF S
  <2>4. S(s) \in Int
    BY <2>1, <2>2
  <2>5. \A x \in s : S(s) = f[x] + S(s \ {x})
    BY <2>1, <2>3
  <2> QED BY <1>2, <2>4, <2>5 DEF S
<1> QED BY <1>4, <1>5

\* The sum of no elements, and of one element more.
LEMMA SumInsert ==
  ASSUME NEW C, IsFiniteSet(C), NEW f, \A c \in C : f[c] \in Int
  PROVE  /\ SumFunctionOnSet(f, {}) = 0
         /\ \A s \in SUBSET C :
              /\ SumFunctionOnSet(f, s) \in Int
              /\ \A x \in C \ s :
                   SumFunctionOnSet(f, s \cup {x}) = f[x] + SumFunctionOnSet(f, s)
<1>1. SumFunctionOnSet(f, {}) = 0
  BY FS_EmptySet, SumStep
<1>2. ASSUME NEW s \in SUBSET C
      PROVE  /\ SumFunctionOnSet(f, s) \in Int
             /\ \A x \in C \ s :
                  SumFunctionOnSet(f, s \cup {x}) = f[x] + SumFunctionOnSet(f, s)
  <2>1. SumFunctionOnSet(f, s) \in Int
    BY SumRemove
  <2>2. ASSUME NEW x \in C \ s
        PROVE  SumFunctionOnSet(f, s \cup {x}) = f[x] + SumFunctionOnSet(f, s)
    <3>1. s \cup {x} \in SUBSET C /\ x \in s \cup {x} /\ (s \cup {x}) \ {x} = s
      OBVIOUS
    <3>2. SumFunctionOnSet(f, s \cup {x}) = f[x] + SumFunctionOnSet(f, (s \cup {x}) \ {x})
      BY <3>1, SumRemove
    <3> QED BY <3>1, <3>2
  <2> QED BY <2>1, <2>2
<1> QED BY <1>1, <1>2

\* Whatever grows as a sum does is the sum.
LEMMA SumUnique ==
  ASSUME NEW C, IsFiniteSet(C), NEW f, \A c \in C : f[c] \in Int, NEW G, G[{}] = 0,
         \A s \in SUBSET C : \A x \in C \ s : G[s \cup {x}] = f[x] + G[s]
  PROVE  G[C] = SumFunctionOnSet(f, C)
<1> DEFINE F == {s \in SUBSET C : G[s] = SumFunctionOnSet(f, s)}
<1>1. {} \in F
  BY SumInsert
<1>2. ASSUME NEW s \in SUBSET C, NEW x \in C \ s, s \in F PROVE s \cup {x} \in F
  <2>1. s \cup {x} \in SUBSET C
    OBVIOUS
  <2>2. SumFunctionOnSet(f, s \cup {x}) = f[x] + SumFunctionOnSet(f, s)
    BY SumInsert
  <2> QED BY <1>2, <2>1, <2>2
<1> HIDE DEF F
<1>3. SUBSET C \subseteq F
  BY <1>1, <1>2, SetsGrow
<1> QED BY <1>3 DEF F

LEMMA SumUnion ==
  ASSUME NEW C, IsFiniteSet(C), NEW f, \A c \in C : f[c] \in Int,
         NEW A \in SUBSET C, NEW B \in SUBSET C, A \cap B = {}
  PROVE  SumFunctionOnSet(f, A \cup B) = SumFunctionOnSet(f, A) + SumFunctionOnSet(f, B)
<1> DEFINE S(u) == SumFunctionOnSet(f, u)
           G == [s \in SUBSET A |-> S(s \cup B) - S(B)]
<1>1. \A u \in SUBSET C :
        S(u) \in Int /\ \A x \in C \ u : S(u \cup {x}) = f[x] + S(u)
  BY SumInsert, Zenon
<1>2. G[{}] = 0
  <2>1. S({} \cup B) = S(B) /\ S(B) \in Int
    BY <1>1
  <2> HIDE DEF S
  <2> QED BY <2>1
<1>3. ASSUME NEW s \in SUBSET A, NEW x \in A \ s PROVE G[s \cup {x}] = f[x] + G[s]
  <2>1. /\ s \cup B \in SUBSET C /\ x \in C \ (s \cup B) /\ f[x] \in Int
        /\ (s \cup {x}) \cup B = (s \cup B) \cup {x} /\ s \cup {x} \in SUBSET A
    OBVIOUS
  <2>2. S((s \cup B) \cup {x}) = f[x] + S(s \cup B)
    <3> HIDE DEF S
    <3> QED BY <1>1, <2>1
  <2>3. S(s \cup B) \in Int /\ S(B) \in Int
    BY <1>1, <2>1
  <2> HIDE DEF S
  <2>4. G[s \cup {x}] = S((s \cup B) \cup {x}) - S(B)
    BY <2>1
  <2>5. G[s] = S(s \cup B) - S(B)
    OBVIOUS
  <2> HIDE DEF G
  <2> QED BY <2>1, <2>2, <2>3, <2>4, <2>5
<1>4. IsFiniteSet(A) /\ \A c \in A : f[c] \in Int
  BY FS_Subset
<1> HIDE DEF G
<1>5. G[A] = S(A)
  <2>1. \A s \in SUBSET A : \A x \in A \ s : G[s \cup {x}] = f[x] + G[s]
    BY <1>3
  <2>2. IsFiniteSet(A)
    BY <1>4
  <2>3. \A c \in A : f[c] \in Int
    BY <1>4
  <2> QED BY ONLY <1>2, <2>1, <2>2, <2>3, SumUnique
<1>6. S(A) \in Int /\ S(B) \in Int /\ S(A \cup B) \in Int
  BY <1>1
<1>7. G[A] = S(A \cup B) - S(B)
  BY DEF G
<1> HIDE DEF S
<1>8. S(A \cup B) = S(A) + S(B)
  BY <1>5, <1>6, <1>7
<1> QED BY <1>8 DEF S

\* The sum does not depend on how the elements are numbered.
LEMMA SumImage ==
  ASSUME NEW C, IsFiniteSet(C), NEW f, \A c \in C : f[c] \in Int,
         NEW g, NEW h, \A c \in C : g[h[c]] = f[c],
         \A c, d \in C : h[c] = h[d] => c = d
  PROVE  SumFunctionOnSet(g, {h[c] : c \in C}) = SumFunctionOnSet(f, C)
<1> DEFINE I(s) == {h[c] : c \in s}
           G == [s \in SUBSET C |-> SumFunctionOnSet(g, I(s))]
<1>1. IsFiniteSet(I(C)) /\ \A i \in I(C) : g[i] \in Int
  <2>1. IsFiniteSet(I(C))
    <3> DEFINE k == [c \in C |-> h[c]]
    <3>1. k \in Surjection(C, I(C))
      BY DEF Surjection
    <3> HIDE DEF k, I
    <3> QED BY <3>1, FS_Surjection
  <2> QED BY <2>1
<1>2. G[{}] = 0
  <2>1. I({}) = {}
    OBVIOUS
  <2> HIDE DEF I
  <2> QED BY <1>1, <2>1, SumInsert
<1>3. ASSUME NEW s \in SUBSET C, NEW x \in C \ s PROVE G[s \cup {x}] = f[x] + G[s]
  <2>1. /\ I(s \cup {x}) = I(s) \cup {h[x]} /\ I(s) \in SUBSET I(C) /\ h[x] \in I(C) \ I(s)
        /\ g[h[x]] = f[x] /\ s \cup {x} \in SUBSET C
    OBVIOUS
  <2> HIDE DEF I
  <2>2. SumFunctionOnSet(g, I(s) \cup {h[x]}) = g[h[x]] + SumFunctionOnSet(g, I(s))
    BY <1>1, <2>1, SumInsert
  <2>3. G[s \cup {x}] = SumFunctionOnSet(g, I(s \cup {x})) /\ G[s] = SumFunctionOnSet(g, I(s))
    BY <2>1
  <2> HIDE DEF G
  <2> QED BY <2>1, <2>2, <2>3
<1> HIDE DEF G
<1>4. G[C] = SumFunctionOnSet(f, C)
  <2>1. \A s \in SUBSET C : \A x \in C \ s : G[s \cup {x}] = f[x] + G[s]
    BY <1>3
  <2> QED BY ONLY IsFiniteSet(C), \A c \in C : f[c] \in Int, <1>2, <2>1, SumUnique
<1> QED BY <1>4 DEF G

LEMMA SumZero ==
  ASSUME NEW C, IsFiniteSet(C), NEW f, \A c \in C : f[c] = 0
  PROVE  SumFunctionOnSet(f, C) = 0
<1> DEFINE G == [s \in SUBSET C |-> 0]
<1>1. G[{}] = 0 /\ \A c \in C : f[c] \in Int
  OBVIOUS
<1>2. ASSUME NEW s \in SUBSET C, NEW x \in C \ s PROVE G[s \cup {x}] = f[x] + G[s]
  <2>1. s \cup {x} \in SUBSET C
    OBVIOUS
  <2> QED BY <2>1
<1> HIDE DEF G
<1>3. G[C] = SumFunctionOnSet(f, C)
  BY <1>1, <1>2, SumUnique
<1> QED BY <1>3 DEF G

\* Only what f maps C to counts.
LEMMA SumSame ==
  ASSUME NEW C, IsFiniteSet(C), NEW f, NEW g, \A c \in C : g[c] \in Int /\ f[c] = g[c]
  PROVE  SumFunctionOnSet(f, C) = SumFunctionOnSet(g, C)
<1> DEFINE h == [c \in C |-> c]
<1>1. /\ \A c \in C : f[h[c]] = g[c]
      /\ \A c, d \in C : h[c] = h[d] => c = d
      /\ {h[c] : c \in C} = C
  OBVIOUS
<1> HIDE DEF h
<1>2. SumFunctionOnSet(f, {h[c] : c \in C}) = SumFunctionOnSet(g, C)
  BY <1>1, SumImage
<1> QED BY <1>1, <1>2
-----------------------------------------------------------------------------
(* What the registers and the shared memory hold.                          *)

\* What item c puts into reduction r: a thread what it starts with, any other
\* item the value that pads the first warp.
Given(r, c) ==
  IF c \notin Threads THEN Pad ELSE IF r = 1 THEN Loaded(c) ELSE ex[c]

Adding(r) == launch.kernel \in {"sum", "mean"} \/ (Softmax /\ r = 2)
Greatest(r) == launch.kernel = "max" \/ (Softmax /\ r = 1)

\* Of two pairs, p is not the one that BetterPair takes.
Behind(p, q) == p.val < q.val \/ (p.val = q.val /\ q.idx <= p.idx)

SumGiven(r, C) == SumFunctionOnSet([c \in C |-> Given(r, c)], C)

\* v is what reduction r makes of the items C, which do not change any more.
Folded(r, v, C) ==
  /\ \A c \in C \cap Threads : round[c] >= r
  /\ Adding(r) => v = SumGiven(r, C)
  /\ ~Adding(r) => v \in {Given(r, c) : c \in C}
  /\ Greatest(r) => \A c \in C : Given(r, c) <= v
  /\ launch.kernel = "min" => \A c \in C : v <= Given(r, c)
  /\ launch.kernel = "argmax" => \A c \in C : Behind(Given(r, c), v)

\* The items a thread of the first warp has in its register for the second
\* shuffle: those of a whole warp, or a pad.
Slice(u) == IF ReadsWarp(u) THEN WarpOf(u[1], u[2]) ELSE {<<u[1], -u[2]>>}

Parts(b) == UNION {Slice(u) : u \in WarpOf(b, 0)}

Values == IF launch.kernel = "argmax" THEN [val : Int, idx : Int] ELSE Int

ValuesOK == /\ data \in Inputs /\ N <= launch.grid * launch.block
            /\ val \in [Threads -> Values] /\ ex \in [Threads -> Int]
            /\ shared \in [Blocks -> [Warps -> Values]]

\* A register of a thread that is about to shuffle, store or deliver, and a cell
\* that is about to be read, are what they should be.
RegisterOK(t) ==
  /\ pc[t] = "shuffle" => val[t] = Given(round[t], t)
  /\ pc[t] = "write" /\ Wid(t) < NumWarps
       => Folded(round[t], val[t], WarpOf(t[1], Wid(t)))
  /\ pc[t] = "shuffle0" => Folded(round[t], val[t], Slice(t))
  /\ t[2] = 0 /\ pc[t] \in {"atomic", "broadcast"} => Folded(round[t], val[t], Parts(t[1]))
  /\ t[2] = 0 /\ pc[t] = "done" /\ ~Softmax => Folded(1, val[t], Parts(t[1]))

CellOK(t) ==
  /\ pc[t] = "sync" /\ Lane(t) = 0 /\ Wid(t) < NumWarps
       => Folded(round[t], shared[t[1]][Wid(t)], WarpOf(t[1], Wid(t)))
  /\ pc[t] = "read" /\ ReadsWarp(t)
       => Folded(round[t], shared[t[1]][t[2]], WarpOf(t[1], t[2]))
  /\ t[2] = 0 /\ round[t] = 2 /\ pc[t] \in {"syncBroadcast", "take", "done"}
       => Folded(2, shared[t[1]][0], Parts(t[1]))

RegistersFolded == \A t \in Threads : RegisterOK(t)
SharedFolded == \A t \in Threads : CellOK(t)

\* The blocks whose result has reached *output, and the items in it.
Finished == {b \in Blocks : pc[<<b, 0>>] = "done"}
Arrived == UNION {Parts(b) : b \in Finished}

\* What *output is made of.
Delivered ==
  /\ launch.kernel = "sum" => output = SumGiven(1, Arrived)
  /\ launch.kernel = "mean" =>
       /\ output \in Int
       /\ SumGiven(1, Arrived) - N * output <= (N - 1) * Cardinality(Finished)
       /\ N * output - SumGiven(1, Arrived) <= (N - 1) * Cardinality(Finished)
  /\ launch.kernel = "max" =>
       /\ output = Lowest \/ output \in {Given(1, c) : c \in Arrived}
       /\ \A c \in Arrived : Given(1, c) <= output
  /\ launch.kernel = "min" =>
       /\ output = Highest \/ output \in {Given(1, c) : c \in Arrived}
       /\ \A c \in Arrived : output <= Given(1, c)
  /\ launch.kernel = "argmax" /\ launch.grid = 1 =>
       output = IF 0 \in Finished THEN Smaller(Highest, val[<<0, 0>>].idx) ELSE Highest

\* What the threads of softmax have stored.
Stored ==
  Softmax =>
    /\ \A t \in Threads : round[t] = 2 /\ Idx(t) \notin DOMAIN data => ex[t] = 0
    /\ \A t \in Threads : pc[t] = "done" => round[t] = 2
    /\ DOMAIN output = DOMAIN data
    /\ \A t \in Threads : pc[t] = "done" /\ Idx(t) \in DOMAIN data =>
         output[Idx(t)] = <<ex[t], shared[t[1]][0]>>

\* softmax computes with integers if the exponential of integers is one.
IntegerExp == \A x, m \in Int : Exp(x, m) \in Int

VInv == ValuesOK /\ RegistersFolded /\ SharedFolded /\ Delivered /\ Stored
Computed == (~Softmax \/ IntegerExp) => VInv

-----------------------------------------------------------------------------
(* Combining registers.                                                     *)

LEMMA LaunchFacts ==
  ASSUME launch \in Launches
  PROVE  /\ WarpSize \in Nat \ {0} /\ NumWarps \in 1 .. WarpSize
         /\ launch.block \in Nat \ {0} /\ launch.grid \in Nat \ {0}
         /\ launch.kernel \in Kernels /\ 0 \in Blocks /\ 0 \in Indices
         /\ Softmax => launch.grid = 1
         /\ Lowest \in Int /\ Highest \in Int
BY BlockReduceAssumption, InputsAssumption DEF NumWarps, Blocks, Indices, Softmax

LEMMA InputFacts ==
  ASSUME data \in Inputs
  PROVE  /\ N \in Nat \ {0} /\ N <= Highest /\ DOMAIN data = 0 .. N - 1
         /\ \A i \in DOMAIN data : data[i] \in Int /\ Lowest < data[i] /\ data[i] < Highest
BY InputsAssumption DEF N

LEMMA IdxNat ==
  ASSUME launch \in Launches, NEW t \in Threads
  PROVE  Idx(t) \in Nat
<1>1. t[1] \in Nat /\ t[2] \in Nat /\ launch.block \in Nat
  BY LaunchFacts DEF Threads, Blocks, Indices
<1>2. t[1] * launch.block \in Nat
  BY <1>1
<1> QED BY <1>1, <1>2 DEF Idx

\* The second reduction is softmax's.
RoundOK(r) == r \in {1, 2} /\ (r = 2 => Softmax)

Sound == TypeOK /\ ValuesOK

LEMMA LoadedType ==
  ASSUME launch \in Launches, data \in Inputs, NEW t \in Threads
  PROVE  Loaded(t) \in Values
<1>1. /\ Lowest \in Int /\ Highest \in Int /\ Idx(t) \in Int
      /\ Idx(t) \in DOMAIN data => data[Idx(t)] \in Int
      /\ launch.kernel \in Kernels
  BY LaunchFacts, InputFacts, IdxNat
<1>2. CASE launch.kernel = "argmax"
  BY <1>1, <1>2 DEF Loaded, Outside, Pair, Values
<1>3. CASE launch.kernel # "argmax"
  BY <1>1, <1>3 DEF Loaded, Outside, Values, Kernels
<1> QED BY <1>2, <1>3

LEMMA PadType == ASSUME launch \in Launches PROVE Pad \in Values
<1>1. Lowest \in Int /\ -1 \in Int /\ 0 \in Int
  BY LaunchFacts
<1>2. CASE launch.kernel = "argmax"
  BY <1>1, <1>2 DEF Pad, Pair, Values
<1>3. CASE launch.kernel # "argmax"
  BY <1>1, <1>3 DEF Pad, Values
<1> QED BY <1>2, <1>3

LEMMA GivenType ==
  ASSUME Sound, NEW r, RoundOK(r), NEW c
  PROVE  Given(r, c) \in Values
<1>1. launch \in Launches /\ data \in Inputs /\ ex \in [Threads -> Int]
  BY DEF Sound, TypeOK, ValuesOK
<1>2. CASE c \notin Threads
  BY <1>1, <1>2, PadType DEF Given
<1>3. CASE c \in Threads /\ r = 1
  BY <1>1, <1>3, LoadedType DEF Given
<1>4. CASE c \in Threads /\ r = 2
  BY <1>1, <1>4 DEF Given, Values, RoundOK, Softmax
<1> QED BY <1>2, <1>3, <1>4 DEF RoundOK

LEMMA CombineType ==
  ASSUME launch \in Launches, NEW r, RoundOK(r), NEW x \in Values, NEW y \in Values
  PROVE  Combine(r, x, y) \in Values
<1>1. launch.kernel \in Kernels
  BY LaunchFacts
<1>2. CASE launch.kernel = "argmax"
  BY <1>2 DEF Combine, BetterPair, Softmax
<1>3. CASE launch.kernel # "argmax"
  BY <1>1, <1>3 DEF Combine, Values, Larger, Smaller, RoundOK, Softmax, Kernels
<1> QED BY <1>2, <1>3

\* Which of its branches Combine takes.
LEMMA CombineIs ==
  ASSUME launch \in Launches, NEW r, RoundOK(r), NEW x, NEW y
  PROVE  /\ Adding(r) => Combine(r, x, y) = x + y
         /\ Greatest(r) => Combine(r, x, y) = Larger(x, y) /\ ~Adding(r)
         /\ launch.kernel = "min" => Combine(r, x, y) = Smaller(x, y) /\ ~Adding(r)
         /\ launch.kernel = "argmax" => Combine(r, x, y) = BetterPair(x, y) /\ ~Adding(r)
         /\ \/ Adding(r) \/ Greatest(r) \/ launch.kernel \in {"min", "argmax"}
         /\ Adding(r) \/ Greatest(r) => launch.kernel \notin {"min", "argmax"}
BY LaunchFacts DEF Combine, Adding, Greatest, Softmax, Kernels, RoundOK

LEMMA SumGivenType ==
  ASSUME Sound, NEW r, RoundOK(r), Adding(r), NEW C, IsFiniteSet(C)
  PROVE  SumGiven(r, C) \in Int
<1> DEFINE f == [c \in C |-> Given(r, c)]
<1>1. \A c \in C : f[c] \in Int
  <2>1. Values = Int
    BY DEF Values, Adding, Softmax
  <2> QED BY <2>1, GivenType
<1> HIDE DEF f
<1>2. SumFunctionOnSet(f, C) \in Int
  BY <1>1, SumInsert
<1> QED BY <1>2 DEF SumGiven, f

LEMMA SumGivenOne ==
  ASSUME Sound, NEW r, RoundOK(r), Adding(r), NEW c
  PROVE  SumGiven(r, {c}) = Given(r, c)
<1> DEFINE f == [d \in {c} |-> Given(r, d)]
<1>1. f[c] = Given(r, c) /\ f[c] \in Int
  <2>1. Values = Int
    BY DEF Values, Adding, Softmax
  <2> QED BY <2>1, GivenType
<1> HIDE DEF f
<1>2. IsFiniteSet({c})
  BY FS_Singleton
<1>3. SumFunctionOnSet(f, {} \cup {c}) = f[c] + SumFunctionOnSet(f, {})
      /\ SumFunctionOnSet(f, {}) = 0
  <2>1. \A d \in {c} : f[d] \in Int
    BY <1>1
  <2>2. {} \in SUBSET {c} /\ c \in {c} \ {}
    OBVIOUS
  <2>3. /\ SumFunctionOnSet(f, {}) = 0
        /\ \A s \in SUBSET {c} : \A x \in {c} \ s :
             SumFunctionOnSet(f, s \cup {x}) = f[x] + SumFunctionOnSet(f, s)
    BY ONLY <1>2, <2>1, SumInsert
  <2> QED BY <2>2, <2>3, Zenon
<1>4. {} \cup {c} = {c}
  OBVIOUS
<1>5. SumFunctionOnSet(f, {c}) = Given(r, c)
  BY <1>1, <1>3, <1>4
<1> QED BY <1>5 DEF SumGiven, f

LEMMA SumGivenBoth ==
  ASSUME Sound, NEW r, RoundOK(r), Adding(r), NEW A, IsFiniteSet(A), NEW B, IsFiniteSet(B),
         A \cap B = {}
  PROVE  SumGiven(r, A \cup B) = SumGiven(r, A) + SumGiven(r, B)
<1> DEFINE f == [c \in A \cup B |-> Given(r, c)]
           g == [c \in A |-> Given(r, c)]
           h == [c \in B |-> Given(r, c)]
<1>1. /\ \A c \in A \cup B : f[c] \in Int
      /\ \A c \in A : g[c] \in Int /\ f[c] = g[c]
      /\ \A c \in B : h[c] \in Int /\ f[c] = h[c]
  <2>1. Values = Int
    BY DEF Values, Adding, Softmax
  <2> QED BY <2>1, GivenType
<1>2. SumGiven(r, A \cup B) = SumFunctionOnSet(f, A \cup B)
      /\ SumGiven(r, A) = SumFunctionOnSet(g, A) /\ SumGiven(r, B) = SumFunctionOnSet(h, B)
  BY DEF SumGiven
<1> HIDE DEF f, g, h
<1>3. SumFunctionOnSet(f, A) = SumFunctionOnSet(g, A)
  BY <1>1, SumSame
<1>4. SumFunctionOnSet(f, B) = SumFunctionOnSet(h, B)
  BY <1>1, SumSame
<1>5. SumFunctionOnSet(f, A \cup B) = SumFunctionOnSet(f, A) + SumFunctionOnSet(f, B)
  <2>1. IsFiniteSet(A \cup B) /\ A \in SUBSET (A \cup B) /\ B \in SUBSET (A \cup B)
    BY FS_Union
  <2> QED BY <1>1, <2>1, SumUnion
<1> QED BY <1>2, <1>3, <1>4, <1>5

LEMMA FoldedType ==
  ASSUME Sound, NEW r, RoundOK(r), NEW v, NEW C, IsFiniteSet(C), Folded(r, v, C)
  PROVE  v \in Values
<1>1. CASE Adding(r)
  <2>1. Values = Int
    BY <1>1 DEF Values, Adding, Softmax
  <2> QED BY <1>1, <2>1, SumGivenType DEF Folded
<1>2. CASE ~Adding(r)
  <2>1. PICK c \in C : v = Given(r, c)
    BY <1>2 DEF Folded
  <2> QED BY <2>1, GivenType
<1> QED BY <1>1, <1>2

LEMMA FoldedOne ==
  ASSUME Sound, NEW r, RoundOK(r), NEW c, c \in Threads => round[c] >= r
  PROVE  Folded(r, Given(r, c), {c})
<1>1. Given(r, c) \in Values /\ launch \in Launches
  BY GivenType DEF Sound, TypeOK
<1>2. Adding(r) => Given(r, c) = SumGiven(r, {c})
  BY SumGivenOne
<1>3. Greatest(r) \/ launch.kernel = "min" => Given(r, c) <= Given(r, c)
  <2>1. Greatest(r) \/ launch.kernel = "min" => Values = Int
    BY DEF Values, Greatest, Softmax
  <2> QED BY <1>1, <2>1
<1>4. launch.kernel = "argmax" => Behind(Given(r, c), Given(r, c))
  BY <1>1 DEF Values, Behind
<1> QED BY <1>2, <1>3, <1>4 DEF Folded

\* What is made of A and of B makes what is made of both.
LEMMA FoldedBoth ==
  ASSUME Sound, NEW r, RoundOK(r), NEW A, IsFiniteSet(A), NEW B, IsFiniteSet(B),
         A \cap B = {}, NEW x, Folded(r, x, A), NEW y, Folded(r, y, B)
  PROVE  Folded(r, Combine(r, x, y), A \cup B)
<1> DEFINE z == Combine(r, x, y)
<1> SUFFICES Folded(r, z, A \cup B)
  OBVIOUS
<1>1. x \in Values /\ y \in Values /\ launch \in Launches
  BY FoldedType DEF Sound, TypeOK
<1>2. \A c \in (A \cup B) \cap Threads : round[c] >= r
  BY DEF Folded
<1>3. CASE Adding(r)
  <2>1. z = x + y /\ ~Greatest(r) /\ launch.kernel \notin {"min", "argmax"}
    BY <1>1, <1>3, CombineIs
  <2>2. z = SumGiven(r, A \cup B)
    BY <1>3, <2>1, SumGivenBoth DEF Folded
  <2> HIDE DEF z
  <2> QED BY <1>2, <1>3, <2>1, <2>2 DEF Folded
<1>4. CASE Greatest(r)
  <2>1. z = Larger(x, y) /\ ~Adding(r) /\ launch.kernel \notin {"min", "argmax"}
    BY <1>1, <1>4, CombineIs
  <2>2. Values = Int
    BY <1>4 DEF Values, Greatest, Softmax
  <2>3. \A c \in A \cup B : Given(r, c) \in Int
    BY <2>2, GivenType
  <2>4. z \in {x, y} /\ x <= z /\ y <= z /\ z \in Int
    BY <1>1, <2>1, <2>2 DEF Larger
  <2> HIDE DEF z
  <2>5. z \in {Given(r, c) : c \in A \cup B}
    BY <2>1, <2>4 DEF Folded
  <2>6. \A c \in A \cup B : Given(r, c) <= z
    BY <1>1, <1>4, <2>2, <2>3, <2>4 DEF Folded
  <2> QED BY <1>2, <2>1, <2>5, <2>6 DEF Folded
<1>5. CASE launch.kernel = "min"
  <2>1. z = Smaller(x, y) /\ ~Adding(r) /\ ~Greatest(r)
    BY <1>1, <1>5, CombineIs
  <2>2. Values = Int
    BY <1>5 DEF Values
  <2>3. \A c \in A \cup B : Given(r, c) \in Int
    BY <2>2, GivenType
  <2>4. z \in {x, y} /\ z <= x /\ z <= y /\ z \in Int
    BY <1>1, <2>1, <2>2 DEF Smaller
  <2> HIDE DEF z
  <2>5. z \in {Given(r, c) : c \in A \cup B}
    BY <2>1, <2>4 DEF Folded
  <2>6. \A c \in A \cup B : z <= Given(r, c)
    BY <1>1, <1>5, <2>2, <2>3, <2>4 DEF Folded
  <2> QED BY <1>2, <1>5, <2>1, <2>5, <2>6 DEF Folded
<1>6. CASE launch.kernel = "argmax"
  <2>1. z = BetterPair(x, y) /\ ~Adding(r) /\ ~Greatest(r)
    BY <1>1, <1>6, CombineIs
  <2>2. Values = [val : Int, idx : Int]
    BY <1>6 DEF Values
  <2>3. \A c \in A \cup B : Given(r, c) \in Values
    BY GivenType
  <2>4. z \in {x, y} /\ Behind(x, z) /\ Behind(y, z)
    BY <1>1, <2>1, <2>2 DEF BetterPair, Behind
  <2>5. \A p, q \in Values : q \in {x, y} /\ Behind(p, q) => Behind(p, z)
    <3>1. \A p, q, s \in Values : Behind(p, q) /\ Behind(q, s) => Behind(p, s)
      BY <2>2 DEF Behind
    <3> QED BY <1>1, <2>4, <3>1
  <2> HIDE DEF z
  <2>6. z \in {Given(r, c) : c \in A \cup B}
    BY <2>1, <2>4 DEF Folded
  <2>7. \A c \in A \cup B : Behind(Given(r, c), z)
    BY <1>1, <1>6, <2>3, <2>5 DEF Folded
  <2> QED BY <1>2, <1>6, <2>1, <2>6, <2>7 DEF Folded
<1> QED BY <1>1, <1>3, <1>4, <1>5, <1>6, CombineIs

-----------------------------------------------------------------------------
(* A warp's shuffles.                                                       *)

\* What the recursion of WarpReduce says of f.
Rounds(f, r, S) ==
  f = [offset \in 1 .. WarpSize |->
         IF offset > WarpSize \div 2 THEN [t \in S |-> val[t]]
         ELSE ShuffleDown(r, S, f[2 * offset], offset)]

LEMMA Half ==
  ASSUME NEW w \in Nat, NEW o \in Nat
  PROVE  o > w \div 2 <=> 2 * o > w
OBVIOUS

LEMMA RoundsExist ==
  ASSUME NEW r, NEW S
  PROVE  \E f : Rounds(f, r, S)
<1> DEFINE Is(f, o) == f[o] = IF o > WarpSize \div 2 THEN [t \in S |-> val[t]]
                              ELSE ShuffleDown(r, S, f[2 * o], o)
           T == {j \in 0 .. WarpSize : \E f : \A o \in 1 .. WarpSize : o > WarpSize - j => Is(f, o)}
<1>0. WarpSize \in Nat \ {0}
  BY BlockReduceAssumption
<1>1. 0 \in T
  <2>1. \A o \in 1 .. WarpSize : ~(o > WarpSize - 0)
    BY <1>0
  <2> HIDE DEF Is
  <2> QED BY <1>0, <2>1
<1>2. ASSUME NEW j \in 0 .. WarpSize - 1, j \in T PROVE j + 1 \in T
  <2>1. PICK f : \A o \in 1 .. WarpSize : o > WarpSize - j => Is(f, o)
    BY <1>2
  <2> DEFINE n == WarpSize - j
             first == IF n > WarpSize \div 2 THEN [t \in S |-> val[t]]
                      ELSE ShuffleDown(r, S, f[2 * n], n)
             g == [o \in 1 .. WarpSize |-> IF o = n THEN first ELSE f[o]]
  <2>2. n \in 1 .. WarpSize /\ j + 1 \in 0 .. WarpSize
    BY <1>0
  <2>3. g[n] = first /\ \A o \in 1 .. WarpSize : o # n => g[o] = f[o]
    BY <2>2
  <2> HIDE DEF g
  <2>4. ASSUME NEW o \in 1 .. WarpSize, o > WarpSize - (j + 1) PROVE Is(g, o)
    <3>1. o >= n
      BY <1>0, <2>4
    <3>2. o <= WarpSize \div 2 => 2 * o \in 1 .. WarpSize /\ 2 * o # n
      <4>1. o <= WarpSize \div 2 => ~(2 * o > WarpSize)
        BY <1>0, Half
      <4> QED BY <1>0, <2>2, <3>1, <4>1
    <3>3. CASE o = n
      <4>1. o <= WarpSize \div 2 => g[2 * o] = f[2 * o]
        BY <2>3, <3>2
      <4>2. o > WarpSize \div 2 \/ o <= WarpSize \div 2
        BY <1>0
      <4> QED BY <2>3, <3>3, <4>1, <4>2
    <3>4. CASE o # n
      <4>1. Is(f, o)
        BY <1>0, <2>1, <2>2, <3>1, <3>4
      <4>2. o <= WarpSize \div 2 => g[2 * o] = f[2 * o]
        BY <2>3, <3>2
      <4>3. g[o] = f[o]
        BY <2>3, <3>4
      <4>4. o > WarpSize \div 2 \/ o <= WarpSize \div 2
        BY <1>0
      <4> QED BY <4>1, <4>2, <4>3, <4>4
    <3> QED BY <3>3, <3>4
  <2> HIDE DEF Is
  <2>5. \A o \in 1 .. WarpSize : o > WarpSize - (j + 1) => Is(g, o)
    BY <2>4
  <2> QED BY <2>2, <2>5
<1>3. WarpSize \in T
  <2> HIDE DEF T
  <2>1. 0 .. WarpSize \subseteq T
    BY <1>0, <1>1, <1>2, Upwards
  <2> QED BY <1>0, <2>1
<1>4. PICK f : \A o \in 1 .. WarpSize : o > WarpSize - WarpSize => Is(f, o)
  BY <1>3
<1>5. \A o \in 1 .. WarpSize : Is(f, o)
  BY <1>0, <1>4
<1> DEFINE g == [o \in 1 .. WarpSize |-> f[o]]
<1>6. ASSUME NEW o \in 1 .. WarpSize PROVE Is(g, o)
  <2>1. g[o] = f[o]
    OBVIOUS
  <2>2. o <= WarpSize \div 2 => g[2 * o] = f[2 * o]
    <3>1. o <= WarpSize \div 2 => ~(2 * o > WarpSize)
      BY <1>0, Half
    <3>2. o <= WarpSize \div 2 => 2 * o \in 1 .. WarpSize
      BY <1>0, <3>1
    <3> QED BY <3>2
  <2>3. o > WarpSize \div 2 \/ o <= WarpSize \div 2
    BY <1>0
  <2> HIDE DEF g
  <2> QED BY <1>5, <2>1, <2>2, <2>3
<1>7. g = [o \in 1 .. WarpSize |-> IF o > WarpSize \div 2 THEN [t \in S |-> val[t]]
                                    ELSE ShuffleDown(r, S, g[2 * o], o)]
  <2>1. g = [o \in 1 .. WarpSize |-> g[o]]
    OBVIOUS
  <2> HIDE DEF g
  <2> QED BY <1>6, <2>1
<1> HIDE DEF g
<1>8. Rounds(g, r, S)
  BY <1>7 DEF Rounds
<1> QED BY <1>8

LEMMA WarpReduceIs ==
  ASSUME NEW r, NEW S
  PROVE  \E f : /\ WarpReduce(r, S) = f[1]
                /\ \A o \in 1 .. WarpSize :
                     f[o] = IF 2 * o > WarpSize THEN [t \in S |-> val[t]]
                            ELSE ShuffleDown(r, S, f[2 * o], o)
<1> DEFINE f == CHOOSE f : Rounds(f, r, S)
<1>1. WarpReduce(r, S) = f[1]
  BY DEF WarpReduce, Rounds
<1>2. Rounds(f, r, S)
  BY RoundsExist
<1> HIDE DEF f
<1>3. WarpSize \in Nat
  BY BlockReduceAssumption
<1>4. ASSUME NEW o \in 1 .. WarpSize
      PROVE  f[o] = IF 2 * o > WarpSize THEN [t \in S |-> val[t]]
                    ELSE ShuffleDown(r, S, f[2 * o], o)
  <2>1. o > WarpSize \div 2 <=> 2 * o > WarpSize
    BY <1>3, Half
  <2>2. f[o] = IF o > WarpSize \div 2 THEN [t \in S |-> val[t]]
               ELSE ShuffleDown(r, S, f[2 * o], o)
    BY <1>2 DEF Rounds
  <2> QED BY <2>1, <2>2
<1> QED BY <1>1, <1>4

LEMMA WarpReduceType ==
  ASSUME Sound, NEW r, RoundOK(r), NEW S \in SUBSET Threads
  PROVE  WarpReduce(r, S) \in [S -> Values]
<1>1. PICK f : /\ WarpReduce(r, S) = f[1]
               /\ \A o \in 1 .. WarpSize :
                    f[o] = IF 2 * o > WarpSize THEN [t \in S |-> val[t]]
                           ELSE ShuffleDown(r, S, f[2 * o], o)
  BY WarpReduceIs
<1>2. WarpSize \in Nat \ {0} /\ launch \in Launches /\ val \in [Threads -> Values]
  BY BlockReduceAssumption DEF Sound, TypeOK, ValuesOK
<1> DEFINE T == {j \in 0 .. WarpSize : \A o \in 1 .. WarpSize : o > WarpSize - j => f[o] \in [S -> Values]}
<1>3. 0 \in T
  BY <1>2
<1>4. ASSUME NEW j \in 0 .. WarpSize - 1, j \in T PROVE j + 1 \in T
  <2>1. ASSUME NEW o \in 1 .. WarpSize, o > WarpSize - (j + 1) PROVE f[o] \in [S -> Values]
    <3>1. CASE 2 * o > WarpSize
      <4>1. [t \in S |-> val[t]] \in [S -> Values]
        BY <1>2
      <4> QED BY <1>1, <3>1, <4>1
    <3>2. CASE ~(2 * o > WarpSize)
      <4>1. 2 * o \in 1 .. WarpSize /\ 2 * o > WarpSize - j
        BY <1>2, <2>1, <3>2
      <4>2. f[2 * o] \in [S -> Values]
        BY <1>4, <4>1
      <4>3. ShuffleDown(r, S, f[2 * o], o) \in [S -> Values]
        BY <1>2, <4>2, CombineType DEF ShuffleDown
      <4>4. f[o] = ShuffleDown(r, S, f[2 * o], o)
        BY <1>1, <3>2
      <4> QED BY <4>3, <4>4
    <3> QED BY <3>1, <3>2
  <2>2. j + 1 \in 0 .. WarpSize
    BY <1>2
  <2> QED BY <2>1, <2>2
<1>5. WarpSize \in T
  <2> HIDE DEF T
  <2>1. 0 .. WarpSize \subseteq T
    BY <1>2, <1>3, <1>4, Upwards
  <2> QED BY <1>2, <2>1
<1>6. f[1] \in [S -> Values]
  <2>1. 1 \in 1 .. WarpSize /\ 1 > WarpSize - WarpSize
    BY <1>2
  <2> QED BY <1>5, <2>1
<1> QED BY <1>1, <1>6

\* A lane of a warp of a block.
At(b, w, l) == <<b, WarpSize * w + l>>

LEMMA DivModUnique ==
  ASSUME NEW n \in Nat \ {0}, NEW q \in Nat, NEW s \in 0 .. n - 1
  PROVE  (n * q + s) \div n = q /\ (n * q + s) % n = s
<1> DEFINE x == n * q + s
           d == x \div n
           m == x % n
<1>1. n * q \in Nat /\ x \in Nat
  OBVIOUS
<1> HIDE DEF x
<1>2. d \in Nat /\ m \in 0 .. n - 1 /\ x = n * d + m
  BY <1>1, DivMod
<1> HIDE DEF d, m
<1>3. n * q + s = n * d + m
  BY <1>2 DEF x
<1>4. d = q
  <2>1. ~(d >= q + 1)
    <3> SUFFICES ASSUME d >= q + 1 PROVE FALSE
      OBVIOUS
    <3>1. n * d >= n * q + n
      BY <1>2
    <3> QED BY <1>1, <1>2, <1>3, <3>1
  <2>2. ~(q >= d + 1)
    <3> SUFFICES ASSUME q >= d + 1 PROVE FALSE
      OBVIOUS
    <3>1. n * q >= n * d + n /\ n * d \in Nat
      BY <1>2
    <3> QED BY <1>1, <1>2, <1>3, <3>1
  <2> QED BY <1>2, <2>1, <2>2
<1>5. m = s
  BY <1>1, <1>2, <1>3, <1>4
<1> QED BY <1>4, <1>5 DEF d, m, x

\* The threads of a whole warp.
LEMMA WarpThreads ==
  ASSUME launch \in Launches, NEW b \in Blocks, NEW w \in 0 .. NumWarps - 1
  PROVE  /\ \A l \in 0 .. WarpSize - 1 : At(b, w, l) \in WarpOf(b, w) /\ Lane(At(b, w, l)) = l
         /\ \A t \in WarpOf(b, w) : t = At(b, w, Lane(t)) /\ Lane(t) \in 0 .. WarpSize - 1
<1>1. WarpSize \in Nat \ {0} /\ NumWarps \in 1 .. WarpSize /\ launch.block \in Nat \ {0}
  BY LaunchFacts
<1>2. ASSUME NEW l \in 0 .. WarpSize - 1
      PROVE  At(b, w, l) \in WarpOf(b, w) /\ Lane(At(b, w, l)) = l
  <2> DEFINE i == WarpSize * w + l
  <2>1. WarpSize * NumWarps <= launch.block
    <3>1. launch.block = WarpSize * NumWarps + (launch.block % WarpSize)
          /\ launch.block % WarpSize \in 0 .. WarpSize - 1
      BY <1>1, DivMod DEF NumWarps
    <3>2. WarpSize * NumWarps \in Nat
      BY <1>1
    <3> QED BY <3>1, <3>2
  <2>2. WarpSize * w + WarpSize <= WarpSize * NumWarps
    <3>1. w + 1 <= NumWarps /\ w \in Nat
      BY <1>1
    <3>2. WarpSize * (w + 1) <= WarpSize * NumWarps
      BY <1>1, <3>1
    <3>3. WarpSize * (w + 1) = WarpSize * w + WarpSize
      BY <1>1, <3>1
    <3> QED BY <3>2, <3>3
  <2>3. i \in Nat /\ i < launch.block
    <3>1. WarpSize * w \in Nat /\ WarpSize * NumWarps \in Nat
      BY <1>1
    <3> QED BY <1>1, <2>1, <2>2, <3>1
  <2>4. i \div WarpSize = w /\ i % WarpSize = l
    <3>1. w \in Nat
      BY <1>1
    <3> QED BY <1>1, <3>1, DivModUnique
  <2>5. i \in Indices
    BY <1>1, <2>3 DEF Indices
  <2> HIDE DEF i
  <2>6. <<b, i>> \in Threads
    BY <2>5 DEF Threads
  <2>7. At(b, w, l) = <<b, i>>
    BY DEF At, i
  <2> QED BY <2>4, <2>6, <2>7 DEF WarpOf, Wid, Lane
<1>3. ASSUME NEW t \in WarpOf(b, w)
      PROVE  t = At(b, w, Lane(t)) /\ Lane(t) \in 0 .. WarpSize - 1
  <2>1. t \in Threads /\ t[1] = b /\ Wid(t) = w
    BY DEF WarpOf
  <2> QED BY <2>1, ThreadsNat DEF At
<1> QED BY <1>2, <1>3

\* The lanes that end in lane l of 0 .. o - 1 were in two of 0 .. 2 * o - 1.
Halves(m, o, l) == m % o = l <=> m % (2 * o) = l \/ m % (2 * o) = l + o

LEMMA Halving ==
  ASSUME NEW m \in Nat, NEW o \in Nat \ {0}, NEW l \in 0 .. o - 1
  PROVE  Halves(m, o, l)
<1> DEFINE q == m \div (2 * o)
           s == m % (2 * o)
<1>1. q \in Nat /\ s \in 0 .. 2 * o - 1 /\ m = (2 * o) * q + s /\ 2 * o \in Nat \ {0}
  <2>1. 2 * o \in Nat \ {0}
    OBVIOUS
  <2> DEFINE n == 2 * o
  <2> HIDE DEF n
  <2>2. n \in Nat \ {0}
    BY <2>1 DEF n
  <2>3. m \div n \in Nat /\ m % n \in 0 .. n - 1 /\ m = n * (m \div n) + (m % n)
    BY <2>2, DivMod
  <2> QED BY <2>1, <2>3 DEF n, q, s
<1> HIDE DEF q, s
<1>2. CASE s < o
  <2>1. m = o * (2 * q) + s /\ 2 * q \in Nat /\ s \in 0 .. o - 1
    <3>1. s \in 0 .. o - 1 /\ 2 * q \in Nat
      BY <1>1, <1>2
    <3>2. (2 * o) * q = o * (2 * q)
      BY <1>1
    <3> QED BY <1>1, <3>1, <3>2
  <2>2. m % o = s
    BY <2>1, DivModUnique
  <2> QED BY <1>1, <1>2, <2>2 DEF Halves, s
<1>3. CASE s >= o
  <2>1. m = o * (2 * q + 1) + (s - o) /\ 2 * q + 1 \in Nat /\ s - o \in 0 .. o - 1
    <3>1. s - o \in 0 .. o - 1 /\ 2 * q + 1 \in Nat
      BY <1>1, <1>3
    <3>2. (2 * o) * q + o = o * (2 * q + 1) /\ (2 * o) * q \in Nat
      BY <1>1
    <3> QED BY <1>1, <3>1, <3>2
  <2>2. m % o = s - o
    BY <2>1, DivModUnique
  <2> QED BY <1>1, <1>3, <2>2 DEF Halves, s
<1> QED BY <1>1, <1>2, <1>3 DEF Halves

\* The registers of a warp hold what is made of the items D, which are apart.
Spread(r, b, w, D) ==
  /\ \A t \in WarpOf(b, w) : IsFiniteSet(D[t]) /\ Folded(r, val[t], D[t])
  /\ \A t, u \in WarpOf(b, w) : t # u => D[t] \cap D[u] = {}

Gathered(b, w, D) == UNION {D[t] : t \in WarpOf(b, w)}

\* The register of lane 0 of a whole warp gets what is made of the items of all
\* its lanes.
LEMMA Shuffled ==
  ASSUME Sound, NEW r, RoundOK(r), NEW b \in Blocks, NEW w \in 0 .. NumWarps - 1, NEW D,
         Spread(r, b, w, D)
  PROVE  Folded(r, WarpReduce(r, WarpOf(b, w))[At(b, w, 0)], Gathered(b, w, D))
<1> DEFINE S == WarpOf(b, w)
           Group(o, l) == UNION {D[t] : t \in {u \in S : Lane(u) % o = l}}
<1>0. /\ \A t \in S : IsFiniteSet(D[t]) /\ Folded(r, val[t], D[t])
      /\ \A t, u \in S : t # u => D[t] \cap D[u] = {}
  BY DEF Spread
<1>1. WarpSize \in Nat \ {0} /\ launch \in Launches /\ NumWarps \in 1 .. WarpSize
  BY LaunchFacts DEF Sound, TypeOK
<1>2. PICK f : /\ WarpReduce(r, S) = f[1]
               /\ \A o \in 1 .. WarpSize :
                    f[o] = IF 2 * o > WarpSize THEN [t \in S |-> val[t]]
                           ELSE ShuffleDown(r, S, f[2 * o], o)
  BY WarpReduceIs
<1>3. PICK n \in 0 .. WarpSize : \E size \in [0 .. n -> 1 .. WarpSize] :
        /\ size[0] = 1 /\ size[n] = WarpSize
        /\ \A k \in 1 .. n : size[k] = 2 * size[k - 1]
  BY WarpAssumption
<1>4. PICK size \in [0 .. n -> 1 .. WarpSize] :
        /\ size[0] = 1 /\ size[n] = WarpSize
        /\ \A k \in 1 .. n : size[k] = 2 * size[k - 1]
  BY <1>3
<1>5. /\ \A l \in 0 .. WarpSize - 1 : At(b, w, l) \in S /\ Lane(At(b, w, l)) = l
      /\ \A t \in S : t = At(b, w, Lane(t)) /\ Lane(t) \in 0 .. WarpSize - 1
  BY <1>1, WarpThreads
<1> HIDE DEF S
<1> DEFINE P(k) == \A l \in 0 .. size[k] - 1 :
                     IsFiniteSet(Group(size[k], l)) /\ Folded(r, f[size[k]][At(b, w, l)], Group(size[k], l))
           T == {j \in 0 .. n : P(n - j)}
<1>6. 0 \in T
  <2>1. ASSUME NEW l \in 0 .. WarpSize - 1
        PROVE  IsFiniteSet(Group(WarpSize, l)) /\ Folded(r, f[WarpSize][At(b, w, l)], Group(WarpSize, l))
    <3>1. At(b, w, l) \in S /\ \A t \in S : Lane(t) % WarpSize = l <=> t = At(b, w, l)
      <4>1. \A t \in S : Lane(t) % WarpSize = Lane(t)
        <5>1. \A m \in Nat : m < WarpSize => m % WarpSize = m
          BY <1>1, FirstWarp
        <5>2. \A t \in S : Lane(t) \in Nat /\ Lane(t) < WarpSize
          BY <1>1, <1>5
        <5> QED BY <5>1, <5>2
      <4> QED BY <1>5, <4>1
    <3>2. Group(WarpSize, l) = D[At(b, w, l)]
      BY <3>1
    <3>3. f[WarpSize][At(b, w, l)] = val[At(b, w, l)]
      <4>1. WarpSize \in 1 .. WarpSize /\ 2 * WarpSize > WarpSize
        BY <1>1
      <4>2. f[WarpSize] = [t \in S |-> val[t]]
        BY <1>2, <4>1
      <4> QED BY <3>1, <4>2
    <3> HIDE DEF Group
    <3> QED BY <1>0, <3>1, <3>2, <3>3
  <2>2. n - 0 = n /\ 0 \in 0 .. n
    BY <1>1
  <2> HIDE DEF Group
  <2>3. P(n)
    BY <1>4, <2>1
  <2> HIDE DEF P
  <2> QED BY <2>2, <2>3
<1>7. ASSUME NEW j \in 0 .. n - 1, j \in T PROVE j + 1 \in T
  <2> DEFINE k == n - j
             o == size[k - 1]
  <2>1. k \in 1 .. n /\ k - 1 \in 0 .. n /\ n - (j + 1) = k - 1 /\ j + 1 \in 0 .. n
    BY <1>1
  <2>2. o \in Nat \ {0} /\ size[k] = 2 * o /\ 2 * o <= WarpSize /\ o \in 1 .. WarpSize
    <3>1. size[k] \in 1 .. WarpSize /\ size[k - 1] \in 1 .. WarpSize
      BY <1>4, <2>1
    <3> QED BY <1>1, <1>4, <2>1, <3>1
  <2>3. P(k)
    <3> HIDE DEF P
    <3> QED BY <1>7
  <2> HIDE DEF k, o
  <2>4. \A l \in 0 .. 2 * o - 1 :
          IsFiniteSet(Group(2 * o, l)) /\ Folded(r, f[2 * o][At(b, w, l)], Group(2 * o, l))
    <3> HIDE DEF Group
    <3> QED BY <2>2, <2>3
  <2>5. ASSUME NEW l \in 0 .. o - 1
        PROVE  IsFiniteSet(Group(o, l)) /\ Folded(r, f[o][At(b, w, l)], Group(o, l))
    <3>1. l \in 0 .. 2 * o - 1 /\ l + o \in 0 .. 2 * o - 1 /\ l # l + o
          /\ l \in 0 .. WarpSize - 1 /\ l + o \in 0 .. WarpSize - 1
      BY <1>1, <2>2
    <3>2. Group(o, l) = Group(2 * o, l) \cup Group(2 * o, l + o)
      <4>1. \A t \in S : Lane(t) % o = l <=> Lane(t) % (2 * o) = l \/ Lane(t) % (2 * o) = l + o
        <5>1. ASSUME NEW t \in S
              PROVE  Lane(t) % o = l <=> Lane(t) % (2 * o) = l \/ Lane(t) % (2 * o) = l + o
          <6>1. Lane(t) \in Nat
            BY <1>1, <1>5
          <6>2. Halves(Lane(t), o, l)
            BY <2>2, <6>1, Halving
          <6> QED BY <6>2 DEF Halves
        <5> QED BY <5>1
      <4> QED BY <4>1
    <3>3. Group(2 * o, l) \cap Group(2 * o, l + o) = {}
      <4> SUFFICES ASSUME NEW c, c \in Group(2 * o, l), c \in Group(2 * o, l + o) PROVE FALSE
        OBVIOUS
      <4>1. PICK t \in S : Lane(t) % (2 * o) = l /\ c \in D[t]
        OBVIOUS
      <4>2. PICK u \in S : Lane(u) % (2 * o) = l + o /\ c \in D[u]
        OBVIOUS
      <4>3. t # u
        BY <3>1, <4>1, <4>2
      <4> QED BY <1>0, <4>1, <4>2, <4>3
    <3>4. f[o][At(b, w, l)] = Combine(r, f[2 * o][At(b, w, l)], f[2 * o][At(b, w, l + o)])
      <4>1. f[o] = ShuffleDown(r, S, f[2 * o], o)
        <5>1. o \in 1 .. WarpSize /\ ~(2 * o > WarpSize)
          BY <1>1, <2>2
        <5> QED BY <1>2, <5>1
      <4>2. At(b, w, l) \in S /\ At(b, w, l + o) \in S
        BY <1>5, <3>1
      <4>3. <<At(b, w, l)[1], At(b, w, l)[2] + o>> = At(b, w, l + o)
        <5>1. WarpSize * w \in Nat
          BY <1>1
        <5>2. (WarpSize * w + l) + o = WarpSize * w + (l + o)
          BY <2>2, <5>1
        <5> QED BY <5>2 DEF At
      <4> QED BY <4>1, <4>2, <4>3 DEF ShuffleDown
    <3> HIDE DEF Group
    <3>5. IsFiniteSet(Group(2 * o, l)) /\ IsFiniteSet(Group(2 * o, l + o))
      BY <2>4, <3>1
    <3>6. IsFiniteSet(Group(o, l))
      <4> DEFINE X == Group(2 * o, l)
                 Y == Group(2 * o, l + o)
      <4> HIDE DEF X, Y
      <4>1. IsFiniteSet(X) /\ IsFiniteSet(Y) => IsFiniteSet(X \cup Y)
        BY FS_Union
      <4> QED BY <3>2, <3>5, <4>1 DEF X, Y
    <3>7. Folded(r, f[2 * o][At(b, w, l)], Group(2 * o, l))
          /\ Folded(r, f[2 * o][At(b, w, l + o)], Group(2 * o, l + o))
      BY <2>4, <3>1
    <3> QED BY <3>2, <3>3, <3>4, <3>5, <3>6, <3>7, FoldedBoth
  <2> HIDE DEF Group
  <2>6. P(k - 1)
    BY <2>5 DEF o
  <2> HIDE DEF P
  <2> QED BY <2>1, <2>6
<1>8. n \in T
  <2> HIDE DEF T
  <2>1. n \in Nat
    BY <1>1
  <2>2. \A i \in 0 .. n - 1 : i \in T => i + 1 \in T
    BY <1>7
  <2>3. 0 .. n \subseteq T
    BY <1>6, <2>1, <2>2, Upwards
  <2> QED BY <2>1, <2>3
<1>9. P(0)
  <2>1. n - n = 0
    OBVIOUS
  <2> HIDE DEF P
  <2> QED BY <1>8, <2>1
<1>10. Group(1, 0) = Gathered(b, w, D)
  <2>1. \A t \in S : Lane(t) % 1 = 0
    BY <1>1, <1>5
  <2> QED BY <2>1 DEF S, Gathered
<1> HIDE DEF Group
<1>11. Folded(r, f[1][At(b, w, 0)], Group(1, 0))
  BY <1>4, <1>9
<1> QED BY <1>2, <1>10, <1>11 DEF S

-----------------------------------------------------------------------------
(* What a step leaves folded.                                               *)

\* A step keeps the launch and the input, and moves rounds on from 1 to 2.
Steady ==
  /\ launch' = launch /\ data' = data
  /\ \A t \in Threads :
       (round'[t] = round[t] /\ ex'[t] = ex[t]) \/ (round[t] = 1 /\ round'[t] = 2)

LEMMA SameThreads ==
  ASSUME launch' = launch
  PROVE  /\ Threads' = Threads /\ Blocks' = Blocks /\ Indices' = Indices /\ Warps' = Warps
         /\ Softmax' = Softmax /\ NumWarps' = NumWarps /\ Values' = Values /\ Pad' = Pad
         /\ Kernels' = Kernels
BY DEF Threads, Blocks, Indices, Warps, Softmax, NumWarps, Values, Pad, Pair, Kernels

LEMMA SameSets ==
  ASSUME launch' = launch
  PROVE  /\ \A b, w : WarpOf(b, w)' = WarpOf(b, w)
         /\ \A u : Slice(u)' = Slice(u)
         /\ \A b : Parts(b)' = Parts(b)
<1>1. Threads' = Threads /\ NumWarps' = NumWarps
  BY SameThreads
<1>2. ASSUME NEW b, NEW w PROVE WarpOf(b, w)' = WarpOf(b, w)
  BY <1>1 DEF WarpOf, Wid
<1>3. ASSUME NEW u PROVE Slice(u)' = Slice(u)
  BY <1>1, <1>2 DEF Slice, ReadsWarp
<1>4. ASSUME NEW b PROVE Parts(b)' = Parts(b)
  BY <1>2, <1>3 DEF Parts
<1> QED BY <1>2, <1>3, <1>4

LEMMA SameLoaded ==
  ASSUME launch' = launch, data' = data
  PROVE  N' = N /\ Pad' = Pad /\ \A c : Loaded(c)' = Loaded(c) /\ Idx(c)' = Idx(c)
BY DEF N, Pad, Pair, Loaded, Outside, Idx

LEMMA GivenStays ==
  ASSUME Steady, NEW r \in {1, 2}, NEW c, c \in Threads => round[c] >= r /\ round[c] \in {1, 2}
  PROVE  Given(r, c)' = Given(r, c)
<1>1. Threads' = Threads /\ Pad' = Pad /\ Loaded(c)' = Loaded(c)
  BY SameThreads, SameLoaded DEF Steady
<1>2. c \in Threads /\ r = 2 => ex'[c] = ex[c]
  BY DEF Steady
<1> QED BY <1>1, <1>2 DEF Given

\* What is folded stays so.
LEMMA FoldedStays ==
  ASSUME TypeOK, Steady, NEW r \in {1, 2}, NEW v, NEW C, Folded(r, v, C)
  PROVE  Folded(r, v, C)'
<1>1. Threads' = Threads /\ Softmax' = Softmax /\ launch' = launch
  BY SameThreads DEF Steady
<1>2. \A c \in C \cap Threads : round[c] >= r /\ round[c] \in {1, 2}
  BY DEF Folded, TypeOK
<1>3. \A c \in C : Given(r, c)' = Given(r, c)
  BY <1>2, GivenStays
<1>4. \A c \in C \cap Threads : round'[c] >= r
  BY <1>2 DEF Steady
<1>5. Adding(r)' = Adding(r) /\ Greatest(r)' = Greatest(r)
  BY <1>1 DEF Adding, Greatest
<1>6. SumGiven(r, C)' = SumGiven(r, C)
  <2>1. [c \in C |-> Given(r, c)]' = [c \in C |-> Given(r, c)]
    BY <1>3
  <2> QED BY <2>1 DEF SumGiven
<1> QED BY <1>1, <1>3, <1>4, <1>5, <1>6 DEF Folded

\* A register that a step leaves alone stays what it should be.
LEMMA RegisterStays ==
  ASSUME TypeOK, Steady, NEW t \in Threads, RegisterOK(t),
         pc'[t] = pc[t], round'[t] = round[t], ex'[t] = ex[t], val'[t] = val[t]
  PROVE  RegisterOK(t)'
<1>1. round[t] \in {1, 2} /\ 1 \in {1, 2} /\ launch' = launch
  BY DEF TypeOK, Steady
<1>2. /\ Softmax' = Softmax /\ NumWarps' = NumWarps /\ Wid(t)' = Wid(t)
      /\ WarpOf(t[1], Wid(t))' = WarpOf(t[1], Wid(t))
      /\ Slice(t)' = Slice(t) /\ Parts(t[1])' = Parts(t[1])
  BY <1>1, SameThreads, SameSets DEF Wid
<1>3. Given(round[t], t)' = Given(round[t], t)
  <2>1. \A r \in {1, 2} : r = round[t] => Given(r, t)' = Given(r, t)
    BY <1>1, GivenStays
  <2> QED BY <1>1, <2>1
<1>4. pc[t] = "write" /\ Wid(t) < NumWarps => Folded(round[t], val[t], WarpOf(t[1], Wid(t)))'
  BY <1>1, <1>2, FoldedStays DEF RegisterOK
<1>5. pc[t] = "shuffle0" => Folded(round[t], val[t], Slice(t))'
  BY <1>1, <1>2, FoldedStays DEF RegisterOK
<1>6. t[2] = 0 /\ pc[t] \in {"atomic", "broadcast"} => Folded(round[t], val[t], Parts(t[1]))'
  BY <1>1, <1>2, FoldedStays DEF RegisterOK
<1>7. t[2] = 0 /\ pc[t] = "done" /\ ~Softmax => Folded(1, val[t], Parts(t[1]))'
  BY <1>1, <1>2, FoldedStays DEF RegisterOK
<1> QED BY <1>2, <1>3, <1>4, <1>5, <1>6, <1>7 DEF RegisterOK

\* A cell that is about to be read and that a step leaves alone, too.
LEMMA CellStays ==
  ASSUME TypeOK, Steady, NEW t \in Threads, CellOK(t),
         pc'[t] = pc[t], round'[t] = round[t],
         pc[t] = "sync" /\ Lane(t) = 0 /\ Wid(t) < NumWarps
           => shared'[t[1]][Wid(t)] = shared[t[1]][Wid(t)],
         pc[t] = "read" /\ ReadsWarp(t) => shared'[t[1]][t[2]] = shared[t[1]][t[2]],
         t[2] = 0 /\ round[t] = 2 /\ pc[t] \in {"syncBroadcast", "take", "done"}
           => shared'[t[1]][0] = shared[t[1]][0]
  PROVE  CellOK(t)'
<1>1. round[t] \in {1, 2} /\ 2 \in {1, 2} /\ launch' = launch
  BY DEF TypeOK, Steady
<1>2. /\ NumWarps' = NumWarps /\ Wid(t)' = Wid(t) /\ Lane(t)' = Lane(t)
      /\ ReadsWarp(t)' = ReadsWarp(t)
      /\ WarpOf(t[1], Wid(t))' = WarpOf(t[1], Wid(t))
      /\ WarpOf(t[1], t[2])' = WarpOf(t[1], t[2]) /\ Parts(t[1])' = Parts(t[1])
  BY <1>1, SameThreads, SameSets DEF Wid, Lane, ReadsWarp
<1>3. pc[t] = "sync" /\ Lane(t) = 0 /\ Wid(t) < NumWarps
        => Folded(round[t], shared[t[1]][Wid(t)], WarpOf(t[1], Wid(t)))'
  BY <1>1, <1>2, FoldedStays DEF CellOK
<1>4. pc[t] = "read" /\ ReadsWarp(t)
        => Folded(round[t], shared[t[1]][t[2]], WarpOf(t[1], t[2]))'
  BY <1>1, <1>2, FoldedStays DEF CellOK
<1>5. t[2] = 0 /\ round[t] = 2 /\ pc[t] \in {"syncBroadcast", "take", "done"}
        => Folded(2, shared[t[1]][0], Parts(t[1]))'
  BY <1>1, <1>2, FoldedStays DEF CellOK
<1> QED BY <1>2, <1>3, <1>4, <1>5 DEF CellOK

\* The items are the threads and a pad for each thread at most.
Items == Blocks \X (-launch.block .. launch.block)

LEMMA ItemsFinite ==
  ASSUME launch \in Launches
  PROVE  /\ IsFiniteSet(Items) /\ Threads \in SUBSET Items
         /\ \A C \in SUBSET Items : IsFiniteSet(C)
         /\ IsFiniteSet(Blocks)
<1>1. launch.block \in Nat \ {0} /\ launch.grid \in Nat \ {0}
  BY LaunchFacts
<1>2. IsFiniteSet(Blocks)
  BY <1>1, FS_Interval DEF Blocks
<1>3. IsFiniteSet(-launch.block .. launch.block)
  <2>1. -launch.block \in Int /\ launch.block \in Int
    BY <1>1
  <2> QED BY <2>1, FS_Interval
<1>4. IsFiniteSet(Items)
  BY <1>2, <1>3, FS_Product DEF Items
<1>5. Threads \in SUBSET Items
  <2>1. Indices \subseteq -launch.block .. launch.block
    BY <1>1 DEF Indices
  <2> QED BY <2>1 DEF Threads, Items
<1>6. \A C \in SUBSET Items : IsFiniteSet(C)
  BY <1>4, FS_Subset
<1> QED BY <1>2, <1>4, <1>5, <1>6

\* The slices of the threads of a first warp are apart.
LEMMA Slices ==
  ASSUME launch \in Launches, NEW b \in Blocks
  PROVE  /\ \A u \in WarpOf(b, 0) : Slice(u) \in SUBSET Items /\ \A c \in Slice(u) : c[1] = b
         /\ \A u, v \in WarpOf(b, 0) : u # v => Slice(u) \cap Slice(v) = {}
<1>1. launch.block \in Nat \ {0} /\ NumWarps \in Nat \ {0} /\ Threads \in SUBSET Items
  BY LaunchFacts, ItemsFinite
<1>2. ASSUME NEW u \in WarpOf(b, 0)
      PROVE  u \in Threads /\ u[1] = b /\ u[2] \in Indices /\ u = <<u[1], u[2]>>
  BY DEF WarpOf, Threads
<1>3. ASSUME NEW u \in WarpOf(b, 0), ~ReadsWarp(u)
      PROVE  Slice(u) = {<<b, -u[2]>>} /\ <<b, -u[2]>> \in Items \ Threads
  <2>1. Slice(u) = {<<b, -u[2]>>}
    BY <1>2, <1>3 DEF Slice
  <2>2. u[2] \in Nat /\ u[2] < launch.block /\ u[2] >= NumWarps
    BY <1>1, <1>2, <1>3 DEF ReadsWarp, Indices
  <2>3. -u[2] \in -launch.block .. launch.block /\ -u[2] \notin Indices
    BY <1>1, <2>2 DEF Indices
  <2> QED BY <2>1, <2>3 DEF Items, Threads
<1>4. ASSUME NEW u \in WarpOf(b, 0), ReadsWarp(u)
      PROVE  Slice(u) = WarpOf(b, u[2]) /\ Slice(u) \in SUBSET Threads
  BY <1>2, <1>4 DEF Slice, WarpOf
<1>5. ASSUME NEW u \in WarpOf(b, 0)
      PROVE  Slice(u) \in SUBSET Items /\ \A c \in Slice(u) : c[1] = b
  <2>1. CASE ReadsWarp(u)
    <3>1. \A c \in WarpOf(b, u[2]) : c[1] = b
      BY DEF WarpOf
    <3> QED BY <1>1, <1>4, <2>1, <3>1
  <2>2. CASE ~ReadsWarp(u)
    <3>1. Slice(u) = {<<b, -u[2]>>} /\ <<b, -u[2]>> \in Items
      BY <1>3, <2>2
    <3> QED BY <3>1
  <2> QED BY <2>1, <2>2
<1>6. ASSUME NEW u \in WarpOf(b, 0), NEW v \in WarpOf(b, 0), u # v
      PROVE  Slice(u) \cap Slice(v) = {}
  <2>1. u[2] # v[2] /\ u[2] \in Nat /\ v[2] \in Nat
    BY <1>1, <1>2, <1>6 DEF Indices
  <2>2. CASE ReadsWarp(u) /\ ReadsWarp(v)
    <3>1. WarpOf(b, u[2]) \cap WarpOf(b, v[2]) = {}
      BY <2>1 DEF WarpOf
    <3> QED BY <1>4, <2>2, <3>1
  <2>3. CASE ReadsWarp(u) /\ ~ReadsWarp(v)
    BY <1>3, <1>4, <2>3
  <2>4. CASE ~ReadsWarp(u) /\ ReadsWarp(v)
    BY <1>3, <1>4, <2>4
  <2>5. CASE ~ReadsWarp(u) /\ ~ReadsWarp(v)
    <3>1. -u[2] # -v[2]
      BY <2>1
    <3>2. <<b, -u[2]>> # <<b, -v[2]>>
      BY <3>1
    <3> QED BY <1>3, <2>5, <3>2
  <2> QED BY <2>2, <2>3, <2>4, <2>5
<1> QED BY <1>5, <1>6

LEMMA PartsApart ==
  ASSUME launch \in Launches
  PROVE  /\ \A b \in Blocks : Parts(b) \in SUBSET Items /\ \A c \in Parts(b) : c[1] = b
         /\ Arrived \in SUBSET Items /\ Finished \in SUBSET Blocks
         /\ \A b \in Blocks : b \notin Finished => Arrived \cap Parts(b) = {}
<1>1. ASSUME NEW b \in Blocks
      PROVE  Parts(b) \in SUBSET Items /\ \A c \in Parts(b) : c[1] = b
  <2>1. \A u \in WarpOf(b, 0) : Slice(u) \in SUBSET Items /\ \A c \in Slice(u) : c[1] = b
    BY Slices
  <2> QED BY <2>1 DEF Parts
<1>2. Finished \in SUBSET Blocks
  BY DEF Finished
<1>3. Arrived \in SUBSET Items
  BY <1>1, <1>2 DEF Arrived
<1>4. ASSUME NEW b \in Blocks, b \notin Finished PROVE Arrived \cap Parts(b) = {}
  <2>1. \A c \in Arrived : c[1] # b
    BY <1>1, <1>2, <1>4 DEF Arrived
  <2> QED BY <1>1, <2>1
<1> QED BY <1>1, <1>2, <1>3, <1>4

LEMMA SameGiven ==
  ASSUME launch' = launch, data' = data
  PROVE  /\ \A c : Given(1, c)' = Given(1, c)
         /\ \A C : SumGiven(1, C)' = SumGiven(1, C)
<1>1. Threads' = Threads /\ Pad' = Pad /\ \A c : Loaded(c)' = Loaded(c)
  BY SameThreads, SameLoaded
<1>2. ASSUME NEW c PROVE Given(1, c)' = Given(1, c)
  BY <1>1 DEF Given
<1>3. ASSUME NEW C PROVE SumGiven(1, C)' = SumGiven(1, C)
  <2>1. [c \in C |-> Given(1, c)]' = [c \in C |-> Given(1, c)]
    BY <1>2
  <2> QED BY <2>1 DEF SumGiven
<1> QED BY <1>2, <1>3

\* What reached *output stays there.
LEMMA DeliveredStays ==
  ASSUME Delivered, launch' = launch, data' = data, output' = output, Finished' = Finished,
         0 \in Finished => val'[<<0, 0>>] = val[<<0, 0>>]
  PROVE  Delivered'
<1>1. Arrived' = Arrived
  BY SameSets DEF Arrived
<1>2. /\ N' = N /\ SumGiven(1, Arrived)' = SumGiven(1, Arrived)
      /\ \A c : Given(1, c)' = Given(1, c)
  BY <1>1, SameLoaded, SameGiven
<1> QED BY <1>1, <1>2 DEF Delivered

LEMMA StoredStays ==
  ASSUME Stored, launch' = launch, data' = data, output' = output, round' = round, ex' = ex,
         Softmax => \A t \in Threads :
           pc'[t] = "done" => pc[t] = "done" /\ shared'[t[1]][0] = shared[t[1]][0]
  PROVE  Stored'
<1>1. Threads' = Threads /\ Softmax' = Softmax /\ \A t : Idx(t)' = Idx(t)
  BY SameThreads, SameLoaded
<1> QED BY <1>1 DEF Stored

\* softmax has one block, and delivers nothing.
LEMMA DeliversNothing ==
  ASSUME launch \in Launches, launch' = launch, Softmax
  PROVE  Delivered' /\ Blocks = {0} /\ \A t \in Threads : t[1] = 0 /\ Idx(t) = t[2]
<1>1. launch.grid = 1 /\ launch.kernel = "softmax" /\ launch.block \in Nat
  BY LaunchFacts DEF Softmax
<1>2. Blocks = {0}
  BY <1>1 DEF Blocks
<1>3. \A t \in Threads : t[1] = 0 /\ t[2] \in Nat
  BY <1>1, <1>2 DEF Threads, Indices
<1> QED BY <1>1, <1>2, <1>3 DEF Delivered, Idx

\* Nobody is about to read what a thread is about to write.
LEMMA NobodyReads ==
  ASSUME IInv, NEW u \in Threads, NEW t \in Threads, t[1] = u[1], t # u
  PROVE  /\ pc[u] = "write" =>
              /\ pc[t] = "sync" /\ Lane(t) = 0 => Wid(t) # Wid(u)
              /\ pc[t] # "read"
              /\ ~(round[t] = 2 /\ pc[t] \in {"syncBroadcast", "take", "done"})
         /\ pc[u] = "broadcast" =>
              /\ pc[t] # "sync"
              /\ pc[t] = "read" => ~ReadsWarp(t)
              /\ t[2] # 0
              /\ ~(round[t] = 2 /\ pc[t] = "done")
<1>1. /\ Stage(t) = Stage(u) /\ round[t] \in {1, 2} /\ round[u] \in {1, 2}
      /\ launch \in Launches /\ LabelOK(t, pc[t], round[t]) /\ LabelOK(u, pc[u], round[u])
  BY DEF IInv, TypeOK, Together, LabelOK
<1>2. /\ t = <<t[1], t[2]>> /\ u = <<u[1], u[2]>>
      /\ t[2] = WarpSize * Wid(t) + Lane(t) /\ u[2] = WarpSize * Wid(u) + Lane(u)
      /\ u[2] = 0 => Wid(u) = 0
      /\ t[2] < NumWarps => Wid(t) = 0
  BY <1>1, ThreadsNat
<1>3. CASE pc[u] = "write"
  <2>1. Lane(u) = 0 /\ Stage(u) \in {0, 2}
    BY <1>1, <1>3 DEF LabelOK, Stage
  <2>2. Lane(t) = 0 => Wid(t) # Wid(u)
    BY <1>2, <2>1
  <2>3. pc[t] # "read" /\ ~(round[t] = 2 /\ pc[t] \in {"syncBroadcast", "take", "done"})
    BY <1>1, <2>1 DEF Stage
  <2> QED BY <1>3, <2>2, <2>3
<1>4. CASE pc[u] = "broadcast"
  <2>1. u[2] = 0 /\ Wid(u) = 0 /\ Stage(u) \in {1, 3}
    BY <1>1, <1>2, <1>4 DEF LabelOK, Stage
  <2>2. pc[t] # "sync" /\ ~(round[t] = 2 /\ pc[t] = "done")
    BY <1>1, <2>1 DEF Stage
  <2>3. t[2] # 0
    BY <1>2, <2>1
  <2>4. pc[t] = "read" => ~ReadsWarp(t)
    BY <1>2, <1>4, <2>1 DEF IInv, Lockstep, SameWarp, ReadsWarp
  <2> QED BY <1>4, <2>2, <2>3, <2>4
<1> QED BY <1>3, <1>4

-----------------------------------------------------------------------------
(* The steps of one thread.                                                 *)

\* The cells of shared memory that threads use.
LEMMA Cells ==
  ASSUME launch \in Launches, NEW t \in Threads
  PROVE  /\ t[1] \in Blocks /\ Wid(t) \in Warps /\ 0 \in Warps /\ WarpSize \in Nat \ {0}
         /\ ReadsWarp(t) => /\ t[2] \in Warps /\ Lane(t) = t[2] /\ t[2] \in 0 .. NumWarps - 1
                            /\ At(t[1], t[2], 0) \in WarpOf(t[1], t[2])
                            /\ Lane(At(t[1], t[2], 0)) = 0
<1>1. /\ t[1] \in Blocks /\ t[2] \in Indices /\ t[2] \in Nat /\ 0 \in Indices
      /\ WarpSize \in Nat \ {0} /\ NumWarps \in 1 .. WarpSize
  BY LaunchFacts, ThreadsNat DEF Threads
<1>2. Wid(t) \in Warps /\ 0 \in Warps
  <2>1. 0 \div WarpSize = 0
    BY <1>1, FirstWarp
  <2> QED BY <1>1, <2>1 DEF Warps, Wid
<1>3. ASSUME ReadsWarp(t)
      PROVE  /\ t[2] \in Warps /\ Lane(t) = t[2] /\ t[2] \in 0 .. NumWarps - 1
             /\ At(t[1], t[2], 0) \in WarpOf(t[1], t[2]) /\ Lane(At(t[1], t[2], 0)) = 0
  <2>1. t[2] \in 0 .. NumWarps - 1 /\ t[2] < WarpSize /\ 0 \in 0 .. WarpSize - 1
    BY <1>1, <1>3 DEF ReadsWarp
  <2>2. Lane(t) = t[2]
    BY <1>1, <2>1, FirstWarp DEF Lane
  <2>3. At(t[1], t[2], 0) \in WarpOf(t[1], t[2]) /\ Lane(At(t[1], t[2], 0)) = 0
    BY <1>1, <2>1, WarpThreads
  <2>4. t[2] \in Warps
    <3>1. PICK s \in Threads : Wid(s) = t[2]
      BY <2>3 DEF WarpOf
    <3> QED BY <3>1 DEF Warps, Wid, Threads
  <2> QED BY <2>1, <2>2, <2>3, <2>4
<1> QED BY <1>1, <1>2, <1>3

LEMMA CellWritten ==
  ASSUME shared \in [Blocks -> [Warps -> Values]], NEW b \in Blocks, NEW w \in Warps,
         NEW v \in Values, shared' = [shared EXCEPT ![b][w] = v]
  PROVE  /\ shared' \in [Blocks -> [Warps -> Values]]
         /\ \A a \in Blocks, x \in Warps :
              shared'[a][x] = IF a = b /\ x = w THEN v ELSE shared[a][x]
OBVIOUS

LEMMA WriteKeeps == ASSUME IInv, VInv, NEW u \in Threads, Write(u) PROVE VInv'
<1>1. /\ pc[u] = "write" /\ pc' = [pc EXCEPT ![u] = "sync"]
      /\ shared' = [shared EXCEPT ![u[1]][Wid(u)] = val[u]]
      /\ launch' = launch /\ data' = data /\ round' = round /\ val' = val /\ ex' = ex
      /\ output' = output
  BY DEF Write, GoTo
<1>2. /\ TypeOK /\ launch \in Launches /\ pc \in [Threads -> Labels] /\ ValuesOK
      /\ val \in [Threads -> Values] /\ shared \in [Blocks -> [Warps -> Values]]
  BY DEF IInv, TypeOK, VInv, ValuesOK
<1>3. Steady
  BY <1>1 DEF Steady
<1>4. Threads' = Threads /\ Blocks' = Blocks /\ Warps' = Warps /\ Values' = Values
  BY <1>1, SameThreads
<1>5. /\ shared' \in [Blocks -> [Warps -> Values]]
      /\ \A a \in Blocks, x \in Warps :
           shared'[a][x] = IF a = u[1] /\ x = Wid(u) THEN val[u] ELSE shared[a][x]
  <2>1. u[1] \in Blocks /\ Wid(u) \in Warps /\ val[u] \in Values
    BY <1>2, Cells
  <2> QED BY <1>1, <1>2, <2>1, CellWritten
<1>6. ValuesOK'
  BY <1>1, <1>2, <1>4, <1>5 DEF ValuesOK, N
<1>7. pc'[u] = "sync" /\ \A t \in Threads : t # u => pc'[t] = pc[t]
  BY <1>1, <1>2
<1>8. RegistersFolded'
  <2>1. ASSUME NEW t \in Threads PROVE RegisterOK(t)'
    <3>1. CASE t # u
      BY <1>1, <1>2, <1>3, <1>7, <3>1, RegisterStays DEF VInv, RegistersFolded
    <3>2. CASE t = u
      BY <1>7, <3>2 DEF RegisterOK
    <3> QED BY <3>1, <3>2
  <2> QED BY <1>4, <2>1 DEF RegistersFolded
<1>9. SharedFolded'
  <2>1. ASSUME NEW t \in Threads PROVE CellOK(t)'
    <3>1. CASE t # u
      <4>1. /\ pc[t] = "sync" /\ Lane(t) = 0 /\ Wid(t) < NumWarps
                 => shared'[t[1]][Wid(t)] = shared[t[1]][Wid(t)]
            /\ pc[t] = "read" /\ ReadsWarp(t) => shared'[t[1]][t[2]] = shared[t[1]][t[2]]
            /\ t[2] = 0 /\ round[t] = 2 /\ pc[t] \in {"syncBroadcast", "take", "done"}
                 => shared'[t[1]][0] = shared[t[1]][0]
        BY <1>1, <1>2, <1>5, <3>1, Cells, NobodyReads
      <4> QED BY <1>1, <1>2, <1>3, <1>7, <3>1, <4>1, CellStays DEF VInv, SharedFolded
    <3>2. CASE t = u
      <4>1. round[u] \in {1, 2} /\ Wid(u)' = Wid(u) /\ NumWarps' = NumWarps
            /\ WarpOf(u[1], Wid(u))' = WarpOf(u[1], Wid(u))
        BY <1>1, <1>2, SameThreads, SameSets DEF TypeOK, Wid
      <4>2. Wid(u) < NumWarps => Folded(round[u], val[u], WarpOf(u[1], Wid(u)))
        BY <1>1 DEF VInv, RegistersFolded, RegisterOK
      <4>3. shared'[u[1]][Wid(u)] = val[u]
        BY <1>2, <1>5, Cells
      <4>4. Wid(u) < NumWarps
              => Folded(round[u], shared[u[1]][Wid(u)], WarpOf(u[1], Wid(u)))'
        BY <1>1, <1>2, <1>3, <4>1, <4>2, <4>3, FoldedStays
      <4> QED BY <1>7, <3>2, <4>1, <4>4 DEF CellOK
    <3> QED BY <3>1, <3>2
  <2> QED BY <1>4, <2>1 DEF SharedFolded
<1>10. Delivered'
  <2>1. Finished' = Finished
    <3>1. \A b \in Blocks : <<b, 0>> \in Threads
      BY <1>2, LaunchFacts DEF Threads
    <3> QED BY <1>1, <1>4, <1>7, <3>1 DEF Finished
  <2> QED BY <1>1, <2>1, DeliveredStays DEF VInv
<1>11. Stored'
  <2>1. ASSUME Softmax, NEW t \in Threads, pc'[t] = "done"
        PROVE  pc[t] = "done" /\ shared'[t[1]][0] = shared[t[1]][0]
    <3>1. t # u /\ pc[t] = "done"
      BY <1>7, <2>1
    <3>2. round[t] = 2
      BY <2>1, <3>1 DEF VInv, Stored
    <3> QED BY <1>1, <1>2, <1>5, <3>1, <3>2, Cells, NobodyReads
  <2> QED BY <1>1, <2>1, StoredStays DEF VInv
<1> QED BY <1>6, <1>8, <1>9, <1>10, <1>11 DEF VInv

\* A step of one thread that stores nothing in shared memory leaves what the
\* other threads hold and read.
LEMMA OthersKeep ==
  ASSUME IInv, VInv, Steady, NEW u \in Threads, shared' = shared,
         \A t \in Threads : t # u =>
           pc'[t] = pc[t] /\ round'[t] = round[t] /\ ex'[t] = ex[t] /\ val'[t] = val[t],
         RegisterOK(u)', CellOK(u)'
  PROVE  RegistersFolded' /\ SharedFolded'
<1>1. Threads' = Threads /\ TypeOK
  BY SameThreads DEF Steady, IInv
<1>2. ASSUME NEW t \in Threads PROVE RegisterOK(t)'
  BY <1>1, RegisterStays DEF VInv, RegistersFolded
<1>3. ASSUME NEW t \in Threads PROVE CellOK(t)'
  BY <1>1, CellStays DEF VInv, SharedFolded
<1> QED BY <1>1, <1>2, <1>3 DEF RegistersFolded, SharedFolded

LEMMA BroadcastKeeps == ASSUME IInv, VInv, NEW u \in Threads, Broadcast(u) PROVE VInv'
<1>1. /\ pc[u] = "broadcast" /\ pc' = [pc EXCEPT ![u] = "syncBroadcast"]
      /\ shared' = [shared EXCEPT ![u[1]][0] = val[u]]
      /\ launch' = launch /\ data' = data /\ round' = round /\ val' = val /\ ex' = ex
      /\ output' = output
  BY DEF Broadcast, GoTo
<1>2. /\ TypeOK /\ launch \in Launches /\ pc \in [Threads -> Labels] /\ ValuesOK
      /\ val \in [Threads -> Values] /\ shared \in [Blocks -> [Warps -> Values]]
      /\ Softmax /\ u[2] = 0
  BY <1>1 DEF IInv, TypeOK, VInv, ValuesOK
<1>3. Steady
  BY <1>1 DEF Steady
<1>4. Threads' = Threads /\ Blocks' = Blocks /\ Warps' = Warps /\ Values' = Values
  BY <1>1, SameThreads
<1>5. /\ shared' \in [Blocks -> [Warps -> Values]]
      /\ \A a \in Blocks, x \in Warps :
           shared'[a][x] = IF a = u[1] /\ x = 0 THEN val[u] ELSE shared[a][x]
  <2>1. u[1] \in Blocks /\ 0 \in Warps /\ val[u] \in Values
    BY <1>2, Cells
  <2> QED BY <1>1, <1>2, <2>1, CellWritten
<1>6. ValuesOK'
  BY <1>1, <1>2, <1>4, <1>5 DEF ValuesOK, N
<1>7. pc'[u] = "syncBroadcast" /\ \A t \in Threads : t # u => pc'[t] = pc[t]
  BY <1>1, <1>2
<1>8. RegistersFolded'
  <2>1. ASSUME NEW t \in Threads PROVE RegisterOK(t)'
    <3>1. CASE t # u
      BY <1>1, <1>2, <1>3, <1>7, <3>1, RegisterStays DEF VInv, RegistersFolded
    <3>2. CASE t = u
      BY <1>7, <3>2 DEF RegisterOK
    <3> QED BY <3>1, <3>2
  <2> QED BY <1>4, <2>1 DEF RegistersFolded
<1>9. SharedFolded'
  <2>1. ASSUME NEW t \in Threads PROVE CellOK(t)'
    <3>1. CASE t # u
      <4>1. /\ pc[t] = "sync" /\ Lane(t) = 0 /\ Wid(t) < NumWarps
                 => shared'[t[1]][Wid(t)] = shared[t[1]][Wid(t)]
            /\ pc[t] = "read" /\ ReadsWarp(t) => shared'[t[1]][t[2]] = shared[t[1]][t[2]]
            /\ t[2] = 0 /\ round[t] = 2 /\ pc[t] \in {"syncBroadcast", "take", "done"}
                 => shared'[t[1]][0] = shared[t[1]][0]
        BY <1>1, <1>2, <1>5, <3>1, Cells, NobodyReads
      <4> QED BY <1>1, <1>2, <1>3, <1>7, <3>1, <4>1, CellStays DEF VInv, SharedFolded
    <3>2. CASE t = u
      <4>1. Parts(u[1])' = Parts(u[1]) /\ 2 \in {1, 2}
        BY <1>1, SameSets
      <4>2. round[u] = 2 => Folded(2, val[u], Parts(u[1]))
        BY <1>1, <1>2 DEF VInv, RegistersFolded, RegisterOK
      <4>3. shared'[u[1]][0] = val[u]
        BY <1>2, <1>5, Cells
      <4>4. round[u] = 2 => Folded(2, shared[u[1]][0], Parts(u[1]))'
        BY <1>2, <1>3, <4>1, <4>2, <4>3, FoldedStays
      <4> QED BY <1>1, <1>7, <3>2, <4>4 DEF CellOK
    <3> QED BY <3>1, <3>2
  <2> QED BY <1>4, <2>1 DEF SharedFolded
<1>10. Delivered'
  BY <1>1, <1>2, DeliversNothing
<1>11. Stored'
  <2>1. ASSUME Softmax, NEW t \in Threads, pc'[t] = "done"
        PROVE  pc[t] = "done" /\ shared'[t[1]][0] = shared[t[1]][0]
    <3>1. t # u /\ pc[t] = "done"
      BY <1>7, <2>1
    <3>2. round[t] = 2
      BY <2>1, <3>1 DEF VInv, Stored
    <3> QED BY <1>1, <1>2, <1>5, <3>1, <3>2, Cells, NobodyReads
  <2> QED BY <1>1, <2>1, StoredStays DEF VInv
<1> QED BY <1>6, <1>8, <1>9, <1>10, <1>11 DEF VInv

LEMMA ReadKeeps == ASSUME IInv, VInv, NEW u \in Threads, Read(u) PROVE VInv'
<1> DEFINE x == IF ReadsWarp(u) THEN shared[u[1]][Lane(u)] ELSE Pad
           label == IF Wid(u) = 0 THEN "shuffle0" ELSE AfterReduction(u)
<1>1. /\ pc[u] = "read" /\ pc' = [pc EXCEPT ![u] = label]
      /\ val' = [val EXCEPT ![u] = x]
      /\ launch' = launch /\ data' = data /\ round' = round /\ shared' = shared /\ ex' = ex
      /\ output' = output
  BY DEF Read, GoTo
<1>2. /\ TypeOK /\ launch \in Launches /\ pc \in [Threads -> Labels] /\ ValuesOK
      /\ val \in [Threads -> Values] /\ shared \in [Blocks -> [Warps -> Values]]
      /\ round[u] \in {1, 2} /\ RoundOK(round[u]) /\ Sound
  BY DEF IInv, TypeOK, VInv, ValuesOK, RoundOK, Sound
<1>3. Steady
  BY <1>1 DEF Steady
<1>4. /\ Threads' = Threads /\ Blocks' = Blocks /\ Warps' = Warps /\ Values' = Values
      /\ Softmax' = Softmax
  BY <1>1, SameThreads
<1>5. /\ u[1] \in Blocks /\ u[2] \in Nat /\ u = <<u[1], u[2]>>
      /\ 0 \in Warps /\ u[2] < NumWarps => Wid(u) = 0
      /\ u[2] = 0 => Wid(u) = 0
      /\ ReadsWarp(u) => Lane(u) = u[2] /\ u[2] \in Warps
  BY <1>2, ThreadsNat, Cells
<1>6. /\ Wid(u) = 0 => label = "shuffle0"
      /\ Wid(u) # 0 => u[2] # 0 /\ label \in {"syncBroadcast", "done"} /\ (Softmax <=> label = "syncBroadcast")
  BY <1>5 DEF AfterReduction
<1>7. x \in Values
  BY <1>2, <1>5, PadType
<1> HIDE DEF label
<1>8. Folded(round[u], x, Slice(u))
  <2>1. CASE ReadsWarp(u)
    BY <1>1, <1>5, <2>1 DEF VInv, SharedFolded, CellOK, Slice
  <2>2. CASE ~ReadsWarp(u)
    <3> DEFINE c == <<u[1], -u[2]>>
    <3>1. c \notin Threads
      <4>1. u[2] >= NumWarps /\ NumWarps \in Nat \ {0} /\ launch.block \in Nat
        BY <1>2, <1>5, <2>2, LaunchFacts DEF ReadsWarp
      <4>2. -u[2] \notin Indices
        BY <1>5, <4>1 DEF Indices
      <4> QED BY <4>2 DEF Threads
    <3>2. Slice(u) = {c} /\ x = Pad
      BY <2>2 DEF Slice
    <3> HIDE DEF c, x
    <3>3. Given(round[u], c) = x
      BY <3>1, <3>2 DEF Given
    <3>4. Folded(round[u], Given(round[u], c), {c})
      BY <1>2, <3>1, FoldedOne
    <3> QED BY <3>2, <3>3, <3>4
  <2> QED BY <2>1, <2>2
<1> HIDE DEF x
<1>9. /\ pc'[u] = label /\ val'[u] = x
      /\ \A t \in Threads : t # u => pc'[t] = pc[t] /\ val'[t] = val[t]
      /\ val' \in [Threads -> Values]
  BY <1>1, <1>2, <1>7
<1>10. ValuesOK'
  BY <1>1, <1>2, <1>4, <1>9 DEF ValuesOK, N
<1>11. RegisterOK(u)'
  <2>1. Folded(round[u], val[u], Slice(u))'
    <3>1. Slice(u)' = Slice(u)
      BY <1>1, SameSets
    <3> QED BY <1>1, <1>2, <1>3, <1>8, <1>9, <3>1, FoldedStays
  <2> QED BY <1>5, <1>6, <1>9, <2>1 DEF RegisterOK
<1>12. CellOK(u)'
  BY <1>5, <1>6, <1>9 DEF CellOK
<1>13. RegistersFolded' /\ SharedFolded'
  BY <1>1, <1>3, <1>9, <1>11, <1>12, OthersKeep
<1>14. Delivered'
  <2>1. \A b \in Blocks : <<b, 0>> \in Threads
    BY <1>2, LaunchFacts DEF Threads
  <2>2. \A b \in Blocks : pc'[<<b, 0>>] = "done" <=> pc[<<b, 0>>] = "done"
    <3>1. u[2] = 0 => pc'[u] # "done" /\ pc[u] # "done"
      BY <1>1, <1>5, <1>6, <1>9
    <3>2. ASSUME NEW b \in Blocks
          PROVE  pc'[<<b, 0>>] = "done" <=> pc[<<b, 0>>] = "done"
      <4>1. CASE <<b, 0>> = u
        <5>1. u[2] = 0
          BY <4>1
        <5> QED BY <3>1, <4>1, <5>1
      <4>2. CASE <<b, 0>> # u
        BY <1>9, <2>1, <4>2
      <4> QED BY <4>1, <4>2
    <3> QED BY <3>2
  <2>3. Finished' = Finished
    BY <1>4, <2>2 DEF Finished
  <2>4. 0 \in Finished => val'[<<0, 0>>] = val[<<0, 0>>]
    BY <1>1, <1>9, <2>1 DEF Finished
  <2> QED BY <1>1, <2>3, <2>4, DeliveredStays DEF VInv
<1>15. Stored'
  <2>1. ASSUME Softmax, NEW t \in Threads, pc'[t] = "done"
        PROVE  pc[t] = "done" /\ shared'[t[1]][0] = shared[t[1]][0]
    BY <1>1, <1>6, <1>9, <2>1
  <2> QED BY <1>1, <2>1, StoredStays DEF VInv
<1> QED BY <1>10, <1>13, <1>14, <1>15 DEF VInv

LEMMA Distribute ==
  ASSUME NEW a \in Int, NEW b \in Int, NEW c \in Int
  PROVE  a * (b + c) = a * b + a * c /\ a * b \in Int /\ a * c \in Int
OBVIOUS

LEMMA LargerSmaller ==
  ASSUME NEW x \in Int, NEW y \in Int
  PROVE  /\ Larger(x, y) \in {x, y} /\ x <= Larger(x, y) /\ y <= Larger(x, y)
         /\ Larger(x, y) \in Int
         /\ Smaller(x, y) \in {x, y} /\ Smaller(x, y) <= x /\ Smaller(x, y) <= y
         /\ Smaller(x, y) \in Int
BY DEF Larger, Smaller

\* Rounding toward zero misses less than the divisor, either way.
LEMMA QuotientMisses ==
  ASSUME NEW x \in Int, NEW n \in Nat \ {0}
  PROVE  /\ Quotient(x, n) \in Int
         /\ x - n * Quotient(x, n) <= n - 1 /\ n * Quotient(x, n) - x <= n - 1
<1>1. CASE x >= 0
  <2>1. Quotient(x, n) = x \div n
    BY <1>1 DEF Quotient
  <2>2. x \div n \in Nat /\ x % n \in 0 .. n - 1 /\ x = n * (x \div n) + (x % n)
    <3>1. x \in Nat
      BY <1>1
    <3> QED BY <3>1, DivMod
  <2>3. n * (x \div n) \in Int
    BY <2>2
  <2> QED BY <2>1, <2>2, <2>3
<1>2. CASE x < 0
  <2> DEFINE y == -x
             d == y \div n
             m == y % n
  <2>1. y \in Nat
    BY <1>2
  <2>2. Quotient(x, n) = -d
    BY <1>2 DEF Quotient
  <2> HIDE DEF y
  <2>3. d \in Nat /\ m \in 0 .. n - 1 /\ y = n * d + m
    BY <2>1, DivMod
  <2> HIDE DEF d, m
  <2>4. n * (-d) = -(n * d) /\ n * d \in Int
    BY <2>3
  <2> QED BY <2>2, <2>3, <2>4 DEF y
<1> QED BY <1>1, <1>2

\* The result of a block joins those that have arrived.
LEMMA DeliveredMore ==
  ASSUME Sound, Delivered, launch' = launch, data' = data, NEW b \in Blocks, b \notin Finished,
         Finished' = Finished \cup {b}, NEW v, Folded(1, v, Parts(b)),
         launch.grid = 1 => b = 0 /\ val'[<<0, 0>>] = v,
         output' = CASE launch.kernel = "sum"    -> output + v
                     [] launch.kernel = "mean"   -> output + Quotient(v, N)
                     [] launch.kernel = "max"    -> Larger(output, v)
                     [] launch.kernel = "min"    -> Smaller(output, v)
                     [] launch.kernel = "argmax" -> Smaller(output, v.idx)
  PROVE  Delivered'
<1>1. /\ launch \in Launches /\ RoundOK(1) /\ ValuesOK /\ N' = N
      /\ Lowest \in Int /\ Highest \in Int /\ N \in Nat \ {0}
      /\ \A C : SumGiven(1, C)' = SumGiven(1, C)
      /\ \A c : Given(1, c)' = Given(1, c) /\ Given(1, c) \in Values
  BY SameGiven, SameLoaded, GivenType, LaunchFacts, InputFacts
     DEF Sound, TypeOK, ValuesOK, RoundOK
<1>2. /\ IsFiniteSet(Arrived) /\ IsFiniteSet(Parts(b)) /\ Arrived \cap Parts(b) = {}
      /\ IsFiniteSet(Finished)
  <2>1. /\ Parts(b) \in SUBSET Items /\ Arrived \in SUBSET Items /\ Finished \in SUBSET Blocks
        /\ Arrived \cap Parts(b) = {}
    BY <1>1, PartsApart
  <2> QED BY <1>1, <2>1, ItemsFinite, FS_Subset
<1>3. Arrived' = Arrived \cup Parts(b)
  <2>1. \A a : Parts(a)' = Parts(a)
    BY SameSets
  <2> QED BY <2>1 DEF Arrived
<1>4. v \in Values
  BY <1>1, <1>2, FoldedType
<1>5. Adding(1) => /\ SumGiven(1, Arrived) \in Int
                   /\ SumGiven(1, Arrived)' = SumGiven(1, Arrived) + v
  <2>1. SumGiven(1, Arrived)' = SumGiven(1, Arrived \cup Parts(b))
    BY <1>1, <1>3
  <2> QED BY <1>1, <1>2, <2>1, SumGivenType, SumGivenBoth DEF Folded
<1>6. ASSUME launch.kernel = "sum" PROVE output' = SumGiven(1, Arrived)'
  <2>1. Adding(1) /\ output = SumGiven(1, Arrived) /\ output' = output + v
    BY <1>6 DEF Adding, Delivered
  <2> QED BY <1>5, <2>1
<1>7. ASSUME launch.kernel = "mean"
      PROVE  /\ output' \in Int
             /\ SumGiven(1, Arrived)' - N' * output' <= (N' - 1) * Cardinality(Finished')
             /\ N' * output' - SumGiven(1, Arrived)' <= (N' - 1) * Cardinality(Finished')
  <2> DEFINE s == SumGiven(1, Arrived)
             q == Quotient(v, N)
             k == Cardinality(Finished)
  <2>1. Adding(1) /\ output' = output + q /\ output \in Int
        /\ s - N * output <= (N - 1) * k /\ N * output - s <= (N - 1) * k
    BY <1>7 DEF Adding, Delivered
  <2>2. SumGiven(1, Arrived)' = s + v /\ s \in Int /\ v \in Int
    <3>1. Values = Int
      BY <1>7 DEF Values
    <3> QED BY <1>4, <1>5, <2>1, <3>1
  <2>3. q \in Int /\ v - N * q <= N - 1 /\ N * q - v <= N - 1
    BY <1>1, <2>2, QuotientMisses
  <2>4. Cardinality(Finished') = k + 1 /\ k \in Nat
    BY <1>2, FS_AddElement, FS_CardinalityType
  <2> HIDE DEF s, q, k
  <2>5. N * (output + q) = N * output + N * q /\ N * output \in Int /\ N * q \in Int
    <3>1. N \in Int
      BY <1>1
    <3> QED BY <2>1, <2>3, <3>1, Distribute
  <2>6. (N - 1) * (k + 1) = (N - 1) * k + (N - 1) /\ (N - 1) * k \in Int
    <3>1. N - 1 \in Int /\ k \in Int /\ 1 \in Int /\ (N - 1) * 1 = N - 1
      BY <1>1, <2>4
    <3> QED BY <3>1, Distribute
  <2>7. output + q \in Int
    BY <2>1, <2>3
  <2>8. /\ (s + v) - N * (output + q) <= (N - 1) * (k + 1)
        /\ N * (output + q) - (s + v) <= (N - 1) * (k + 1)
    BY <1>1, <2>1, <2>2, <2>3, <2>5, <2>6
  <2> QED BY <1>1, <2>1, <2>2, <2>4, <2>7, <2>8
<1>8. ASSUME launch.kernel = "max"
      PROVE  /\ output' = Lowest \/ output' \in {Given(1, c)' : c \in Arrived'}
             /\ \A c \in Arrived' : Given(1, c)' <= output'
  <2>1. /\ Greatest(1) /\ ~Adding(1) /\ Values = Int /\ output' = Larger(output, v)
        /\ output = Lowest \/ output \in {Given(1, c) : c \in Arrived}
        /\ \A c \in Arrived : Given(1, c) <= output
    BY <1>8 DEF Greatest, Adding, Softmax, Values, Delivered
  <2>2. v \in {Given(1, c) : c \in Parts(b)} /\ \A c \in Parts(b) : Given(1, c) <= v
    BY <2>1 DEF Folded
  <2>3. \A c : Given(1, c) \in Int /\ Given(1, c)' = Given(1, c)
    BY <1>1, <2>1
  <2>4. output \in Int /\ v \in Int
    BY <1>1, <1>4, <2>1, <2>3
  <2>5. output' \in {output, v} /\ output <= output' /\ v <= output' /\ output' \in Int
    <3>1. Larger(output, v) \in {output, v} /\ output <= Larger(output, v) /\ v <= Larger(output, v) /\ Larger(output, v) \in Int
      BY ONLY <2>4, LargerSmaller
    <3>2. output' = Larger(output, v)
      BY <2>1
    <3> QED BY ONLY <3>1, <3>2
  <2>6. \A c \in Arrived \cup Parts(b) : Given(1, c) <= output'
    <3>1. \A x, y, z \in Int : x <= y /\ y <= z => x <= z
      OBVIOUS
    <3> QED BY <2>1, <2>2, <2>3, <2>4, <2>5, <3>1
  <2>7. output' = Lowest \/ output' \in {Given(1, c) : c \in Arrived \cup Parts(b)}
    BY <2>1, <2>2, <2>5
  <2> QED BY <1>3, <2>3, <2>6, <2>7
<1>9. ASSUME launch.kernel = "min"
      PROVE  /\ output' = Highest \/ output' \in {Given(1, c)' : c \in Arrived'}
             /\ \A c \in Arrived' : output' <= Given(1, c)'
  <2>1. /\ ~Adding(1) /\ Values = Int /\ output' = Smaller(output, v)
        /\ output = Highest \/ output \in {Given(1, c) : c \in Arrived}
        /\ \A c \in Arrived : output <= Given(1, c)
    BY <1>9 DEF Adding, Softmax, Values, Delivered
  <2>2. v \in {Given(1, c) : c \in Parts(b)} /\ \A c \in Parts(b) : v <= Given(1, c)
    BY <1>9, <2>1 DEF Folded
  <2>3. \A c : Given(1, c) \in Int /\ Given(1, c)' = Given(1, c)
    BY <1>1, <2>1
  <2>4. output \in Int /\ v \in Int
    BY <1>1, <1>4, <2>1, <2>3
  <2>5. output' \in {output, v} /\ output' <= output /\ output' <= v /\ output' \in Int
    <3>1. Smaller(output, v) \in {output, v} /\ Smaller(output, v) <= output /\ Smaller(output, v) <= v /\ Smaller(output, v) \in Int
      BY ONLY <2>4, LargerSmaller
    <3>2. output' = Smaller(output, v)
      BY <2>1
    <3> QED BY ONLY <3>1, <3>2
  <2>6. \A c \in Arrived \cup Parts(b) : output' <= Given(1, c)
    <3>1. \A x, y, z \in Int : x <= y /\ y <= z => x <= z
      OBVIOUS
    <3> QED BY <2>1, <2>2, <2>3, <2>4, <2>5, <3>1
  <2>7. output' = Highest \/ output' \in {Given(1, c) : c \in Arrived \cup Parts(b)}
    BY <2>1, <2>2, <2>5
  <2> QED BY <1>3, <2>3, <2>6, <2>7
<1>10. ASSUME launch.kernel = "argmax", launch.grid = 1
       PROVE  output' = IF 0 \in Finished' THEN Smaller(Highest, val'[<<0, 0>>].idx) ELSE Highest
  BY <1>10 DEF Delivered
<1>11. launch.kernel' = launch.kernel /\ launch.grid' = launch.grid
  OBVIOUS
<1> QED BY <1>6, <1>7, <1>8, <1>9, <1>10, <1>11 DEF Delivered

LEMMA AtomicKeeps == ASSUME IInv, VInv, NEW u \in Threads, Atomic(u) PROVE VInv'
<1>1. /\ pc[u] = "atomic" /\ pc' = [pc EXCEPT ![u] = "done"]
      /\ launch' = launch /\ data' = data /\ round' = round /\ val' = val /\ ex' = ex
      /\ shared' = shared
  BY DEF Atomic, GoTo
<1>2. /\ TypeOK /\ launch \in Launches /\ pc \in [Threads -> Labels] /\ ValuesOK /\ Sound
      /\ ~Softmax /\ u[2] = 0 /\ round[u] = 1
  BY <1>1 DEF IInv, TypeOK, VInv, Sound
<1>3. Steady
  BY <1>1 DEF Steady
<1>4. /\ Threads' = Threads /\ Blocks' = Blocks /\ Warps' = Warps /\ Values' = Values
      /\ Softmax' = Softmax
  BY <1>1, SameThreads
<1>5. ValuesOK'
  BY <1>1, <1>2, <1>4 DEF ValuesOK, N
<1>6. pc'[u] = "done" /\ \A t \in Threads : t # u => pc'[t] = pc[t]
  BY <1>1, <1>2
<1>7. Folded(1, val[u], Parts(u[1]))
  BY <1>1, <1>2 DEF VInv, RegistersFolded, RegisterOK
<1>8. RegisterOK(u)'
  <2>1. Folded(1, val[u], Parts(u[1]))'
    <3>1. Parts(u[1])' = Parts(u[1]) /\ 1 \in {1, 2}
      BY <1>1, SameSets
    <3> QED BY <1>1, <1>2, <1>3, <1>7, <3>1, FoldedStays
  <2> QED BY <1>6, <2>1 DEF RegisterOK
<1>9. CellOK(u)'
  BY <1>1, <1>2, <1>6 DEF CellOK
<1>10. RegistersFolded' /\ SharedFolded'
  BY <1>1, <1>3, <1>6, <1>8, <1>9, OthersKeep
<1>11. Delivered'
  <2>1. u[1] \in Blocks /\ u = <<u[1], 0>> /\ \A b \in Blocks : <<b, 0>> \in Threads
    BY <1>2, ThreadsNat, LaunchFacts DEF Threads
  <2>2. u[1] \notin Finished
    BY <1>1, <2>1 DEF Finished
  <2>3. Finished' = Finished \cup {u[1]}
    <3>1. ASSUME NEW b \in Blocks
          PROVE  pc'[<<b, 0>>] = "done" <=> pc[<<b, 0>>] = "done" \/ b = u[1]
      <4>1. CASE b = u[1]
        BY <1>6, <2>1, <4>1
      <4>2. CASE b # u[1]
        <5>1. <<b, 0>> # u
          BY <2>1, <4>2
        <5> QED BY <1>6, <2>1, <4>2, <5>1
      <4> QED BY <4>1, <4>2
    <3> QED BY <1>4, <2>1, <3>1 DEF Finished
  <2>4. launch.grid = 1 => u[1] = 0 /\ val'[<<0, 0>>] = val[u]
    <3>1. launch.grid = 1 => u[1] = 0
      BY <2>1 DEF Blocks
    <3> QED BY <1>1, <2>1, <3>1
  <2>5. output' = CASE launch.kernel = "sum"    -> output + val[u]
                    [] launch.kernel = "mean"   -> output + Quotient(val[u], N)
                    [] launch.kernel = "max"    -> Larger(output, val[u])
                    [] launch.kernel = "min"    -> Smaller(output, val[u])
                    [] launch.kernel = "argmax" -> Smaller(output, val[u].idx)
    BY DEF Atomic
  <2>6. Delivered
    BY DEF VInv
  <2> QED BY <1>1, <1>2, <1>7, <2>1, <2>2, <2>3, <2>4, <2>5, <2>6, DeliveredMore
<1>12. Stored'
  BY <1>2, <1>4 DEF Stored
<1> QED BY <1>5, <1>10, <1>11, <1>12 DEF VInv

LEMMA TakeMaxKeeps ==
  ASSUME IInv, VInv, IntegerExp, NEW u \in Threads, TakeMax(u) PROVE VInv'
<1> DEFINE e == IF Idx(u) \in DOMAIN data THEN Exp(data[Idx(u)], shared[u[1]][0]) ELSE 0
<1>1. /\ pc[u] = "take" /\ round[u] = 1 /\ pc' = [pc EXCEPT ![u] = "shuffle"]
      /\ round' = [round EXCEPT ![u] = 2]
      /\ ex' = [ex EXCEPT ![u] = e] /\ val' = [val EXCEPT ![u] = e]
      /\ launch' = launch /\ data' = data /\ shared' = shared /\ output' = output
  BY DEF TakeMax, GoTo
<1>2. /\ TypeOK /\ launch \in Launches /\ pc \in [Threads -> Labels] /\ ValuesOK
      /\ round \in [Threads -> {1, 2}] /\ ex \in [Threads -> Int]
      /\ val \in [Threads -> Values] /\ shared \in [Blocks -> [Warps -> Values]]
      /\ Softmax
  BY <1>1 DEF IInv, TypeOK, VInv, ValuesOK
<1>3. /\ Threads' = Threads /\ Blocks' = Blocks /\ Warps' = Warps /\ Values' = Values
      /\ Softmax' = Softmax
  BY <1>1, SameThreads
<1>4. Values = Int
  BY <1>2 DEF Values, Softmax
<1>5. e \in Int
  <2>1. u[1] \in Blocks /\ 0 \in Warps
    BY <1>2, Cells
  <2>2. shared[u[1]][0] \in Int
    BY <1>2, <1>4, <2>1
  <2>3. Idx(u) \in DOMAIN data => data[Idx(u)] \in Int
    BY <1>2, InputFacts DEF ValuesOK
  <2>4. \A x, m \in Int : Exp(x, m) \in Int
    BY DEF IntegerExp
  <2>5. Idx(u) \in DOMAIN data => Exp(data[Idx(u)], shared[u[1]][0]) \in Int
    BY ONLY <2>2, <2>3, <2>4, Zenon
  <2> QED BY <2>5
<1>6. Idx(u) \notin DOMAIN data => e = 0
  OBVIOUS
<1> HIDE DEF e
<1>7. /\ pc'[u] = "shuffle" /\ round'[u] = 2 /\ ex'[u] = e /\ val'[u] = e
      /\ \A t \in Threads : t # u =>
           pc'[t] = pc[t] /\ round'[t] = round[t] /\ ex'[t] = ex[t] /\ val'[t] = val[t]
      /\ ex' \in [Threads -> Int] /\ val' \in [Threads -> Values]
  BY <1>1, <1>2, <1>4, <1>5
<1>8. Steady
  BY <1>1, <1>7 DEF Steady
<1>9. ValuesOK'
  BY <1>1, <1>2, <1>3, <1>7 DEF ValuesOK, N
<1>10. RegisterOK(u)'
  <2>1. (Given(round[u], u) = val[u])'
    BY <1>3, <1>7 DEF Given
  <2> QED BY <1>7, <2>1 DEF RegisterOK
<1>11. CellOK(u)'
  BY <1>7 DEF CellOK
<1>12. RegistersFolded' /\ SharedFolded'
  BY <1>1, <1>7, <1>8, <1>10, <1>11, OthersKeep
<1>13. Delivered'
  BY <1>1, <1>2, DeliversNothing
<1>14. Stored'
  <2>1. \A t : Idx(t)' = Idx(t)
    BY <1>1, SameLoaded
  <2>2. ASSUME NEW t \in Threads, round'[t] = 2, Idx(t) \notin DOMAIN data PROVE ex'[t] = 0
    BY <1>2, <1>6, <1>7, <2>2 DEF VInv, Stored
  <2>3. ASSUME NEW t \in Threads, pc'[t] = "done"
        PROVE  /\ round'[t] = 2
               /\ Idx(t) \in DOMAIN data => output[Idx(t)] = <<ex'[t], shared[t[1]][0]>>
    <3>1. t # u
      BY <1>7, <2>3
    <3> QED BY <1>2, <1>7, <2>3, <3>1 DEF VInv, Stored
  <2>4. DOMAIN output = DOMAIN data
    BY <1>2 DEF VInv, Stored
  <2> QED BY <1>1, <1>3, <2>1, <2>2, <2>3, <2>4 DEF Stored
<1> QED BY <1>9, <1>12, <1>13, <1>14 DEF VInv

LEMMA TakeSumKeeps == ASSUME IInv, VInv, NEW u \in Threads, TakeSum(u) PROVE VInv'
<1>1. /\ pc[u] = "take" /\ round[u] = 2 /\ pc' = [pc EXCEPT ![u] = "done"]
      /\ launch' = launch /\ data' = data /\ round' = round /\ val' = val /\ ex' = ex
      /\ shared' = shared
      /\ output' = IF Idx(u) \in DOMAIN data
                   THEN [output EXCEPT ![Idx(u)] = <<ex[u], shared[u[1]][0]>>]
                   ELSE output
  BY DEF TakeSum, GoTo
<1>2. /\ TypeOK /\ launch \in Launches /\ pc \in [Threads -> Labels] /\ ValuesOK /\ Softmax
  BY <1>1 DEF IInv, TypeOK, VInv
<1>3. Steady
  BY <1>1 DEF Steady
<1>4. /\ Threads' = Threads /\ Blocks' = Blocks /\ Warps' = Warps /\ Values' = Values
      /\ Softmax' = Softmax
  BY <1>1, SameThreads
<1>5. ValuesOK'
  BY <1>1, <1>2, <1>4 DEF ValuesOK, N
<1>6. pc'[u] = "done" /\ \A t \in Threads : t # u => pc'[t] = pc[t]
  BY <1>1, <1>2
<1>7. RegisterOK(u)'
  BY <1>2, <1>4, <1>6 DEF RegisterOK
<1>8. CellOK(u)'
  <2>1. u[2] = 0 => Folded(2, shared[u[1]][0], Parts(u[1]))
    BY <1>1 DEF VInv, SharedFolded, CellOK
  <2>2. Parts(u[1])' = Parts(u[1]) /\ 2 \in {1, 2}
    BY <1>1, SameSets
  <2>3. u[2] = 0 => Folded(2, shared[u[1]][0], Parts(u[1]))'
    BY <1>1, <1>2, <1>3, <2>1, <2>2, FoldedStays
  <2> QED BY <1>6, <2>3 DEF CellOK
<1>9. RegistersFolded' /\ SharedFolded'
  BY <1>1, <1>3, <1>6, <1>7, <1>8, OthersKeep
<1>10. Delivered'
  BY <1>1, <1>2, DeliversNothing
<1>11. Stored'
  <2>1. \A t : Idx(t)' = Idx(t)
    BY <1>1, SameLoaded
  <2>2. /\ \A t \in Threads : round[t] = 2 /\ Idx(t) \notin DOMAIN data => ex[t] = 0
        /\ \A t \in Threads : pc[t] = "done" => round[t] = 2
        /\ DOMAIN output = DOMAIN data
        /\ \A t \in Threads : pc[t] = "done" /\ Idx(t) \in DOMAIN data =>
             output[Idx(t)] = <<ex[t], shared[t[1]][0]>>
    BY <1>2 DEF VInv, Stored
  <2>3. DOMAIN output' = DOMAIN data
    BY <1>1, <2>2
  <2>4. ASSUME NEW t \in Threads, pc'[t] = "done"
        PROVE  /\ round[t] = 2
               /\ Idx(t) \in DOMAIN data => output'[Idx(t)] = <<ex[t], shared[t[1]][0]>>
    <3>1. CASE t = u
      BY <1>1, <2>2, <3>1
    <3>2. CASE t # u
      <4>1. pc[t] = "done"
        BY <1>6, <2>4, <3>2
      <4>2. Idx(t) # Idx(u)
        <5>1. /\ t = <<t[1], t[2]>> /\ u = <<u[1], u[2]>> /\ t[1] = u[1]
              /\ Idx(t) = t[2] /\ Idx(u) = u[2]
          BY <1>1, <1>2, ThreadsNat, DeliversNothing
        <5> QED BY <3>2, <5>1
      <4>3. Idx(t) \in DOMAIN data => output'[Idx(t)] = output[Idx(t)]
        BY <1>1, <2>2, <4>2
      <4> QED BY <2>2, <4>1, <4>3
    <3> QED BY <3>1, <3>2
  <2> QED BY <1>1, <1>4, <2>1, <2>2, <2>3, <2>4 DEF Stored
<1> QED BY <1>5, <1>9, <1>10, <1>11 DEF VInv

-----------------------------------------------------------------------------
(* The steps of many threads.                                               *)

\* Threads that go on together leave *output alone, thread 0 done only later.
LEMMA MeetingKeepsOutput ==
  ASSUME IInv, VInv, NEW S \in SUBSET Threads, NEW next,
         launch' = launch, data' = data, round' = round, ex' = ex, shared' = shared,
         output' = output,
         pc' = [t \in Threads |-> IF t \in S THEN next[t] ELSE pc[t]],
         \A t \in Threads : t \notin S => val'[t] = val[t],
         \A t \in S : pc[t] # "done" /\ (next[t] = "done" => t[2] # 0 /\ ~Softmax)
  PROVE  Delivered' /\ Stored'
<1>1. Blocks' = Blocks /\ launch \in Launches
  BY SameThreads DEF IInv, TypeOK
<1>2. \A b \in Blocks : <<b, 0>> \in Threads
  BY <1>1, LaunchFacts DEF Threads
<1>3. \A t \in Threads : pc'[t] = IF t \in S THEN next[t] ELSE pc[t]
  OBVIOUS
<1>4. Delivered'
  <2>1. ASSUME NEW b \in Blocks
        PROVE  /\ pc'[<<b, 0>>] = "done" <=> pc[<<b, 0>>] = "done"
               /\ pc[<<b, 0>>] = "done" => val'[<<b, 0>>] = val[<<b, 0>>]
    <3> DEFINE t == <<b, 0>>
    <3>1. t \in Threads /\ t[2] = 0
      BY <1>2
    <3> HIDE DEF t
    <3>2. (pc'[t] = "done" <=> pc[t] = "done") /\ (pc[t] = "done" => val'[t] = val[t])
      BY <1>3, <3>1
    <3> QED BY <3>2 DEF t
  <2>2. Finished' = Finished
    BY <1>1, <2>1 DEF Finished
  <2>3. 0 \in Finished => val'[<<0, 0>>] = val[<<0, 0>>]
    BY <2>1 DEF Finished
  <2> QED BY <2>2, <2>3, DeliveredStays DEF VInv
<1>5. Stored'
  <2>1. Softmax => \A t \in Threads :
          pc'[t] = "done" => pc[t] = "done" /\ shared'[t[1]][0] = shared[t[1]][0]
    BY <1>3
  <2> QED BY <2>1, StoredStays DEF VInv
<1> QED BY <1>4, <1>5

LEMMA BarrierKeeps ==
  ASSUME IInv, VInv, NEW b \in Blocks, NEW from, NEW to, Barrier(b, from, to),
         \/ from = "sync" /\ to = "read"
         \/ from = "syncBroadcast" /\ to = "take"
  PROVE  VInv'
<1> DEFINE S == BlockOf(b)
           next == [t \in S |-> to]
<1>1. /\ \A t \in S : pc[t] = from
      /\ launch' = launch /\ data' = data /\ round' = round /\ val' = val /\ ex' = ex
      /\ shared' = shared /\ output' = output
      /\ pc' = [t \in Threads |-> IF t \in S THEN next[t] ELSE pc[t]]
      /\ S \in SUBSET Threads /\ \A t \in Threads : t \in S <=> t[1] = b
      /\ \A t \in S : next[t] = to
  BY DEF Barrier, BlockOf
<1>2. /\ TypeOK /\ launch \in Launches /\ ValuesOK
  BY DEF IInv, TypeOK, VInv
<1> HIDE DEF S, next
<1>3. Steady
  BY <1>1 DEF Steady
<1>4. /\ Threads' = Threads /\ Blocks' = Blocks /\ Warps' = Warps /\ Values' = Values
      /\ NumWarps' = NumWarps
  BY <1>1, SameThreads
<1>5. ValuesOK'
  BY <1>1, <1>2, <1>4 DEF ValuesOK, N
<1>6. \A t \in Threads : pc'[t] = IF t \in S THEN to ELSE pc[t]
  BY <1>1
<1>7. RegistersFolded'
  <2>1. ASSUME NEW t \in Threads PROVE RegisterOK(t)'
    <3>1. CASE t \notin S
      BY <1>1, <1>2, <1>3, <1>6, <3>1, RegisterStays DEF VInv, RegistersFolded
    <3>2. CASE t \in S
      BY <1>6, <3>2 DEF RegisterOK
    <3> QED BY <3>1, <3>2
  <2> QED BY <1>4, <2>1 DEF RegistersFolded
<1>8. SharedFolded'
  <2>1. ASSUME NEW t \in Threads PROVE CellOK(t)'
    <3>1. CASE t \notin S
      BY <1>1, <1>2, <1>3, <1>6, <3>1, CellStays DEF VInv, SharedFolded
    <3>2. CASE t \in S /\ from = "syncBroadcast" /\ to = "take"
      <4>1. t[2] = 0 /\ round[t] = 2 => Folded(2, shared[t[1]][0], Parts(t[1]))
        BY <1>1, <3>2 DEF VInv, SharedFolded, CellOK
      <4>2. Parts(t[1])' = Parts(t[1]) /\ 2 \in {1, 2}
        BY <1>1, SameSets
      <4>3. t[2] = 0 /\ round[t] = 2 => Folded(2, shared[t[1]][0], Parts(t[1]))'
        BY <1>1, <1>2, <1>3, <4>1, <4>2, FoldedStays
      <4> QED BY <1>1, <1>6, <3>2, <4>3 DEF CellOK
    <3>3. CASE t \in S /\ from = "sync" /\ to = "read"
      <4>1. ASSUME ReadsWarp(t)
            PROVE  Folded(round[t], shared[t[1]][t[2]], WarpOf(t[1], t[2]))
        <5> DEFINE u == At(t[1], t[2], 0)
        <5>1. u \in WarpOf(t[1], t[2]) /\ Lane(u) = 0 /\ t[2] \in 0 .. NumWarps - 1
          BY <1>2, <4>1, Cells
        <5>2. u \in Threads /\ u[1] = t[1] /\ Wid(u) = t[2] /\ Wid(u) < NumWarps
          <6>1. NumWarps \in Int
            BY <1>2, LaunchFacts
          <6> QED BY <5>1, <6>1 DEF WarpOf
        <5> HIDE DEF u
        <5>3. pc[u] = "sync" /\ pc[t] = "sync"
          BY <1>1, <3>3, <5>2
        <5>4. Folded(round[u], shared[u[1]][Wid(u)], WarpOf(u[1], Wid(u)))
          BY <5>1, <5>2, <5>3 DEF VInv, SharedFolded, CellOK
        <5>5. round[u] = round[t]
          <6>1. Stage(u) = Stage(t) /\ round[u] \in {1, 2} /\ round[t] \in {1, 2}
            BY <1>2, <5>2 DEF IInv, Together, TypeOK
          <6> QED BY <5>3, <6>1 DEF Stage
        <5> QED BY <5>2, <5>4, <5>5
      <4>2. WarpOf(t[1], t[2])' = WarpOf(t[1], t[2]) /\ round[t] \in {1, 2}
            /\ ReadsWarp(t)' = ReadsWarp(t)
        BY <1>1, <1>2, <1>4, SameSets DEF TypeOK, ReadsWarp
      <4>3. ReadsWarp(t) => Folded(round[t], shared[t[1]][t[2]], WarpOf(t[1], t[2]))'
        BY <1>1, <1>2, <1>3, <4>1, <4>2, FoldedStays
      <4> QED BY <1>1, <1>6, <3>3, <4>2, <4>3 DEF CellOK
    <3> QED BY <3>1, <3>2, <3>3
  <2> QED BY <1>4, <2>1 DEF SharedFolded
<1>9. Delivered' /\ Stored'
  <2>1. \A t \in S : pc[t] # "done" /\ next[t] # "done"
    BY <1>1
  <2> QED BY <1>1, <2>1, MeetingKeepsOutput
<1> QED BY <1>5, <1>7, <1>8, <1>9 DEF VInv

\* A warp's shuffle leaves what the other warps hold and read.
LEMMA WarpKeeps ==
  ASSUME IInv, VInv, NEW r \in {1, 2}, RoundOK(r), NEW S \in SUBSET Threads, NEW next,
         Reduce(r, S, next),
         \A t \in S : /\ round[t] = r /\ pc[t] # "done"
                      /\ next[t] = "done" => t[2] # 0 /\ ~Softmax
                      /\ next[t] \notin {"read", "take"}
                      /\ next[t] = "sync" => Lane(t) # 0
                      /\ next[t] = "syncBroadcast" => t[2] # 0,
         \A t \in S : next[t] = "write" /\ Wid(t) < NumWarps
                        => Folded(r, WarpReduce(r, S)[t], WarpOf(t[1], Wid(t))),
         \A t \in S : t[2] = 0 /\ next[t] \in {"atomic", "broadcast"}
                        => Folded(r, WarpReduce(r, S)[t], Parts(t[1])),
         \A t \in S : next[t] \notin {"shuffle", "shuffle0"}
  PROVE  VInv'
<1>1. /\ launch' = launch /\ data' = data /\ round' = round /\ ex' = ex
      /\ shared' = shared /\ output' = output
      /\ pc' = [t \in Threads |-> IF t \in S THEN next[t] ELSE pc[t]]
      /\ val' = [t \in Threads |-> IF t \in S THEN WarpReduce(r, S)[t] ELSE val[t]]
  BY DEF Reduce
<1>2. TypeOK /\ launch \in Launches /\ ValuesOK /\ Sound /\ val \in [Threads -> Values]
  BY DEF IInv, TypeOK, VInv, Sound, ValuesOK
<1>3. Steady
  BY <1>1 DEF Steady
<1>4. /\ Threads' = Threads /\ Blocks' = Blocks /\ Warps' = Warps /\ Values' = Values
      /\ NumWarps' = NumWarps /\ Softmax' = Softmax
  BY <1>1, SameThreads
<1>5. ValuesOK'
  <2>1. WarpReduce(r, S) \in [S -> Values]
    BY <1>2, WarpReduceType
  <2>2. val' \in [Threads -> Values]
    BY <1>1, <1>2, <2>1
  <2> QED BY <1>1, <1>2, <1>4, <2>2 DEF ValuesOK, N
<1>6. \A t \in Threads : /\ pc'[t] = IF t \in S THEN next[t] ELSE pc[t]
                         /\ val'[t] = IF t \in S THEN WarpReduce(r, S)[t] ELSE val[t]
  BY <1>1
<1>7. RegistersFolded'
  <2>1. ASSUME NEW t \in Threads PROVE RegisterOK(t)'
    <3>1. CASE t \notin S
      BY <1>1, <1>2, <1>3, <1>6, <3>1, RegisterStays DEF VInv, RegistersFolded
    <3>2. CASE t \in S
      <4>1. Wid(t)' = Wid(t) /\ WarpOf(t[1], Wid(t))' = WarpOf(t[1], Wid(t))
            /\ Parts(t[1])' = Parts(t[1])
        BY <1>1, SameSets DEF Wid
      <4>2. next[t] = "write" /\ Wid(t) < NumWarps
              => Folded(round[t], val[t], WarpOf(t[1], Wid(t)))'
        BY <1>1, <1>2, <1>3, <1>6, <3>2, <4>1, FoldedStays
      <4>3. t[2] = 0 /\ next[t] \in {"atomic", "broadcast"}
              => Folded(round[t], val[t], Parts(t[1]))'
        BY <1>1, <1>2, <1>3, <1>6, <3>2, <4>1, FoldedStays
      <4> QED BY <1>4, <1>6, <3>2, <4>1, <4>2, <4>3 DEF RegisterOK
    <3> QED BY <3>1, <3>2
  <2> QED BY <1>4, <2>1 DEF RegistersFolded
<1>8. SharedFolded'
  <2>1. ASSUME NEW t \in Threads PROVE CellOK(t)'
    <3>1. CASE t \notin S
      BY <1>1, <1>2, <1>3, <1>6, <3>1, CellStays DEF VInv, SharedFolded
    <3>2. CASE t \in S
      <4>1. Lane(t)' = Lane(t)
        BY DEF Lane
      <4> QED BY <1>6, <3>2, <4>1 DEF CellOK
    <3> QED BY <3>1, <3>2
  <2> QED BY <1>4, <2>1 DEF SharedFolded
<1>9. Delivered' /\ Stored'
  BY <1>1, <1>6, MeetingKeepsOutput
<1> QED BY <1>5, <1>7, <1>8, <1>9 DEF VInv

\* A round that threads are in is one that the kernel has.
LEMMA RoundIs ==
  ASSUME TypeOK, NEW t \in Threads
  PROVE  round[t] \in {1, 2} /\ RoundOK(round[t])
BY DEF TypeOK, RoundOK

LEMMA ShuffleKeeps ==
  ASSUME IInv, VInv, NEW b \in Blocks, NEW w \in Warps, NEW r \in {1, 2}, Shuffle(b, w, r)
  PROVE  VInv'
<1> DEFINE S == WarpOf(b, w)
           next == [t \in S |-> IF Lane(t) = 0 THEN "write" ELSE "sync"]
<1>1. /\ \A t \in S : pc[t] = "shuffle" /\ round[t] = r
      /\ Reduce(r, S, next)
  BY DEF Shuffle
<1>2. TypeOK /\ launch \in Launches /\ Sound /\ NumWarps \in Nat /\ WarpSize \in Nat \ {0}
  BY LaunchFacts DEF IInv, TypeOK, VInv, Sound
<1>3. S \in SUBSET Threads /\ \A t \in S : t[1] = b /\ Wid(t) = w
  BY DEF WarpOf
<1>4. RoundOK(r) /\ w \in Nat
  <2>1. PICK i \in Indices : i \div WarpSize = w
    BY DEF Warps
  <2>2. <<b, i>> \in S
    BY <2>1 DEF WarpOf, Wid, Threads
  <2>3. <<b, i>> \in Threads /\ round[<<b, i>>] = r /\ Wid(<<b, i>>) = w
    BY <1>1, <1>3, <2>2
  <2> QED BY <1>2, <2>3, RoundIs, ThreadsNat
<1>5. ASSUME NEW t \in S, next[t] = "write", Wid(t) < NumWarps
      PROVE  Folded(r, WarpReduce(r, S)[t], WarpOf(t[1], Wid(t)))
  <2> DEFINE D == [c \in S |-> {c}]
  <2>1. w \in 0 .. NumWarps - 1 /\ Lane(t) = 0
    BY <1>2, <1>3, <1>4, <1>5
  <2>2. t = At(b, w, 0)
    BY <1>2, <2>1, WarpThreads
  <2>3. ASSUME NEW c \in S PROVE IsFiniteSet(D[c]) /\ Folded(r, val[c], D[c])
    <3>1. val[c] = Given(r, c) /\ round[c] = r /\ c \in Threads
      BY <1>1, <1>3 DEF VInv, RegistersFolded, RegisterOK
    <3>2. Folded(r, Given(r, c), {c})
      BY <1>2, <1>4, <3>1, FoldedOne
    <3> QED BY <3>1, <3>2, FS_Singleton
  <2>4. /\ \A c, d \in S : c # d => D[c] \cap D[d] = {}
        /\ Gathered(b, w, D) = S
    BY DEF Gathered
  <2> HIDE DEF D
  <2>5. Folded(r, WarpReduce(r, S)[At(b, w, 0)], Gathered(b, w, D))
    <3>1. Spread(r, b, w, D)
      BY <2>3, <2>4 DEF Spread
    <3> QED BY <1>2, <1>4, <2>1, <3>1, Shuffled
  <2> QED BY <1>3, <2>2, <2>4, <2>5
<1>6. \A t \in S : next[t] = IF Lane(t) = 0 THEN "write" ELSE "sync"
  OBVIOUS
<1> HIDE DEF next
<1>7. \A t \in S : /\ round[t] = r /\ pc[t] # "done"
                   /\ next[t] = "done" => t[2] # 0 /\ ~Softmax
                   /\ next[t] \notin {"read", "take"}
                   /\ next[t] = "sync" => Lane(t) # 0
                   /\ next[t] = "syncBroadcast" => t[2] # 0
  BY <1>1, <1>6
<1>8. /\ \A t \in S : next[t] = "write" /\ Wid(t) < NumWarps
                      => Folded(r, WarpReduce(r, S)[t], WarpOf(t[1], Wid(t)))
      /\ \A t \in S : t[2] = 0 /\ next[t] \in {"atomic", "broadcast"}
                      => Folded(r, WarpReduce(r, S)[t], Parts(t[1]))
      /\ \A t \in S : next[t] \notin {"shuffle", "shuffle0"}
  BY <1>5, <1>6
<1> HIDE DEF S
<1> QED BY <1>1, <1>3, <1>4, <1>7, <1>8, WarpKeeps

LEMMA ShuffleFirstKeeps ==
  ASSUME IInv, VInv, NEW b \in Blocks, NEW r \in {1, 2}, ShuffleFirst(b, r)
  PROVE  VInv'
<1> DEFINE S == WarpOf(b, 0)
           next == [t \in S |-> AfterReduction(t)]
<1>1. /\ \A t \in S : pc[t] = "shuffle0" /\ round[t] = r
      /\ Reduce(r, S, next)
  BY DEF ShuffleFirst
<1>2. /\ TypeOK /\ launch \in Launches /\ Sound /\ NumWarps \in Nat \ {0}
      /\ WarpSize \in Nat \ {0} /\ 0 \in Indices
  BY LaunchFacts DEF IInv, TypeOK, VInv, Sound
<1>3. S \in SUBSET Threads /\ \A t \in S : t[1] = b /\ Wid(t) = 0
  BY DEF WarpOf
<1>4. RoundOK(r)
  <2>1. <<b, 0>> \in Threads /\ 0 \div WarpSize = 0
    BY <1>2, FirstWarp DEF Threads
  <2>2. <<b, 0>> \in S
    BY <2>1 DEF WarpOf, Wid
  <2>3. round[<<b, 0>>] = r
    BY <1>1, <2>2
  <2> QED BY <1>2, <2>1, <2>3, RoundIs
<1>5. ASSUME NEW t \in S, t[2] = 0 PROVE Folded(r, WarpReduce(r, S)[t], Parts(t[1]))
  <2> DEFINE D == [c \in S |-> Slice(c)]
  <2>1. 0 \in 0 .. NumWarps - 1 /\ t = At(b, 0, 0)
    <3>1. 0 \in 0 .. NumWarps - 1 /\ WarpSize * 0 + 0 = 0
      BY <1>2
    <3>2. t = <<t[1], t[2]>>
      BY <1>2, <1>3, ThreadsNat
    <3> QED BY <1>3, <1>5, <3>1, <3>2 DEF At
  <2>2. ASSUME NEW c \in S PROVE IsFiniteSet(D[c]) /\ Folded(r, val[c], D[c])
    <3>1. Folded(r, val[c], Slice(c))
      BY <1>1, <1>3 DEF VInv, RegistersFolded, RegisterOK
    <3>2. IsFiniteSet(Slice(c))
      BY <1>2, Slices, ItemsFinite
    <3> QED BY <3>1, <3>2
  <2>3. \A c, d \in S : c # d => D[c] \cap D[d] = {}
    BY <1>2, Slices
  <2>4. Gathered(b, 0, D) = Parts(b)
    BY DEF Parts, Gathered
  <2> HIDE DEF D
  <2>5. Folded(r, WarpReduce(r, S)[At(b, 0, 0)], Gathered(b, 0, D))
    <3>1. Spread(r, b, 0, D)
      BY <2>2, <2>3 DEF Spread
    <3> QED BY <1>2, <1>4, <2>1, <3>1, Shuffled
  <2> QED BY <1>3, <2>1, <2>4, <2>5
<1>6. \A t \in S : next[t] = AfterReduction(t)
  OBVIOUS
<1> HIDE DEF next
<1>7. \A t \in S : /\ round[t] = r /\ pc[t] # "done"
                   /\ next[t] = "done" => t[2] # 0 /\ ~Softmax
                   /\ next[t] \notin {"read", "take"}
                   /\ next[t] = "sync" => Lane(t) # 0
                   /\ next[t] = "syncBroadcast" => t[2] # 0
  BY <1>1, <1>6 DEF AfterReduction
<1>8. /\ \A t \in S : next[t] = "write" /\ Wid(t) < NumWarps
                      => Folded(r, WarpReduce(r, S)[t], WarpOf(t[1], Wid(t)))
      /\ \A t \in S : t[2] = 0 /\ next[t] \in {"atomic", "broadcast"}
                      => Folded(r, WarpReduce(r, S)[t], Parts(t[1]))
      /\ \A t \in S : next[t] \notin {"shuffle", "shuffle0"}
  <2>1. \A t \in S : next[t] \notin {"write", "shuffle", "shuffle0"}
    BY <1>6 DEF AfterReduction
  <2> QED BY <1>5, <2>1
<1> HIDE DEF S
<1> QED BY <1>1, <1>3, <1>4, <1>7, <1>8, WarpKeeps

-----------------------------------------------------------------------------
LEMMA InitValues == Init => VInv
<1> SUFFICES ASSUME Init PROVE VInv
  OBVIOUS
<1>1. /\ launch \in Launches /\ data \in Inputs /\ N <= launch.grid * launch.block
      /\ pc = [t \in Threads |-> "shuffle"] /\ round = [t \in Threads |-> 1]
      /\ val = [t \in Threads |-> Loaded(t)] /\ ex = [t \in Threads |-> 0]
      /\ shared = [b \in Blocks |-> [w \in Warps |-> Pad]] /\ output = Start
  BY DEF Init
<1>2. ValuesOK
  <2>1. val \in [Threads -> Values] /\ shared \in [Blocks -> [Warps -> Values]]
    BY <1>1, LoadedType, PadType
  <2> QED BY <1>1, <2>1 DEF ValuesOK
<1>3. RegistersFolded
  BY <1>1 DEF RegistersFolded, RegisterOK, Given
<1>4. SharedFolded
  BY <1>1 DEF SharedFolded, CellOK
<1>5. Delivered
  <2>1. \A b \in Blocks : <<b, 0>> \in Threads /\ pc[<<b, 0>>] # "done"
    BY <1>1, LaunchFacts DEF Threads
  <2>2. Finished = {} /\ Arrived = {} /\ Cardinality(Finished) = 0
    BY <2>1, FS_EmptySet DEF Finished, Arrived
  <2>3. SumGiven(1, {}) = 0
    <3> DEFINE f == [c \in {} |-> Given(1, c)]
    <3> HIDE DEF f
    <3>1. SumFunctionOnSet(f, {}) = 0
      BY FS_EmptySet, SumStep
    <3> QED BY <3>1 DEF f, SumGiven
  <2>4. N \in Nat
    BY <1>1, InputFacts
  <2>5. /\ launch.kernel \in {"sum", "mean"} => output = 0
        /\ launch.kernel = "max" => output = Lowest
        /\ launch.kernel \in {"min", "argmax"} => output = Highest
    BY <1>1 DEF Start
  <2>6. launch.kernel = "mean" => 0 - N * output <= (N - 1) * 0 /\ N * output - 0 <= (N - 1) * 0
    BY <2>4, <2>5
  <2> QED BY <2>2, <2>3, <2>5, <2>6 DEF Delivered
<1>6. Stored
  <2>1. Softmax => output = [i \in DOMAIN data |-> <<>>]
    BY <1>1 DEF Start, Softmax
  <2> QED BY <1>1, <2>1 DEF Stored
<1> QED BY <1>2, <1>3, <1>4, <1>5, <1>6 DEF VInv

LEMMA LaunchStays == Next => launch' = launch
<1>1. ASSUME NEW t \in Threads, Step(t) PROVE launch' = launch
  BY <1>1 DEF Step, Write, Read, Atomic, Broadcast, TakeMax, TakeSum
<1>2. ASSUME NEW b \in Blocks, Meet(b) PROVE launch' = launch
  BY <1>2 DEF Meet, Barrier, Shuffle, ShuffleFirst, Reduce
<1> QED BY <1>1, <1>2 DEF Next

LEMMA StutterKeeps == ASSUME IInv, VInv, UNCHANGED vars PROVE VInv'
<1>1. /\ launch' = launch /\ data' = data /\ pc' = pc /\ round' = round /\ val' = val
      /\ ex' = ex /\ shared' = shared /\ output' = output
  BY DEF vars
<1>2. Steady /\ TypeOK
  BY <1>1 DEF Steady, IInv
<1>3. Threads' = Threads /\ Blocks' = Blocks /\ Warps' = Warps /\ Values' = Values
  BY <1>1, SameThreads
<1>4. ValuesOK'
  BY <1>1, <1>3 DEF VInv, ValuesOK, N
<1>5. \A t \in Threads : RegisterOK(t)'
  BY <1>1, <1>2, RegisterStays DEF VInv, RegistersFolded
<1>6. \A t \in Threads : CellOK(t)'
  BY <1>1, <1>2, CellStays DEF VInv, SharedFolded
<1>7. Finished' = Finished
  BY <1>1, <1>3 DEF Finished
<1>8. Delivered'
  BY <1>1, <1>7, DeliveredStays DEF VInv
<1>9. Stored'
  BY <1>1, StoredStays DEF VInv
<1> QED BY <1>3, <1>4, <1>5, <1>6, <1>8, <1>9 DEF VInv, RegistersFolded, SharedFolded

LEMMA NextValues == IInv /\ Computed /\ [Next]_vars => Computed'
<1> SUFFICES ASSUME IInv, Computed, [Next]_vars, (~Softmax \/ IntegerExp)' PROVE VInv'
  BY DEF Computed
<1>1. launch' = launch
  BY LaunchStays DEF vars
<1>2. VInv /\ (Softmax => IntegerExp)
  <2>1. Softmax' = Softmax
    BY <1>1, SameThreads
  <2> QED BY <2>1 DEF Computed
<1>3. ASSUME NEW t \in Threads, Step(t) PROVE VInv'
  <2>1. CASE Write(t)
    BY <1>2, <2>1, WriteKeeps
  <2>2. CASE Read(t)
    BY <1>2, <2>2, ReadKeeps
  <2>3. CASE Atomic(t)
    BY <1>2, <2>3, AtomicKeeps
  <2>4. CASE Broadcast(t)
    BY <1>2, <2>4, BroadcastKeeps
  <2>5. CASE TakeMax(t)
    <3>1. Softmax
      BY <2>5 DEF TakeMax, IInv, TypeOK
    <3> QED BY <1>2, <2>5, <3>1, TakeMaxKeeps
  <2>6. CASE TakeSum(t)
    BY <1>2, <2>6, TakeSumKeeps
  <2> QED BY <1>3, <2>1, <2>2, <2>3, <2>4, <2>5, <2>6 DEF Step
<1>4. ASSUME NEW b \in Blocks, Meet(b) PROVE VInv'
  <2>1. CASE Barrier(b, "sync", "read")
    BY <1>2, <2>1, BarrierKeeps
  <2>2. CASE Barrier(b, "syncBroadcast", "take")
    BY <1>2, <2>2, BarrierKeeps
  <2>3. ASSUME NEW r \in {1, 2}, NEW w \in Warps, Shuffle(b, w, r) PROVE VInv'
    BY <1>2, <2>3, ShuffleKeeps
  <2>4. ASSUME NEW r \in {1, 2}, ShuffleFirst(b, r) PROVE VInv'
    BY <1>2, <2>4, ShuffleFirstKeeps
  <2> QED BY <1>4, <2>1, <2>2, <2>3, <2>4 DEF Meet
<1>5. CASE UNCHANGED vars
  BY <1>2, <1>5, StutterKeeps
<1> QED BY <1>3, <1>4, <1>5 DEF Next

LEMMA ValueInvariance == Spec => [](IInv /\ Computed)
<1>1. Init => IInv /\ Computed
  BY InitInv, InitValues DEF Computed
<1>2. (IInv /\ Computed) /\ [Next]_vars => (IInv /\ Computed)'
  BY NextInv, NextValues
<1> QED BY <1>1, <1>2, PTL DEF Spec

-----------------------------------------------------------------------------
(* What the threads have when all are done.                                 *)

\* The threads of whole warps that have an element of the input.
Loading == {t \in Threads : Wid(t) < NumWarps /\ Idx(t) \in DOMAIN data}

LEMMA DoneArrived ==
  ASSUME launch \in Launches, Done
  PROVE  /\ Finished = Blocks
         /\ Arrived \cap Threads = {t \in Threads : Wid(t) < NumWarps}
         /\ NumWarps = WarpSize => Arrived \in SUBSET Threads
         /\ Arrived \in SUBSET Items /\ Loading \in SUBSET Arrived
<1>1. /\ WarpSize \in Nat \ {0} /\ NumWarps \in 1 .. WarpSize /\ launch.block \in Nat \ {0}
      /\ 0 \in Indices
  BY LaunchFacts
<1>2. Finished = Blocks
  <2>1. \A b \in Blocks : <<b, 0>> \in Threads
    BY <1>1 DEF Threads
  <2> QED BY <2>1 DEF Finished, Done
<1>3. ASSUME NEW c \in Arrived
      PROVE  \E b \in Blocks : \E u \in WarpOf(b, 0) : c \in Slice(u)
  BY <1>2 DEF Arrived, Parts
<1>4. ASSUME NEW c \in Arrived
      PROVE  /\ c \in Threads => Wid(c) < NumWarps
             /\ NumWarps = WarpSize => c \in Threads
  <2>1. PICK b \in Blocks : \E u \in WarpOf(b, 0) : c \in Slice(u)
    BY <1>3
  <2>2. PICK u \in WarpOf(b, 0) : c \in Slice(u)
    BY <2>1
  <2>3. /\ u \in Threads /\ u[1] = b /\ Wid(u) = 0 /\ u[2] \in Nat
        /\ u[2] = WarpSize * Wid(u) + Lane(u) /\ Lane(u) \in 0 .. WarpSize - 1
    BY ThreadsNat DEF WarpOf
  <2>4. CASE ReadsWarp(u)
    BY <2>2, <2>4 DEF Slice, WarpOf, ReadsWarp
  <2>5. CASE ~ReadsWarp(u)
    <3>1. c = <<b, -u[2]>>
      BY <2>2, <2>3, <2>5 DEF Slice
    <3>2. u[2] >= NumWarps
      BY <1>1, <2>3, <2>5 DEF ReadsWarp
    <3>3. c \notin Threads
      <4>1. -u[2] \notin Indices
        BY <1>1, <2>3, <3>2 DEF Indices
      <4> QED BY <3>1, <4>1 DEF Threads
    <3>4. u[2] < WarpSize
      BY <1>1, <2>3
    <3> QED BY <1>1, <2>3, <3>2, <3>3, <3>4
  <2> QED BY <2>4, <2>5
<1>5. ASSUME NEW t \in Threads, Wid(t) < NumWarps PROVE t \in Arrived
  <2> DEFINE u == <<t[1], Wid(t)>>
  <2>1. /\ t[1] \in Blocks /\ t[2] \in Nat /\ Wid(t) \in Nat /\ t[2] < launch.block
        /\ t[2] = WarpSize * Wid(t) + Lane(t) /\ Lane(t) \in 0 .. WarpSize - 1
    BY <1>1, ThreadsNat DEF Threads, Indices
  <2>2. Wid(t) \in Indices /\ Wid(t) \div WarpSize = 0
    <3>1. Wid(t) <= t[2]
      <4>1. WarpSize * Wid(t) >= Wid(t)
        BY <1>1, <2>1
      <4> QED BY <1>1, <2>1, <4>1
    <3>2. Wid(t) < WarpSize
      BY <1>1, <1>5, <2>1
    <3>3. Wid(t) \div WarpSize = 0
      BY <1>1, <2>1, <3>2, FirstWarp
    <3> QED BY <1>1, <2>1, <3>1, <3>3 DEF Indices
  <2>3. u \in WarpOf(t[1], 0) /\ ReadsWarp(u) /\ u[1] = t[1] /\ u[2] = Wid(t)
    BY <1>5, <2>1, <2>2 DEF WarpOf, Wid, Threads, ReadsWarp
  <2>4. t \in WarpOf(t[1], Wid(t))
    BY DEF WarpOf
  <2> HIDE DEF u
  <2>5. t \in Slice(u)
    BY <2>3, <2>4 DEF Slice
  <2> QED BY <1>2, <2>1, <2>3, <2>5 DEF Arrived, Parts
<1>6. Arrived \in SUBSET Items
  BY PartsApart
<1> QED BY <1>2, <1>4, <1>5, <1>6 DEF Loading

\* When the block's warps do not fill the first warp with results, padding reaches
\* the reduction.
LEMMA PadArrived ==
  ASSUME launch \in Launches, Done, NumWarps < WarpSize
  PROVE  \E c \in Arrived : c \notin Threads
<1> DEFINE u == <<0, NumWarps>>
           c == <<0, -NumWarps>>
<1>1. /\ WarpSize \in Nat \ {0} /\ NumWarps \in 1 .. WarpSize /\ launch.block \in Nat \ {0}
      /\ 0 \in Blocks
  BY LaunchFacts DEF Blocks
<1>2. NumWarps < launch.block
  <2>1. launch.block = WarpSize * NumWarps + (launch.block % WarpSize)
        /\ launch.block % WarpSize \in Nat
    <3>1. launch.block \in Nat
      BY <1>1
    <3>2. /\ launch.block = WarpSize * (launch.block \div WarpSize) + (launch.block % WarpSize)
          /\ launch.block % WarpSize \in 0 .. WarpSize - 1
      BY <1>1, <3>1, DivMod, Zenon
    <3>3. launch.block % WarpSize \in Nat
      BY <1>1, <3>2
    <3> QED BY <3>2, <3>3, Zenon DEF NumWarps
  <2>2. WarpSize >= 2
    BY <1>1
  <2>3. WarpSize * NumWarps >= 2 * NumWarps /\ WarpSize * NumWarps \in Nat
    BY <1>1, <2>2
  <2> QED BY <1>1, <2>1, <2>2, <2>3
<1>3. u \in Threads /\ u[1] = 0 /\ u[2] = NumWarps
  BY <1>1, <1>2 DEF Threads, Indices
<1>4. NumWarps \div WarpSize = 0
  BY <1>1, FirstWarp
<1>5. u \in WarpOf(0, 0)
  BY <1>3, <1>4 DEF WarpOf, Wid
<1>6. ~ReadsWarp(u)
  BY <1>1, <1>3 DEF ReadsWarp
<1>7. c \in Slice(u)
  BY <1>3, <1>6 DEF Slice
<1>8. c \in Arrived
  BY <1>1, <1>5, <1>7, DoneArrived DEF Arrived, Parts
<1>9. c \notin Threads
  BY <1>1 DEF Threads, Indices
<1> QED BY <1>8, <1>9

\* Every element of whole warps is one thread's.
LEMMA CountedThreads ==
  ASSUME launch \in Launches, ValuesOK
  PROVE  /\ \A t \in Loading : Idx(t) \in Counted
         /\ \A i \in Counted : \E t \in Loading : Idx(t) = i
         /\ \A t, u \in Threads : Idx(t) = Idx(u) => t = u
         /\ 0 \in Counted
<1> DEFINE n == launch.block
<1>1. /\ n \in Nat \ {0} /\ launch.grid \in Nat \ {0} /\ WarpSize \in Nat \ {0}
      /\ N \in Nat \ {0} /\ DOMAIN data = 0 .. N - 1 /\ N <= launch.grid * n
      /\ NumWarps \in 1 .. WarpSize
  BY LaunchFacts, InputFacts DEF ValuesOK
<1> HIDE DEF n
<1>2. ASSUME NEW t \in Threads
      PROVE  /\ t = <<t[1], t[2]>> /\ t[1] \in Nat /\ t[2] \in 0 .. n - 1
             /\ Idx(t) \div n = t[1] /\ Idx(t) % n = t[2]
  <2>1. t = <<t[1], t[2]>> /\ t[1] \in Nat /\ t[2] \in 0 .. n - 1
    BY <1>1 DEF Threads, Blocks, Indices, n
  <2>2. Idx(t) = n * t[1] + t[2]
    BY <1>1, <2>1 DEF Idx, n
  <2>3. (n * t[1] + t[2]) \div n = t[1] /\ (n * t[1] + t[2]) % n = t[2]
    BY <1>1, <2>1, DivModUnique
  <2> QED BY <2>1, <2>2, <2>3
<1>3. \A t, u \in Threads : Idx(t) = Idx(u) => t = u
  BY <1>2
<1>4. \A t \in Loading : Idx(t) \in Counted
  BY <1>2 DEF Loading, Counted, Wid, n
<1>5. ASSUME NEW i \in Counted PROVE \E t \in Loading : Idx(t) = i
  <2> DEFINE d == i \div n
             m == i % n
             t == <<d, m>>
  <2>1. i \in DOMAIN data /\ i \in Nat /\ i < N /\ m \div WarpSize < NumWarps
    BY <1>1 DEF Counted, n
  <2>2. d \in Nat /\ m \in 0 .. n - 1 /\ i = n * d + m
    BY <1>1, <2>1, DivMod
  <2> HIDE DEF d, m
  <2>3. d < launch.grid
    <3> SUFFICES ASSUME d >= launch.grid PROVE FALSE
      BY <1>1, <2>2
    <3>1. n * d >= n * launch.grid
      BY <1>1, <2>2
    <3>2. n * launch.grid = launch.grid * n /\ n * d \in Nat /\ n * launch.grid \in Nat
      BY <1>1, <2>2
    <3> QED BY <1>1, <2>1, <2>2, <3>1, <3>2
  <2>4. t \in Threads /\ t[1] = d /\ t[2] = m
    BY <1>1, <2>2, <2>3 DEF Threads, Blocks, Indices, n
  <2>5. Idx(t) = i
    <3>1. d * n = n * d
      BY <1>1, <2>2
    <3> QED BY <2>2, <2>4, <3>1 DEF Idx, n
  <2> HIDE DEF t
  <2> QED BY <2>1, <2>4, <2>5 DEF Loading, Wid
<1>6. 0 \in Counted
  <2>1. 0 % n = 0 /\ 0 \div WarpSize = 0
    BY <1>1, FirstWarp
  <2> QED BY <1>1, <2>1 DEF Counted, n
<1> QED BY <1>3, <1>4, <1>5, <1>6

\* A sum over all items is one over the elements of whole warps, if the others
\* add 0.
LEMMA SumOverCounted ==
  ASSUME launch \in Launches, ValuesOK, Done, NEW f, NEW g,
         \A c \in Arrived : f[c] \in Int,
         \A t \in Loading : g[Idx(t)] = f[t],
         \A c \in Arrived \ Loading : f[c] = 0
  PROVE  SumFunctionOnSet(f, Arrived) = SumFunctionOnSet(g, Counted)
<1> DEFINE rest == Arrived \ Loading
           h == [t \in Loading |-> Idx(t)]
<1>1. /\ Loading \in SUBSET Arrived /\ rest \in SUBSET Arrived /\ Loading \cap rest = {}
      /\ Loading \cup rest = Arrived
  BY DoneArrived
<1>2. IsFiniteSet(Arrived) /\ IsFiniteSet(Loading) /\ IsFiniteSet(rest)
  BY <1>1, DoneArrived, ItemsFinite, FS_Subset
<1>3. \A c \in rest : f[c] = 0
  OBVIOUS
<1>4. /\ \A t \in Loading : g[h[t]] = f[t]
      /\ \A t, u \in Loading : h[t] = h[u] => t = u
      /\ {h[t] : t \in Loading} = Counted
  <2>1. \A t \in Loading : h[t] = Idx(t) /\ t \in Threads
    BY DEF Loading
  <2> HIDE DEF h
  <2>2. \A t, u \in Loading : h[t] = h[u] => t = u
    BY <2>1, CountedThreads
  <2>3. {h[t] : t \in Loading} = Counted
    BY <2>1, CountedThreads
  <2> QED BY <2>1, <2>2, <2>3
<1> HIDE DEF rest, h
<1>5. SumFunctionOnSet(f, rest) = 0
  BY <1>2, <1>3, SumZero
<1>6. SumFunctionOnSet(f, Arrived) = SumFunctionOnSet(f, Loading) + SumFunctionOnSet(f, rest)
  BY <1>1, <1>2, SumUnion
<1>7. SumFunctionOnSet(f, Loading) \in Int
  BY <1>1, <1>2, SumRemove
<1>8. SumFunctionOnSet(g, {h[t] : t \in Loading}) = SumFunctionOnSet(f, Loading)
  BY <1>1, <1>2, <1>4, SumImage
<1>9. SumFunctionOnSet(g, {h[t] : t \in Loading}) = SumFunctionOnSet(g, Counted)
  BY <1>4
<1> QED BY ONLY <1>5, <1>6, <1>7, <1>8, <1>9

\* What a thread of a sum, a mean or of softmax's second reduction adds, and the
\* rest does not.
LEMMA SumArrived ==
  ASSUME Sound, Done, launch.kernel \in {"sum", "mean"}
  PROVE  SumGiven(1, Arrived) = SumOf(Counted)
<1> DEFINE f == [c \in Arrived |-> Given(1, c)]
<1>1. launch \in Launches /\ ValuesOK /\ RoundOK(1) /\ Values = Int
  BY DEF Sound, TypeOK, RoundOK, Values
<1>2. Loading \in SUBSET Arrived /\ Loading \in SUBSET Threads
      /\ \A c \in Arrived \cap Threads : Wid(c) < NumWarps
  BY <1>1, DoneArrived DEF Loading
<1>3. \A c \in Arrived : f[c] \in Int
  BY <1>1, GivenType
<1>4. \A t \in Loading : data[Idx(t)] = f[t]
  BY <1>2 DEF Given, Loaded, Loading
<1>5. \A c \in Arrived \ Loading : f[c] = 0
  BY <1>2 DEF Given, Loaded, Outside, Pad, Loading
<1> HIDE DEF f
<1>6. SumFunctionOnSet(f, Arrived) = SumFunctionOnSet(data, Counted)
  BY <1>1, <1>3, <1>4, <1>5, SumOverCounted
<1> QED BY <1>6 DEF SumGiven, SumOf, f

LEMMA SumFinal == IInv /\ VInv => SumCorrect
<1> SUFFICES ASSUME IInv, VInv, Done, launch.kernel = "sum" PROVE output = SumOf(Counted)
  BY DEF SumCorrect
<1>1. Sound
  BY DEF Sound, IInv, VInv
<1>2. output = SumGiven(1, Arrived)
  BY DEF VInv, Delivered
<1> QED BY <1>1, <1>2, SumArrived

LEMMA MeanFinal == IInv /\ VInv => MeanClose
<1> DEFINE s == SumOf(Counted)
<1> SUFFICES ASSUME IInv, VInv, Done, launch.kernel = "mean"
             PROVE  s - N * output < N * launch.grid /\ -(s - N * output) < N * launch.grid
  BY DEF MeanClose
<1>1. Sound /\ launch \in Launches /\ data \in Inputs
  BY DEF Sound, IInv, VInv, TypeOK, ValuesOK
<1>2. N \in Nat \ {0} /\ launch.grid \in Nat \ {0}
  BY <1>1, LaunchFacts, InputFacts
<1>3. Cardinality(Finished) = launch.grid
  <2>1. Finished = 0 .. launch.grid - 1
    BY <1>1, DoneArrived DEF Blocks
  <2> QED BY <1>2, <2>1, FS_Interval
<1>4. s = SumGiven(1, Arrived)
  BY <1>1, SumArrived
<1>5. s \in Int
  <2>1. IsFiniteSet(Arrived) /\ RoundOK(1) /\ Adding(1)
    BY <1>1, DoneArrived, ItemsFinite DEF RoundOK, Adding
  <2> QED BY <1>1, <1>4, <2>1, SumGivenType
<1> HIDE DEF s
<1>6. /\ output \in Int
      /\ s - N * output <= (N - 1) * launch.grid /\ N * output - s <= (N - 1) * launch.grid
  BY <1>3, <1>4 DEF VInv, Delivered
<1>7. (N - 1) * launch.grid < N * launch.grid /\ N * output \in Int
      /\ (N - 1) * launch.grid \in Int /\ N * launch.grid \in Int
  <2> DEFINE g == launch.grid
             p == N * g
  <2>1. g \in Nat \ {0}
    BY <1>2
  <2> HIDE DEF g
  <2>2. (N - 1) * g = N * g - g /\ N * g \in Int
    BY <1>2, <2>1
  <2> QED BY <1>2, <1>6, <2>1, <2>2 DEF g
<1> QED BY <1>5, <1>6, <1>7

\* An element at which a function on a finite set is largest.
LEMMA LargestExists ==
  ASSUME NEW C, IsFiniteSet(C), C # {}, NEW f, \A c \in C : f[c] \in Int
  PROVE  \E c \in C : \A d \in C : f[d] <= f[c]
<1> DEFINE Top(s, c) == \A d \in s : f[d] <= f[c]
           F == {s \in SUBSET C : s = {} \/ \E c \in s : Top(s, c)}
<1>1. {} \in F
  OBVIOUS
<1>2. ASSUME NEW s \in SUBSET C, NEW x \in C \ s, s \in F PROVE s \cup {x} \in F
  <2>1. s \cup {x} \in SUBSET C
    OBVIOUS
  <2>2. CASE s = {}
    <3>1. Top(s \cup {x}, x)
      BY <2>2
    <3> QED BY <2>1, <3>1
  <2>3. CASE s # {}
    <3>1. PICK c \in s : Top(s, c)
      BY <1>2, <2>3
    <3>2. CASE f[x] <= f[c]
      <4>1. Top(s \cup {x}, c)
        BY <3>1, <3>2
      <4> QED BY <2>1, <4>1
    <3>3. CASE ~(f[x] <= f[c])
      <4>1. Top(s \cup {x}, x)
        BY <3>1, <3>3
      <4> QED BY <2>1, <4>1
    <3> QED BY <3>2, <3>3
  <2> QED BY <2>2, <2>3
<1>3. SUBSET C \subseteq F
  <2> HIDE DEF F
  <2> QED BY <1>1, <1>2, SetsGrow
<1> QED BY <1>3

LEMMA MaxIs ==
  ASSUME NEW S \in SUBSET Int, NEW m \in S, \A y \in S : y <= m
  PROVE  Max(S) = m
<1> DEFINE P(x) == \A y \in S : x >= y
<1>1. \E x \in S : P(x)
  <2>1. P(m)
    OBVIOUS
  <2> QED BY <2>1
<1>2. Max(S) = CHOOSE x \in S : P(x)
  BY DEF Max
<1> HIDE DEF P
<1>3. Max(S) \in S /\ P(Max(S))
  BY <1>1, <1>2
<1>4. Max(S) >= m /\ Max(S) <= m /\ Max(S) \in Int
  BY <1>3 DEF P
<1> QED BY <1>4

LEMMA MinIs ==
  ASSUME NEW S \in SUBSET Int, NEW m \in S, \A y \in S : m <= y
  PROVE  Min(S) = m
<1> DEFINE P(x) == \A y \in S : x <= y
<1>1. \E x \in S : P(x)
  <2>1. P(m)
    OBVIOUS
  <2> QED BY <2>1
<1>2. Min(S) = CHOOSE x \in S : P(x)
  BY DEF Min
<1> HIDE DEF P
<1>3. Min(S) \in S /\ P(Min(S))
  BY <1>1, <1>2
<1>4. Min(S) <= m /\ Min(S) >= m /\ Min(S) \in Int
  BY <1>3 DEF P
<1> QED BY <1>4

\* The extreme values of whole warps.
LEMMA Extremes ==
  ASSUME launch \in Launches, ValuesOK
  PROVE  /\ ValuesOf(Counted) \in SUBSET Int
         /\ Max(ValuesOf(Counted)) \in ValuesOf(Counted)
         /\ \A y \in ValuesOf(Counted) : y <= Max(ValuesOf(Counted))
         /\ Min(ValuesOf(Counted)) \in ValuesOf(Counted)
         /\ \A y \in ValuesOf(Counted) : Min(ValuesOf(Counted)) <= y
<1>1. \A i \in Counted : data[i] \in Int
  BY InputFacts DEF Counted, ValuesOK
<1>2. IsFiniteSet(Counted) /\ Counted # {}
  <2>1. N \in Nat /\ DOMAIN data = 0 .. N - 1
    BY InputFacts DEF ValuesOK
  <2>2. IsFiniteSet(0 .. N - 1)
    BY <2>1, FS_Interval
  <2>3. Counted \in SUBSET (0 .. N - 1)
    BY <2>1 DEF Counted
  <2> QED BY <2>2, <2>3, FS_Subset, CountedThreads
<1>3. PICK i \in Counted : \A j \in Counted : data[j] <= data[i]
  BY <1>1, <1>2, LargestExists
<1>4. PICK k \in Counted : \A j \in Counted : data[k] <= data[j]
  <2> DEFINE f == [j \in Counted |-> -data[j]]
  <2>1. \A j \in Counted : f[j] = -data[j] /\ f[j] \in Int
    BY <1>1
  <2> HIDE DEF f
  <2>2. PICK k \in Counted : \A j \in Counted : f[j] <= f[k]
    BY <1>2, <2>1, LargestExists
  <2> QED BY <1>1, <2>1, <2>2
<1>5. Max(ValuesOf(Counted)) = data[i]
  <2>1. /\ ValuesOf(Counted) \in SUBSET Int /\ data[i] \in ValuesOf(Counted)
        /\ \A y \in ValuesOf(Counted) : y <= data[i]
    BY <1>1, <1>3 DEF ValuesOf
  <2> QED BY <2>1, MaxIs
<1>6. Min(ValuesOf(Counted)) = data[k]
  <2>1. /\ ValuesOf(Counted) \in SUBSET Int /\ data[k] \in ValuesOf(Counted)
        /\ \A y \in ValuesOf(Counted) : data[k] <= y
    BY <1>1, <1>4 DEF ValuesOf
  <2> QED BY <2>1, MinIs
<1> QED BY <1>1, <1>3, <1>4, <1>5, <1>6 DEF ValuesOf

\* An item that is more extreme than Lowest is an element, or the padding 0.
LEMMA MaxFinal ==
  ASSUME IInv, VInv, Done, launch.kernel = "max"
  PROVE  output = Max(ValuesOf(Counted) \cup Padding)
<1> DEFINE S == ValuesOf(Counted) \cup Padding
<1>1. Sound /\ launch \in Launches /\ data \in Inputs /\ ValuesOK
  BY DEF Sound, IInv, VInv, TypeOK, ValuesOK
<1>2. S \in SUBSET Int
  BY <1>1, Extremes DEF Padding
<1>3. \A i \in Counted : data[i] \in Int /\ Lowest < data[i] /\ data[i] \in S
  BY <1>1, InputFacts DEF Counted, ValuesOf
<1>4. /\ output = Lowest \/ output \in {Given(1, c) : c \in Arrived}
      /\ \A c \in Arrived : Given(1, c) <= output
  BY DEF VInv, Delivered
<1>5. \A i \in Counted : data[i] <= output
  <2> TAKE i \in Counted
  <2>1. PICK t \in Loading : Idx(t) = i
    BY <1>1, CountedThreads
  <2>2. t \in Arrived /\ Given(1, t) = data[i]
    BY <1>1, <2>1, DoneArrived DEF Loading, Given, Loaded
  <2> QED BY <1>4, <2>2
<1>6. 0 \in Counted
  BY <1>1, CountedThreads
<1>7. output # Lowest
  BY <1>1, <1>3, <1>5, <1>6, LaunchFacts
<1>8. PICK c \in Arrived : output = Given(1, c)
  BY <1>4, <1>7
<1>9. output \in S
  <2>1. CASE c \in Loading
    <3>1. output = data[Idx(c)] /\ Idx(c) \in Counted
      BY <1>1, <1>8, <2>1, CountedThreads DEF Loading, Given, Loaded
    <3> QED BY <1>3, <3>1
  <2>2. CASE c \in Threads \ Loading
    <3>1. Idx(c) \notin DOMAIN data
      BY <1>1, <2>2, DoneArrived DEF Loading
    <3>2. output = Lowest
      BY <1>8, <2>2, <3>1 DEF Given, Loaded, Outside
    <3> QED BY <1>7, <3>2
  <2>3. CASE c \notin Threads
    <3>1. output = 0
      BY <1>8, <2>3 DEF Given, Pad
    <3>2. NumWarps # WarpSize
      BY <1>1, <2>3, DoneArrived
    <3>3. NumWarps < WarpSize
      BY <1>1, <3>2, LaunchFacts
    <3> QED BY <3>1, <3>3 DEF Padding
  <2> QED BY <2>1, <2>2, <2>3
<1>10. \A y \in S : y <= output
  <2>1. \A y \in ValuesOf(Counted) : y <= output
    BY <1>5 DEF ValuesOf
  <2>2. ASSUME NumWarps < WarpSize PROVE 0 <= output
    <3>1. PICK d \in Arrived : d \notin Threads
      BY <1>1, <2>2, PadArrived
    <3>2. Given(1, d) = 0
      BY <3>1 DEF Given, Pad
    <3> QED BY <1>4, <3>1, <3>2
  <2>3. \A y \in Padding : y <= output
    BY <2>2 DEF Padding
  <2> QED BY <2>1, <2>3
<1> HIDE DEF S
<1> QED BY <1>2, <1>9, <1>10, MaxIs DEF S

LEMMA MinFinal ==
  ASSUME IInv, VInv, Done, launch.kernel = "min"
  PROVE  output = Min(ValuesOf(Counted) \cup Padding)
<1> DEFINE S == ValuesOf(Counted) \cup Padding
<1>1. Sound /\ launch \in Launches /\ data \in Inputs /\ ValuesOK
  BY DEF Sound, IInv, VInv, TypeOK, ValuesOK
<1>2. S \in SUBSET Int
  BY <1>1, Extremes DEF Padding
<1>3. \A i \in Counted : data[i] \in Int /\ data[i] < Highest /\ data[i] \in S
  BY <1>1, InputFacts DEF Counted, ValuesOf
<1>4. /\ output = Highest \/ output \in {Given(1, c) : c \in Arrived}
      /\ \A c \in Arrived : output <= Given(1, c)
  BY DEF VInv, Delivered
<1>5. \A i \in Counted : output <= data[i]
  <2> TAKE i \in Counted
  <2>1. PICK t \in Loading : Idx(t) = i
    BY <1>1, CountedThreads
  <2>2. t \in Arrived /\ Given(1, t) = data[i]
    BY <1>1, <2>1, DoneArrived DEF Loading, Given, Loaded
  <2> QED BY <1>4, <2>2
<1>6. 0 \in Counted
  BY <1>1, CountedThreads
<1>7. output # Highest
  BY <1>1, <1>3, <1>5, <1>6, LaunchFacts
<1>8. PICK c \in Arrived : output = Given(1, c)
  BY <1>4, <1>7
<1>9. output \in S
  <2>1. CASE c \in Loading
    <3>1. output = data[Idx(c)] /\ Idx(c) \in Counted
      BY <1>1, <1>8, <2>1, CountedThreads DEF Loading, Given, Loaded
    <3> QED BY <1>3, <3>1
  <2>2. CASE c \in Threads \ Loading
    <3>1. Idx(c) \notin DOMAIN data
      BY <1>1, <2>2, DoneArrived DEF Loading
    <3>2. output = Highest
      BY <1>8, <2>2, <3>1 DEF Given, Loaded, Outside
    <3> QED BY <1>7, <3>2
  <2>3. CASE c \notin Threads
    <3>1. output = 0
      BY <1>8, <2>3 DEF Given, Pad
    <3>2. NumWarps # WarpSize
      BY <1>1, <2>3, DoneArrived
    <3>3. NumWarps < WarpSize
      BY <1>1, <3>2, LaunchFacts
    <3> QED BY <3>1, <3>3 DEF Padding
  <2> QED BY <2>1, <2>2, <2>3
<1>10. \A y \in S : output <= y
  <2>1. \A y \in ValuesOf(Counted) : output <= y
    BY <1>5 DEF ValuesOf
  <2>2. ASSUME NumWarps < WarpSize PROVE output <= 0
    <3>1. PICK d \in Arrived : d \notin Threads
      BY <1>1, <2>2, PadArrived
    <3>2. Given(1, d) = 0
      BY <3>1 DEF Given, Pad
    <3> QED BY <1>4, <3>1, <3>2
  <2>3. \A y \in Padding : output <= y
    BY <2>2 DEF Padding
  <2> QED BY <2>1, <2>3
<1> HIDE DEF S
<1> QED BY <1>2, <1>9, <1>10, MinIs DEF S

LEMMA ExtremeFinal == IInv /\ VInv => ExtremeCorrect
BY MaxFinal, MinFinal DEF ExtremeCorrect

LEMMA ArgmaxFinal == IInv /\ VInv => ArgmaxOfBlock
<1> DEFINE M == Max(ValuesOf(Counted))
           v == val[<<0, 0>>]
<1> SUFFICES ASSUME IInv, VInv, Done, launch.kernel = "argmax", launch.grid = 1
             PROVE  output = FirstMaximum(Counted)
  BY DEF ArgmaxOfBlock
<1>1. Sound /\ launch \in Launches /\ data \in Inputs /\ ValuesOK /\ RoundOK(1) /\ ~Softmax
  BY DEF Sound, IInv, VInv, TypeOK, ValuesOK, RoundOK, Softmax
<1>2. Blocks = {0} /\ <<0, 0>> \in Threads /\ Finished = {0} /\ Arrived = Parts(0)
  <2>1. Blocks = {0}
    BY DEF Blocks
  <2>2. <<0, 0>> \in Threads /\ Finished = {0}
    BY <1>1, <2>1, LaunchFacts, DoneArrived DEF Threads
  <2> QED BY <2>1, <2>2 DEF Arrived
<1>3. Folded(1, v, Arrived)
  <2>1. RegisterOK(<<0, 0>>) /\ pc[<<0, 0>>] = "done"
    BY <1>2 DEF VInv, RegistersFolded, Done
  <2>2. <<0, 0>>[1] = 0 /\ <<0, 0>>[2] = 0
    OBVIOUS
  <2> QED BY <1>1, <1>2, <2>1, <2>2 DEF RegisterOK
<1>4. /\ \A c \in Arrived : Behind(Given(1, c), v)
      /\ v \in {Given(1, c) : c \in Arrived}
  BY <1>3 DEF Folded, Adding, Softmax
<1>5. output = Smaller(Highest, v.idx)
  BY <1>2 DEF VInv, Delivered
<1> HIDE DEF v
<1>6. \A i \in Counted : data[i] \in Int /\ Lowest < data[i] /\ i \in Nat /\ i < Highest
                         /\ data[i] \in ValuesOf(Counted)
  <2>1. N \in Nat /\ N <= Highest /\ Highest \in Int /\ DOMAIN data = 0 .. N - 1
    BY <1>1, InputFacts, LaunchFacts
  <2>2. \A i \in Counted : i \in DOMAIN data
    BY DEF Counted
  <2> QED BY <1>1, <2>1, <2>2, InputFacts DEF ValuesOf
<1>7. \A i \in Counted : \E t \in Arrived : Given(1, t) = Pair(data[i], i)
  <2>1. \A t \in Loading : t \in Arrived /\ Given(1, t) = Pair(data[Idx(t)], Idx(t))
    BY <1>1, DoneArrived DEF Loading, Given, Loaded
  <2> QED BY <1>1, <2>1, CountedThreads
<1>8. PICK c \in Arrived : v = Given(1, c)
  BY <1>4
<1>9. \A i \in Counted : data[i] < v.val \/ (data[i] = v.val /\ v.idx <= i)
  BY <1>4, <1>7 DEF Behind, Pair
<1>10. c \in Loading
  <2>1. v.val # Lowest
    <3>1. 0 \in Counted
      BY <1>1, CountedThreads
    <3> QED BY <1>1, <1>6, <1>9, <3>1, LaunchFacts
  <2>2. c \in Threads
    BY <1>8, <2>1 DEF Given, Pad, Pair
  <2>3. Idx(c) \in DOMAIN data
    BY <1>8, <2>1, <2>2 DEF Given, Loaded, Outside, Pair
  <2> QED BY <1>1, <2>2, <2>3, DoneArrived DEF Loading
<1> DEFINE k == Idx(c)
<1>11. k \in Counted /\ v.val = data[k] /\ v.idx = k
  BY <1>1, <1>8, <1>10, CountedThreads DEF Loading, Given, Loaded, Pair
<1> HIDE DEF k
<1>12. M = data[k]
  <2>1. \A i \in Counted : data[i] <= data[k]
    BY <1>6, <1>9, <1>11
  <2>2. /\ ValuesOf(Counted) \in SUBSET Int /\ data[k] \in ValuesOf(Counted)
        /\ \A y \in ValuesOf(Counted) : y <= data[k]
    BY <1>6, <1>11, <2>1 DEF ValuesOf
  <2> QED BY <2>2, MaxIs
<1> HIDE DEF M
<1>13. FirstMaximum(Counted) = k
  <2> DEFINE F == {i \in Counted : data[i] = M}
  <2>1. F \in SUBSET Int /\ k \in F
    BY <1>6, <1>11, <1>12
  <2>2. \A i \in F : k <= i
    BY <1>6, <1>9, <1>11, <1>12
  <2>3. FirstMaximum(Counted) = Min(F)
    BY DEF FirstMaximum, M
  <2> HIDE DEF F
  <2> QED BY <2>1, <2>2, <2>3, MinIs
<1>14. Smaller(Highest, k) = k
  BY <1>1, <1>6, <1>11, LaunchFacts DEF Smaller
<1> QED BY <1>5, <1>11, <1>13, <1>14

LEMMA SoftmaxFinal == IInv /\ VInv => Normalised
<1> DEFINE s == shared[0][0]
           f == [c \in Arrived |-> Given(2, c)]
           g == [j \in Counted |-> output[j][1]]
<1> SUFFICES ASSUME IInv, VInv, Done, Softmax
             PROVE  \A i \in DOMAIN data : output[i][2] = SumFunctionOnSet(g, Counted)
  BY DEF Normalised
<1>1. Sound /\ launch \in Launches /\ data \in Inputs /\ ValuesOK /\ RoundOK(2) /\ Adding(2)
      /\ Values = Int
  BY DEF Sound, IInv, VInv, TypeOK, ValuesOK, RoundOK, Adding, Values, Softmax
<1>2. Blocks = {0} /\ \A t \in Threads : t[1] = 0 /\ Idx(t) = t[2]
  <2>1. launch.grid = 1 /\ launch.block \in Nat
    BY <1>1, LaunchFacts
  <2>2. Blocks = {0}
    BY <2>1 DEF Blocks
  <2>3. \A t \in Threads : t[1] = 0 /\ t[2] \in Nat
    BY <2>1, <2>2 DEF Threads, Indices
  <2> QED BY <2>1, <2>2, <2>3 DEF Idx
<1>3. <<0, 0>> \in Threads /\ Arrived = Parts(0)
  BY <1>1, <1>2, LaunchFacts, DoneArrived DEF Threads, Arrived
<1>4. \A t \in Threads : /\ pc[t] = "done" /\ round[t] = 2
                         /\ Idx(t) \notin DOMAIN data => ex[t] = 0
                         /\ Idx(t) \in DOMAIN data => output[Idx(t)] = <<ex[t], s>>
  BY <1>2 DEF Done, VInv, Stored
<1>5. s = SumGiven(2, Arrived)
  <2>1. CellOK(<<0, 0>>) /\ <<0, 0>>[1] = 0 /\ <<0, 0>>[2] = 0
    BY <1>3 DEF VInv, SharedFolded
  <2>2. Folded(2, s, Parts(0))
    BY <1>3, <1>4, <2>1 DEF CellOK
  <2> QED BY <1>1, <1>3, <2>2 DEF Folded
<1> HIDE DEF s
<1>6. \A i \in DOMAIN data : \E t \in Threads : Idx(t) = i
  <2>1. N \in Nat /\ N <= launch.block /\ DOMAIN data = 0 .. N - 1 /\ launch.block \in Nat
    <3>1. launch.grid = 1 /\ launch.block \in Nat
      BY <1>1, LaunchFacts
    <3>2. launch.grid * launch.block = launch.block
      BY <3>1
    <3> QED BY <1>1, <3>1, <3>2, InputFacts DEF ValuesOK
  <2>2. \A i \in DOMAIN data : <<0, i>> \in Threads /\ <<0, i>>[2] = i
    BY <1>2, <2>1 DEF Threads, Indices
  <2> QED BY <1>2, <2>2
<1>7. \A i \in DOMAIN data : output[i][2] = s
  BY <1>4, <1>6
<1>8. \A c \in Arrived : f[c] \in Int
  BY <1>1, GivenType
<1>9. \A t \in Loading : g[Idx(t)] = f[t]
  <2>1. \A t \in Loading : /\ t \in Threads /\ t \in Arrived /\ Idx(t) \in Counted
                           /\ Idx(t) \in DOMAIN data
    BY <1>1, DoneArrived, CountedThreads DEF Loading
  <2>2. \A t \in Loading : f[t] = ex[t]
    BY <2>1 DEF Given
  <2>3. \A t \in Loading : g[Idx(t)] = ex[t]
    BY <1>4, <2>1
  <2> QED BY <2>2, <2>3
<1>10. \A c \in Arrived \ Loading : f[c] = 0
  <2>1. \A c \in Arrived \cap Threads : Wid(c) < NumWarps
    BY <1>1, DoneArrived
  <2>2. Pad = 0
    BY DEF Pad, Softmax
  <2> QED BY <1>4, <2>1, <2>2 DEF Given, Loading
<1> HIDE DEF g
<1>11. s = SumFunctionOnSet(f, Arrived)
  BY <1>5 DEF SumGiven
<1> HIDE DEF f
<1>12. SumFunctionOnSet(f, Arrived) = SumFunctionOnSet(g, Counted)
  BY <1>1, <1>8, <1>9, <1>10, SumOverCounted
<1> QED BY <1>7, <1>11, <1>12

\* A block of whole warps leaves no element out.
LEMMA AllCounted ==
  ASSUME launch \in Launches, ValuesOK, launch.block % WarpSize = 0
  PROVE  Counted = DOMAIN data
<1> DEFINE n == launch.block
           q == NumWarps
<1>1. /\ n \in Nat \ {0} /\ q \in Nat /\ WarpSize \in Nat \ {0} /\ DOMAIN data = 0 .. N - 1
      /\ N \in Nat
  BY LaunchFacts, InputFacts DEF ValuesOK
<1>2. n = WarpSize * q
  <2>1. n = WarpSize * (n \div WarpSize) + (n % WarpSize)
    BY <1>1, DivMod, Zenon
  <2>2. WarpSize * q \in Nat /\ n % WarpSize = 0
    BY <1>1
  <2>3. n = WarpSize * q + 0
    BY <2>1, <2>2, Zenon DEF NumWarps
  <2> HIDE DEF n, q
  <2> QED BY <2>2, <2>3
<1> HIDE DEF n, q
<1>3. \A i \in DOMAIN data : (i % n) \div WarpSize < q
  <2> TAKE i \in DOMAIN data
  <2> DEFINE m == i % n
             w == m \div WarpSize
  <2>1. m \in Nat /\ m < n
    <3>1. i \in Nat
      BY <1>1
    <3>2. m \in 0 .. n - 1
      BY <1>1, <3>1, DivMod
    <3> QED BY <1>1, <3>2
  <2> HIDE DEF m
  <2>2. w \in Nat /\ m = WarpSize * w + (m % WarpSize) /\ m % WarpSize \in Nat
    <3>1. /\ w \in Nat /\ m % WarpSize \in 0 .. WarpSize - 1
          /\ m = WarpSize * w + (m % WarpSize)
      BY <1>1, <2>1, DivMod, Zenon
    <3>2. m % WarpSize \in Nat
      BY <1>1, <3>1
    <3> QED BY <3>1, <3>2
  <2> HIDE DEF w
  <2>3. SUFFICES ASSUME q <= w PROVE FALSE
    BY <1>1, <2>2 DEF w, m
  <2>4. WarpSize * q <= WarpSize * w
    BY <1>1, <2>2, <2>3
  <2>5. WarpSize * w \in Nat /\ WarpSize * q \in Nat
    BY <1>1, <2>2
  <2> QED BY <1>1, <1>2, <2>1, <2>2, <2>4, <2>5
<1> QED BY <1>3 DEF Counted, n, q

LEMMA DocumentedFinal == IInv /\ VInv => AsDocumented
<1> SUFFICES ASSUME IInv, VInv, launch.block % WarpSize = 0
             PROVE  /\ SumOfInput /\ SoftmaxAddsUp
                    /\ NumWarps = WarpSize => MaxOfInput /\ MinOfInput
                    /\ launch.grid = 1 => ArgmaxOfInput
  BY DEF AsDocumented
<1>1. launch \in Launches /\ ValuesOK
  BY DEF IInv, VInv, TypeOK, ValuesOK
<1>2. Counted = DOMAIN data
  BY <1>1, AllCounted
<1>3. SumOfInput
  BY <1>2, SumFinal DEF SumCorrect, SumOfInput
<1>4. SoftmaxAddsUp
  BY <1>2, SoftmaxFinal DEF Normalised, SoftmaxAddsUp
<1>5. ASSUME NumWarps = WarpSize PROVE MaxOfInput /\ MinOfInput
  <2>1. Padding = {}
    BY <1>1, <1>5, LaunchFacts DEF Padding
  <2>2. ValuesOf(Counted) \cup Padding = ValuesOf(DOMAIN data)
    BY <1>2, <2>1
  <2> QED BY <2>2, ExtremeFinal DEF ExtremeCorrect, MaxOfInput, MinOfInput
<1>6. launch.grid = 1 => ArgmaxOfInput
  BY <1>2, ArgmaxFinal DEF ArgmaxOfBlock, ArgmaxOfInput
<1> QED BY <1>3, <1>4, <1>5, <1>6

\* All elements of whole warps reach the sum, in any order of warps and blocks.
THEOREM SumIsCorrect == Spec => []SumCorrect
<1>1. IInv /\ Computed => SumCorrect
  BY SumFinal DEF Computed, SumCorrect, Softmax
<1> QED BY <1>1, ValueInvariance, PTL

\* mean_reduce divides in every block, and the sum of the quotients misses the
\* quotient of the sum by less than one per block.
THEOREM MeanIsClose == Spec => []MeanClose
<1>1. IInv /\ Computed => MeanClose
  BY MeanFinal DEF Computed, MeanClose, Softmax
<1> QED BY <1>1, ValueInvariance, PTL

\* max_reduce and min_reduce leave the extreme of the elements of whole warps and of the
\* zeros that pad the first warp in *output, whatever the order of warps and blocks.
THEOREM ExtremeIsCorrect == Spec => []ExtremeCorrect
<1>1. IInv /\ Computed => ExtremeCorrect
  BY ExtremeFinal DEF Computed, ExtremeCorrect, Softmax
<1> QED BY <1>1, ValueInvariance, PTL

\* argmax_reduce on one block leaves the first index of the greatest element of the
\* block's whole warps in *output, whichever of them held it.
THEOREM ArgmaxIsFirst == Spec => []ArgmaxOfBlock
<1>1. IInv /\ Computed => ArgmaxOfBlock
  BY ArgmaxFinal DEF Computed, ArgmaxOfBlock, Softmax
<1> QED BY <1>1, ValueInvariance, PTL

\* softmax divides all elements by one sum, that of what the threads of whole warps
\* computed, so the results of whole warps add up to 1.
THEOREM SoftmaxIsNormalised == ASSUME IntegerExp PROVE Spec => []Normalised
<1>1. IInv /\ Computed => Normalised
  BY SoftmaxFinal DEF Computed
<1> QED BY <1>1, ValueInvariance, PTL

\* Launched with blocks of whole warps, sum_reduce computes the sum of all elements and
\* the results of softmax add up to 1; so do max_reduce and min_reduce compute the
\* extreme element, if the block has as many warps as a warp has lanes, and argmax_reduce
\* the index of the first maximum, if there is one block.
THEOREM DocumentedForWholeWarps == ASSUME IntegerExp PROVE Spec => []AsDocumented
<1>1. IInv /\ Computed => AsDocumented
  BY DocumentedFinal DEF Computed
<1> QED BY <1>1, ValueInvariance, PTL
=============================================================================
