---------------------------- MODULE StreamProof ----------------------------
(***************************************************************************)
(* Proofs about Stream, for any number of objects, cells and handles.  The  *)
(* ownership invariants need each other: that the handles in use are live   *)
(* rests on no two cells holding one handle, and that in turn on the client *)
(* handing over only handles it still owns.                                 *)
(***************************************************************************)
EXTENDS Stream, TLAPS

Inv == TypeOK /\ HeldIsLive /\ NoLeak /\ SingleOwner
-----------------------------------------------------------------------------
\* Objects only let go of cells, or come to share cells in use: the copies,
\* the moves and the destructor preserve the ownership of the streams.
LEMMA RebindPreserves ==
  ASSUME NEW f \in [Objects -> Cells \cup {NoCell}],
         Inv, Used(f) \subseteq Used(cell), Rebind(f),
         UNCHANGED <<raw, client>>, alive' \in SUBSET Objects,
         \A o \in Objects \ alive' : f[o] = NoCell
  PROVE  Inv' /\ LastRelease
<1> USE DEF Inv
<1>1. TypeOK'
  BY DEF TypeOK, Rebind
<1>2. \A c \in Used(cell) : raw[c] \in Destroyed(f) => c \notin Used(f)
  BY NullAssumption DEF TypeOK, Used, Destroyed, SingleOwner
<1>3. \A o \in Objects : f[o] # NoCell => f[o] \in Used(f) /\ f[o] \in Used(cell)
  BY DEF Used
<1>4. HeldIsLive'
  <2> SUFFICES ASSUME NEW o \in Objects, f[o] # NoCell, raw[f[o]] # Null
               PROVE  raw[f[o]] \in live \ Destroyed(f)
    BY DEF HeldIsLive, Get, Rebind
  <2>1. PICK p \in Objects : cell[p] = f[o]
    BY <1>3 DEF Used
  <2>2. raw[f[o]] \in live
    BY <2>1 DEF HeldIsLive, Get
  <2> QED BY <2>2, <1>2, <1>3
<1>5. NoLeak'
  <2> SUFFICES ASSUME NEW h \in live, h \notin Destroyed(f), h \notin client
               PROVE  \E o \in alive' : Get(o)' = h
    BY DEF NoLeak, Rebind
  <2>1. PICK o \in alive : Get(o) = h
    BY DEF NoLeak
  <2>2. h # Null
    BY NullAssumption DEF TypeOK
  <2>3. cell[o] # NoCell /\ raw[cell[o]] = h
    BY <2>1, <2>2 DEF Get
  <2>4. cell[o] \in Used(cell)
    BY <2>3 DEF Used, TypeOK
  <2>5. cell[o] \in Used(f)
    BY <2>2, <2>3, <2>4 DEF Destroyed
  <2>6. PICK p \in Objects : f[p] = cell[o]
    BY <2>5 DEF Used
  <2> QED BY <2>3, <2>6 DEF Get, Rebind
<1>6. SingleOwner'
  BY DEF SingleOwner, Rebind, Used, Destroyed
<1>7. LastRelease
  <2> SUFFICES ASSUME NEW h \in Destroyed(f), h \in live
               PROVE  /\ \E o \in alive : Get(o) = h
                      /\ \A o \in alive' : Get(o)' # h
                      /\ h \notin client
    BY DEF LastRelease, Rebind
  <2>1. PICK c \in Used(cell) \ Used(f) : raw[c] = h
    BY DEF Destroyed
  <2>2. h # Null
    BY DEF Destroyed
  <2>3. PICK o \in Objects : cell[o] = c
    BY <2>1 DEF Used
  <2>4. c # NoCell
    BY <2>1, NullAssumption DEF Used
  <2>5. o \in alive /\ Get(o) = h
    BY <2>1, <2>3, <2>4 DEF TypeOK, Get
  <2>6. \A p \in alive' : Get(p)' # h
    BY <2>2, <1>4, <1>1 DEF HeldIsLive, Rebind, TypeOK
  <2> QED BY <2>1, <2>5, <2>6 DEF SingleOwner
<1> QED BY <1>1, <1>4, <1>5, <1>6, <1>7

\* What a step that puts a new cell around h does, with the cell named.
NewCellAt(o, h, created, c) ==
  LET f == [cell EXCEPT ![o] = c]
  IN  /\ cell' = f
      /\ raw' = [raw EXCEPT ![c] = h]
      /\ live' = (live \ Destroyed(f)) \cup created

\* A new cell around a handle preserves the ownership of the streams, whether
\* the handle is just created (a constructor, reset) or handed over by the
\* client (take), or null: the old cell's stream goes if no copy is left.
LEMMA NewCellPreserves ==
  ASSUME NEW o \in Objects, NEW h \in Handles \cup {Null}, NEW created,
         NEW c \in Cells \ Used(cell),
         Inv, NewCellAt(o, h, created, c), alive' = alive \cup {o},
         \/ h \in Handles \ live /\ created = {h} /\ client' = client
         \/ h \in client \cup {Null} /\ created = {} /\ client' = client \ {h}
  PROVE  /\ Inv' /\ LastRelease
         /\ \A p \in Objects \ {o} : Get(p)' = Get(p)
         /\ Get(o)' = h
<1> USE DEF Inv
<1> DEFINE f == [cell EXCEPT ![o] = c]
<1>0. c # NoCell /\ cell \in [Objects -> Cells \cup {NoCell}]
      /\ raw \in [Cells -> Handles \cup {Null}]
  BY NullAssumption DEF TypeOK
<1>s. /\ cell' = f /\ raw' = [raw EXCEPT ![c] = h]
      /\ live' = (live \ Destroyed(f)) \cup created
  BY DEF NewCellAt
<1>1. TypeOK'
  BY <1>0, <1>s DEF TypeOK
<1>2. Used(f) \subseteq Used(cell) \cup {c}
  BY <1>0 DEF Used
<1>3. \A d \in Used(cell) : raw'[d] = raw[d]
  BY <1>0, <1>s DEF Used
<1>4. /\ \A p \in Objects \ {o} : Get(p)' = Get(p)
      /\ Get(o)' = h
  <2>1. Get(o)' = h
    BY <1>0, <1>s DEF Get
  <2>2. ASSUME NEW p \in Objects \ {o}
        PROVE  Get(p)' = Get(p)
    <3>1. cell'[p] = cell[p]
      BY <1>0, <1>s
    <3>2. cell[p] # NoCell => cell[p] \in Used(cell)
      BY <1>0 DEF Used
    <3> QED BY <3>1, <3>2, <1>3 DEF Get
  <2> QED BY <2>1, <2>2
<1>5. \A d \in Used(cell) : raw[d] \in Destroyed(f) => d \notin Used(f)
  BY NullAssumption DEF TypeOK, Used, Destroyed, SingleOwner
<1>6. \A d \in Destroyed(f) : d \notin client /\ d # Null
  BY DEF Destroyed, SingleOwner
<1>7. \A d \in Used(cell) : raw[d] = Null \/ raw[d] \in live
  BY <1>0, NullAssumption DEF Used, HeldIsLive, Get
<1>8. h \in live' \/ h = Null
  BY <1>s, <1>6 DEF SingleOwner
<1>9. HeldIsLive'
  <2> SUFFICES ASSUME NEW p \in Objects, p # o, Get(p) # Null
               PROVE  Get(p) \in live'
    BY <1>4, <1>8 DEF HeldIsLive
  <2>1. cell[p] # NoCell /\ Get(p) = raw[cell[p]]
    BY DEF Get
  <2>2. f[p] = cell[p] /\ f[p] \in Used(f) /\ cell[p] \in Used(cell)
    BY <2>1, <1>0 DEF Used
  <2> QED BY <2>1, <2>2, <1>5, <1>7, <1>s
<1>10. SingleOwner'
  <2>1. h \in Handles => \A d \in Used(cell) : raw[d] # h
    BY <1>7, NullAssumption DEF SingleOwner, TypeOK
  <2>2. \A d \in Used(cell) : raw[d] \notin client'
    BY DEF SingleOwner
  <2>3. h \notin client'
    BY NullAssumption DEF SingleOwner, TypeOK
  <2>4. client' \subseteq live'
    BY <1>s, <1>6 DEF SingleOwner
  <2>5. Used(cell)' = Used(f)
    BY <1>s DEF Used
  <2>6. raw'[c] = h
    BY <1>0, <1>s
  <2>7. \A d \in Used(f) : raw'[d] \notin client'
    BY <2>2, <2>3, <2>6, <1>2, <1>3
  <2>8. \A d, e \in Used(f) : raw'[d] = raw'[e] /\ raw'[d] # Null => d = e
    BY <2>1, <2>6, <1>2, <1>3 DEF SingleOwner
  <2> QED BY <2>4, <2>5, <2>7, <2>8 DEF SingleOwner
<1>11. NoLeak'
  <2> SUFFICES ASSUME NEW g \in live', g \notin client', g # h
               PROVE  \E p \in alive' : Get(p)' = g
    BY <1>4 DEF NoLeak
  <2>1. g \in live /\ g \notin Destroyed(f) /\ g \notin client
    BY <1>s
  <2>2. PICK p \in alive : Get(p) = g
    BY <2>1 DEF NoLeak
  <2>3. g # Null /\ p \in Objects
    BY <2>1, NullAssumption DEF TypeOK
  <2>4. cell[p] # NoCell /\ raw[cell[p]] = g /\ cell[p] \in Used(cell)
    BY <2>2, <2>3, <1>0 DEF Get, Used
  <2>5. cell[p] \in Used(f)
    BY <2>1, <2>3, <2>4 DEF Destroyed
  <2>6. PICK q \in Objects : f[q] = cell[p]
    BY <2>5 DEF Used
  <2>7. q # o
    BY <2>4, <2>6, <1>0
  <2>8. cell[q] = cell[p] /\ q \in alive
    BY <2>4, <2>6, <2>7, <1>0 DEF TypeOK
  <2>9. Get(q) = g
    BY <2>4, <2>8 DEF Get
  <2> QED BY <2>7, <2>8, <2>9, <1>4
<1>12. LastRelease
  <2> SUFFICES ASSUME NEW g \in live \ live'
               PROVE  /\ \E p \in alive : Get(p) = g
                      /\ \A p \in alive' : Get(p)' # g
                      /\ g \notin client
    BY DEF LastRelease
  <2>1. g \in Destroyed(f)
    BY <1>s
  <2>2. PICK d \in Used(cell) : raw[d] = g
    BY <2>1 DEF Destroyed
  <2>3. PICK p \in Objects : cell[p] = d
    BY <2>2 DEF Used
  <2>4. p \in alive /\ Get(p) = g
    BY <2>2, <2>3, NullAssumption DEF TypeOK, Get, Used
  <2>5. \A q \in alive' : Get(q)' # g
    BY <1>6, <1>9, <2>1, <1>1 DEF HeldIsLive, TypeOK
  <2> QED BY <2>1, <2>4, <2>5, <1>6
<1> QED BY <1>1, <1>4, <1>9, <1>10, <1>11, <1>12
-----------------------------------------------------------------------------
LEMMA InitInv == Init => Inv
<1> SUFFICES ASSUME Init PROVE Inv
  OBVIOUS
<1>1. \A o \in Objects : Get(o) = Null
  BY DEF Init, Get
<1>2. Used(cell) = {}
  BY NullAssumption DEF Init, Used
<1> QED BY <1>1, <1>2 DEF Init, Inv, TypeOK, HeldIsLive, NoLeak, SingleOwner

\* Existing streams are the denoted ones and the client's.
LiveOwned == live = ({Get(o) : o \in Objects} \ {Null}) \cup client

LEMMA LiveIsOwned == Inv => LiveOwned
<1> SUFFICES ASSUME Inv PROVE LiveOwned
  OBVIOUS
<1>1. \A h \in live : h # Null
  BY NullAssumption DEF Inv, TypeOK
<1>2. live \subseteq ({Get(o) : o \in Objects} \ {Null}) \cup client
  BY <1>1 DEF Inv, NoLeak, TypeOK
<1>3. ({Get(o) : o \in Objects} \ {Null}) \cup client \subseteq live
  BY DEF Inv, HeldIsLive, SingleOwner
<1> QED BY <1>2, <1>3 DEF LiveOwned

\* What the owners see of a step that is not a stutter for them.
OwnersStep(h, o) == /\ h = Null \/ h \notin live \/ h \in client \cup {Get(p) : p \in Objects}
                    /\ \A p \in Objects \ {o} : Get(p)' = Get(p)
                    /\ Get(o)' = h
                    /\ client' = client \ {h}

\* A step that changes what one object denotes is a Bind of the abstract
\* specification: the streams that exist after it are the ones still owned.
LEMMA StepIsBind ==
  ASSUME NEW o \in Objects, NEW h \in Handles \cup {Null}, Inv, Inv', OwnersStep(h, o)
  PROVE  Owners!Bind(o, h)
<1> DEFINE before == [p \in Objects |-> Get(p)]
           after  == [p \in Objects |-> Get(p)']
<1>1. after = [before EXCEPT ![o] = h]
  BY DEF OwnersStep
<1>2. live' = Owners!Denoted(after) \cup client'
  <2>1. (Inv => LiveOwned)'
    BY LiveIsOwned, PTL
  <2> QED BY <2>1 DEF LiveOwned, Owners!Denoted
<1>3. h = Null \/ h \notin live \/ h \in client \cup Owners!Denoted(before)
  BY DEF OwnersStep, Owners!Denoted
<1> QED BY <1>1, <1>2, <1>3 DEF OwnersStep, Owners!Bind, Owners!Denoted
-----------------------------------------------------------------------------
\* What every step does: it preserves the invariant, destroys only streams
\* nobody holds any more, and is a step or a stutter of the abstract owners.
Good == Inv' /\ LastRelease /\ [Owners!Next]_(Owners!vars)

LEMMA NewCellGood ==
  ASSUME NEW o \in Objects, NEW h \in Handles \cup {Null}, NEW created, Inv,
         NewCell(o, h, created), alive' = alive \cup {o},
         \/ h \in Handles \ live /\ created = {h} /\ client' = client
         \/ h \in client \cup {Null} /\ created = {} /\ client' = client \ {h}
  PROVE  Good
<1>1. PICK c \in Cells \ Used(cell) : NewCellAt(o, h, created, c)
  BY DEF NewCell, NewCellAt
<1>2. /\ Inv' /\ LastRelease
      /\ \A p \in Objects \ {o} : Get(p)' = Get(p)
      /\ Get(o)' = h
  BY <1>1, NewCellPreserves
<1>3. client' = client \ {h}
  BY DEF Inv, SingleOwner
<1>4. OwnersStep(h, o)
  BY <1>2, <1>3 DEF OwnersStep
<1>5. Owners!Bind(o, h)
  BY <1>2, <1>4, StepIsBind
<1> QED BY <1>2, <1>5 DEF Good, Owners!Next

\* Object o comes to share the cell of p, or to refer to none.
LEMMA ShareGood ==
  ASSUME NEW o \in Objects, NEW k \in Cells \cup {NoCell}, NEW h \in Handles \cup {Null},
         Inv, Rebind([cell EXCEPT ![o] = k]), UNCHANGED <<raw, client>>,
         \/ k = NoCell /\ h = Null /\ alive' = alive \ {o}
         \/ \E p \in alive : k = cell[p] /\ h = Get(p) /\ alive' = alive \cup {o}
  PROVE  Good
<1> DEFINE f == [cell EXCEPT ![o] = k]
<1>1. f \in [Objects -> Cells \cup {NoCell}] /\ alive' \in SUBSET Objects
  BY DEF Inv, TypeOK
<1>2. Used(f) \subseteq Used(cell)
  BY NullAssumption DEF Inv, TypeOK, Used
<1>3. \A p \in Objects \ alive' : f[p] = NoCell
  BY DEF Inv, TypeOK
<1>4. Inv' /\ LastRelease
  BY <1>1, <1>2, <1>3, RebindPreserves
<1>5. /\ \A p \in Objects \ {o} : Get(p)' = Get(p)
      /\ Get(o)' = h
  BY DEF Rebind, Get, Inv, TypeOK
<1>6. h = Null \/ h \in {Get(p) : p \in Objects}
  BY DEF Inv, TypeOK
<1>7. h \notin client
  <2>1. ASSUME NEW p \in alive, h = Get(p), h # Null
        PROVE  h \notin client
    <3>1. cell[p] \in Used(cell) /\ raw[cell[p]] = h
      BY <2>1 DEF Get, Used, Inv, TypeOK
    <3> QED BY <3>1 DEF Inv, SingleOwner
  <2>2. Null \notin client
    BY NullAssumption DEF Inv, TypeOK
  <2> QED BY <2>1, <2>2
<1>8. OwnersStep(h, o)
  BY <1>5, <1>6, <1>7 DEF OwnersStep
<1>9. Owners!Bind(o, h)
  BY <1>4, <1>8, StepIsBind
<1> QED BY <1>4, <1>9 DEF Good, Owners!Next

\* Object o takes the cell of p over, and p is left without one.
LEMMA TransferGood ==
  ASSUME NEW o \in Objects, NEW p \in alive, o # p, Inv,
         Rebind([cell EXCEPT ![o] = cell[p], ![p] = NoCell]),
         UNCHANGED <<raw, client>>, alive' = alive \cup {o}
  PROVE  Good
<1> DEFINE f == [cell EXCEPT ![o] = cell[p], ![p] = NoCell]
           before == [q \in Objects |-> Get(q)]
           after  == [q \in Objects |-> Get(q)']
<1>0. p \in Objects /\ cell[p] \in Cells \cup {NoCell}
  BY DEF Inv, TypeOK
<1>1. f \in [Objects -> Cells \cup {NoCell}] /\ alive' \in SUBSET Objects
  BY <1>0 DEF Inv, TypeOK
<1>2. Used(f) \subseteq Used(cell)
  BY <1>0, NullAssumption DEF Inv, TypeOK, Used
<1>3. \A q \in Objects \ alive' : f[q] = NoCell
  BY DEF Inv, TypeOK
<1>4. Inv' /\ LastRelease
  BY <1>1, <1>2, <1>3, RebindPreserves
<1>5. /\ \A q \in Objects \ {o, p} : Get(q)' = Get(q)
      /\ Get(o)' = Get(p)
      /\ Get(p)' = Null
  BY <1>0 DEF Rebind, Get, Inv, TypeOK
<1>6. after = [before EXCEPT ![o] = before[p], ![p] = Null]
  BY <1>0, <1>5
<1>7. (Inv => LiveOwned)'
  BY LiveIsOwned, PTL
<1>8. live' = Owners!Denoted(after) \cup client
  BY <1>4, <1>7 DEF LiveOwned, Owners!Denoted
<1>9. Owners!Transfer(o, p)
  BY <1>6, <1>8 DEF Owners!Transfer, Owners!Denoted
<1> QED BY <1>0, <1>4, <1>9 DEF Good, Owners!Next
\* Nothing the invariants speak of changes.
LEMMA StutterGood == Inv /\ UNCHANGED vars => Good
<1> SUFFICES ASSUME Inv, UNCHANGED vars PROVE Good
  OBVIOUS
<1>1. \A o \in Objects : Get(o)' = Get(o)
  BY DEF vars, Get
<1>2. Used(cell)' = Used(cell)
  BY DEF vars, Used
<1>3. Inv'
  BY <1>1, <1>2 DEF vars, Inv, TypeOK, HeldIsLive, NoLeak, SingleOwner
<1>4. LastRelease
  BY DEF LastRelease, vars
<1>5. UNCHANGED Owners!vars
  BY <1>1 DEF vars, Owners!vars
<1> QED BY <1>3, <1>4, <1>5 DEF Good

LEMMA CreateRawGood ==
  ASSUME NEW h \in Handles, Inv, CreateRaw(h)
  PROVE  Good
<1>1. \A o \in Objects : Get(o)' = Get(o)
  BY DEF CreateRaw, Get
<1>2. Used(cell)' = Used(cell)
  BY DEF CreateRaw, Used
<1>3. \A c \in Used(cell) : raw[c] # h
  BY NullAssumption DEF CreateRaw, Inv, TypeOK, HeldIsLive, Get, Used
<1>4. Inv'
  BY <1>1, <1>2, <1>3 DEF CreateRaw, Inv, TypeOK, HeldIsLive, NoLeak, SingleOwner
<1>5. LastRelease
  BY DEF LastRelease, CreateRaw
<1>6. Owners!Create(h)
  BY <1>1 DEF CreateRaw, Owners!Create
<1> QED BY <1>4, <1>5, <1>6 DEF Good, Owners!Next

LEMMA NextGood == Inv /\ [Next]_vars => Good
<1> SUFFICES ASSUME Inv, [Next]_vars PROVE Good
  OBVIOUS
<1>0. Null \in Handles \cup {Null} /\ alive \subseteq Objects /\ client \subseteq Handles
  BY DEF Inv, TypeOK
<1>a. ASSUME NEW o \in Objects PROVE Get(o) \in Handles \cup {Null}
  BY DEF Inv, TypeOK, Get
<1>1. ASSUME NEW o \in Objects, Construct(o) PROVE Good
  <2>1. CASE \E h \in Handles \ live : NewCell(o, h, {h})
    <3>1. PICK h \in Handles \ live : NewCell(o, h, {h})
      BY <2>1
    <3> QED BY <1>1, <3>1, NewCellGood DEF Construct
  <2>2. CASE NewCell(o, Null, {})
    <3>1. client' = client \ {Null}
      BY <1>0, <1>1, NullAssumption DEF Construct
    <3> QED BY <1>0, <1>1, <2>2, <3>1, NewCellGood DEF Construct
  <2> QED BY <1>1, <2>1, <2>2 DEF Construct
<1>2. ASSUME NEW o \in Objects, Destroy(o) PROVE Good
  BY <1>0, <1>2, ShareGood DEF Destroy
<1>3. ASSUME NEW o \in Objects, Reset(o) PROVE Good
  <2>1. CASE \E h \in Handles \ live : NewCell(o, h, {h})
    <3>1. PICK h \in Handles \ live : NewCell(o, h, {h})
      BY <2>1
    <3> QED BY <1>3, <3>1, NewCellGood DEF Reset
  <2>2. CASE UNCHANGED <<cell, raw, live>>
    BY <1>3, <2>2, StutterGood DEF Reset, vars
  <2> QED BY <1>3, <2>1, <2>2 DEF Reset
<1>4. ASSUME NEW o \in Objects, NEW h \in Handles \cup {Null}, ConstructFrom(o, h)
      PROVE  Good
  BY <1>4, NewCellGood DEF ConstructFrom
<1>5. ASSUME NEW o \in Objects, NEW h \in Handles \cup {Null}, Take(o, h)
      PROVE  Good
  <2>1. alive' = alive \cup {o}
    BY <1>5 DEF Take
  <2> QED BY <1>5, <2>1, NewCellGood DEF Take
<1>6. ASSUME NEW o \in Objects, NEW p \in Objects, CopyConstruct(o, p)
      PROVE  Good
  <2>1. cell[p] \in Cells \cup {NoCell}
    BY DEF Inv, TypeOK
  <2> QED BY <1>6, <1>a, <2>1, ShareGood DEF CopyConstruct
<1>7. ASSUME NEW o \in Objects, NEW p \in Objects, CopyAssign(o, p)
      PROVE  Good
  <2>1. cell[p] \in Cells \cup {NoCell} /\ alive' = alive \cup {o}
    BY <1>7 DEF CopyAssign, Inv, TypeOK
  <2> QED BY <1>7, <1>a, <2>1, ShareGood DEF CopyAssign
<1>8. ASSUME NEW o \in Objects, NEW p \in Objects, MoveConstruct(o, p)
      PROVE  Good
  BY <1>8, TransferGood DEF MoveConstruct
<1>9. ASSUME NEW o \in Objects, NEW p \in Objects, MoveAssign(o, p)
      PROVE  Good
  <2>1. CASE o = p
    <3>1. UNCHANGED vars
      BY <1>9, <2>1 DEF MoveAssign, Rebind, Destroyed, vars
    <3> QED BY <3>1, StutterGood
  <2>2. CASE o # p
    <3>1. alive' = alive \cup {o}
      BY <1>9 DEF MoveAssign
    <3> QED BY <1>9, <2>2, <3>1, TransferGood DEF MoveAssign
  <2> QED BY <2>1, <2>2
<1>10. ASSUME NEW h \in Handles, CreateRaw(h) PROVE Good
  BY <1>10, CreateRawGood
<1>11. CASE UNCHANGED vars
  BY <1>11, StutterGood
<1> QED BY <1>1, <1>2, <1>3, <1>4, <1>5, <1>6, <1>7, <1>8, <1>9, <1>10, <1>11 DEF Next
-----------------------------------------------------------------------------
\* The inductive invariant: types, and the ownership of every raw stream.
THEOREM Invariance == Spec => []Inv
<1>1. Init => Inv
  BY InitInv
<1>2. Inv /\ [Next]_vars => Inv'
  BY NextGood DEF Good
<1> QED BY <1>1, <1>2, PTL DEF Spec

\* The state of the Stream objects keeps its types, for any numbers of them.
THEOREM TypeCorrectness == Spec => []TypeOK
BY Invariance, PTL DEF Inv

\* A handle obtained from a Stream object is never dangling.
THEOREM NoDanglingHandle == Spec => []HeldIsLive
BY Invariance, PTL DEF Inv

\* No CUDA stream is leaked by any sequence of Stream operations.
THEOREM StreamsNotLeaked == Spec => []NoLeak
BY Invariance, PTL DEF Inv

\* No stream is owned twice, so no deleter destroys one a second time.
THEOREM OwnedOnce == Spec => []SingleOwner
BY Invariance, PTL DEF Inv

\* StreamDeleter destroys a stream exactly when its last holder lets go.
THEOREM DestroyedByLast == Spec => DestroyedOnLastRelease
<1>1. Inv /\ [Next]_vars => [LastRelease]_vars
  BY NextGood DEF Good
<1> QED BY <1>1, Invariance, PTL DEF Spec, DestroyedOnLastRelease

\* Stream implements the owners of HandleOwners.
THEOREM ImplementsOwners == Spec => Refinement
<1>1. Init => Owners!Init
  BY DEF Init, Get, Owners!Init
<1>2. Inv /\ [Next]_vars => [Owners!Next]_(Owners!vars)
  BY NextGood DEF Good
<1> QED BY <1>1, <1>2, Invariance, PTL DEF Spec, Refinement, Owners!Spec
=============================================================================
