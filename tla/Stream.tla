------------------------------- MODULE Stream -------------------------------
(***************************************************************************)
(* The class Stream: a std::shared_ptr<cudaStream_t> whose deleter destroys *)
(* the CUDA stream.  A Stream object refers to a control block (here a      *)
(* cell) or to none; a cell holds one raw cudaStream_t, possibly null.      *)
(* Copies share the cell, moves empty their source, take() and the          *)
(* constructor from a raw handle put a NEW cell around it, and the last     *)
(* object to let go of a cell destroys the raw stream it holds.             *)
(***************************************************************************)
EXTENDS FiniteSets

CONSTANTS Objects,  \* variables and members of type Stream
          Cells,    \* control blocks: one more than the objects suffices
          Handles,  \* raw values cudaStreamCreate can return
          Null,     \* the null cudaStream_t
          NoCell    \* an empty shared_ptr

ASSUME NullAssumption == Null \notin Handles /\ NoCell \notin Cells

VARIABLES alive,    \* the constructed Stream objects
          cell,     \* m_Stream of every object: a cell or NoCell
          raw,      \* the cudaStream_t stored in every cell
          live,     \* the CUDA streams created and not destroyed
          client    \* the live ones the client created and owns itself

vars == <<alive, cell, raw, live, client>>

TypeOK == /\ alive \in SUBSET Objects
          /\ cell \in [Objects -> Cells \cup {NoCell}]
          /\ raw \in [Cells -> Handles \cup {Null}]
          /\ live \in SUBSET Handles
          /\ client \in SUBSET Handles
          /\ \A o \in Objects \ alive : cell[o] = NoCell

Init == /\ alive = {}
        /\ cell = [o \in Objects |-> NoCell]
        /\ raw = [c \in Cells |-> Null]
        /\ live = {}
        /\ client = {}
-----------------------------------------------------------------------------
\* The cells some object refers to: those whose use count is not zero.
Used(f) == {f[o] : o \in Objects} \cap Cells

\* get(), operator* and the conversion: null when there is no cell.
Get(o) == IF cell[o] = NoCell THEN Null ELSE raw[cell[o]]

\* Mutant of Destroyed: owners that do not count the references to a cell.
DestroyedUncounted(f) ==
  {raw[cell[o]] : o \in {x \in Objects : cell[x] \notin {f[x], NoCell}}} \ {Null}

\* What StreamDeleter destroys when m_Stream of the objects becomes f: the
\* non-null handle of every cell that loses its last reference.
Destroyed(f) == {raw[c] : c \in Used(cell) \ Used(f)} \ {Null}

\* Objects come to refer to the cells f; the deleters run.
Rebind(f) == /\ cell' = f
             /\ live' = live \ Destroyed(f)

\* Mutant of NewCell: the old stream is forgotten.
NewCellLeaks(o, h, created) ==
  \E c \in Cells \ Used(cell) : /\ cell' = [cell EXCEPT ![o] = c]
                                /\ raw' = [raw EXCEPT ![c] = h]
                                /\ live' = live \cup created

\* A new cell around h replaces what object o refers to.  created is {h} when
\* cudaStreamCreate has just returned h, {} when h existed before.
NewCell(o, h, created) ==
  \E c \in Cells \ Used(cell) :
    LET f == [cell EXCEPT ![o] = c]
    IN  /\ cell' = f
        /\ raw' = [raw EXCEPT ![c] = h]
        /\ live' = (live \ Destroyed(f)) \cup created
-----------------------------------------------------------------------------
\* Stream(): the error of cudaStreamCreate is ignored, a failure leaves a cell
\* that holds a null handle.
Construct(o) == /\ o \notin alive
                /\ alive' = alive \cup {o}
                /\ \/ \E h \in Handles \ live : NewCell(o, h, {h})
                   \/ NewCell(o, Null, {})
                /\ UNCHANGED client

\* Stream(cudaStream_t)
ConstructFrom(o, h) == /\ o \notin alive
                       /\ h \in client \cup {Null}
                       /\ alive' = alive \cup {o}
                       /\ NewCell(o, h, {})
                       /\ client' = client \ {h}

\* Mutant of CopyConstruct: the copy adopts the handle instead of sharing it.
CopyConstructAdopts(o, p) == /\ o \notin alive /\ p \in alive
                             /\ alive' = alive \cup {o}
                             /\ NewCell(o, Get(p), {})
                             /\ UNCHANGED client

\* Stream(const Stream&) = default
CopyConstruct(o, p) == /\ o \notin alive /\ p \in alive
                       /\ alive' = alive \cup {o}
                       /\ Rebind([cell EXCEPT ![o] = cell[p]])
                       /\ UNCHANGED <<raw, client>>

\* operator=(const Stream&) = default, self-assignment included
CopyAssign(o, p) == /\ o \in alive /\ p \in alive
                    /\ Rebind([cell EXCEPT ![o] = cell[p]])
                    /\ UNCHANGED <<alive, raw, client>>

\* Stream(Stream&&)
MoveConstruct(o, p) == /\ o \notin alive /\ p \in alive
                       /\ alive' = alive \cup {o}
                       /\ Rebind([cell EXCEPT ![o] = cell[p], ![p] = NoCell])
                       /\ UNCHANGED <<raw, client>>

\* operator=(Stream&&): nothing happens on self-assignment
MoveAssign(o, p) ==
  /\ o \in alive /\ p \in alive
  /\ Rebind(IF o = p THEN cell
                     ELSE [cell EXCEPT ![o] = cell[p], ![p] = NoCell])
  /\ UNCHANGED <<alive, raw, client>>

\* Mutant of Destroy: the reference outlives the object.
DestroyKeepsCell(o) == /\ o \in alive
                       /\ alive' = alive \ {o}
                       /\ UNCHANGED <<cell, raw, live, client>>

\* ~Stream()
Destroy(o) == /\ o \in alive
              /\ alive' = alive \ {o}
              /\ Rebind([cell EXCEPT ![o] = NoCell])
              /\ UNCHANGED <<raw, client>>

\* reset(): the object keeps its stream unless the creation succeeds.  The old
\* stream still exists when the new one is created.
Reset(o) == /\ o \in alive
            /\ \/ \E h \in Handles \ live : NewCell(o, h, {h})
               \/ UNCHANGED <<cell, raw, live>>
            /\ UNCHANGED <<alive, client>>

\* Mutant of Take: the client's handle goes into the cell the object shares with
\* its copies.
TakeInPlace(o, h) == /\ o \in alive /\ cell[o] # NoCell
                     /\ h \in client \cup {Null}
                     /\ raw' = [raw EXCEPT ![cell[o]] = h]
                     /\ live' = live \ ({raw[cell[o]]} \ {h})
                     /\ client' = client \ {h}
                     /\ UNCHANGED <<alive, cell>>

\* take(cudaStream_t): the client hands over a handle it owns, or null
Take(o, h) == /\ o \in alive
              /\ h \in client \cup {Null}
              /\ NewCell(o, h, {})
              /\ client' = client \ {h}
              /\ UNCHANGED alive

\* The client calls cudaStreamCreate itself.
CreateRaw(h) == /\ h \notin live
                /\ live' = live \cup {h}
                /\ client' = client \cup {h}
                /\ UNCHANGED <<alive, cell, raw>>

Next == \/ \E o \in Objects :
             \/ Construct(o)
             \/ Destroy(o)
             \/ Reset(o)
        \/ \E o \in Objects, h \in Handles \cup {Null} :
             \/ ConstructFrom(o, h)
             \/ Take(o, h)
        \/ \E o, p \in Objects :
             \/ CopyConstruct(o, p)
             \/ CopyAssign(o, p)
             \/ MoveConstruct(o, p)
             \/ MoveAssign(o, p)
        \/ \E h \in Handles : CreateRaw(h)

Spec == Init /\ [][Next]_vars
-----------------------------------------------------------------------------
(* Safety.                                                                 *)

\* Every handle a Stream returns from get() exists: no copy, move, reset or
\* take leaves another object with a stream that was already destroyed, which
\* the next launch or synchronize() on it would use.
HeldIsLive == \A o \in Objects : Get(o) = Null \/ Get(o) \in live

\* Every existing stream is owned: some object will destroy it, or the client
\* will.  A reset, take or assignment that drops a handle leaks it.
NoLeak == \A h \in live : h \in client \/ \E o \in alive : Get(o) = h

\* One owner group per handle: no two referenced cells hold the same stream,
\* and none holds one that the client believes to own.  Otherwise two deleters
\* would destroy one stream.
SingleOwner ==
  /\ \A c, d \in Used(cell) : raw[c] = raw[d] /\ raw[c] # Null => c = d
  /\ \A c \in Used(cell) : raw[c] \notin client
  /\ client \subseteq live

\* A stream is destroyed only by a step after which no object and no client
\* holds it, and only once: a handle that leaves live was held before.
LastRelease == \A h \in live \ live' :
                 /\ \E o \in alive : Get(o) = h
                 /\ \A o \in alive' : Get(o)' # h
                 /\ h \notin client

DestroyedOnLastRelease == [][LastRelease]_vars

\* The owners implement HandleOwners: cells and deleters are invisible.
Owners == INSTANCE HandleOwners WITH holds <- [o \in Objects |-> Get(o)]
Refinement == Owners!Spec
=============================================================================
