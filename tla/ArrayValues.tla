----------------------------- MODULE ArrayValues -----------------------------
(***************************************************************************)
(* What arrays promise to a host program, without streams, queues or a      *)
(* device: an array refers to a value or to none, an operation computes its *)
(* result at once, and a read returns what the operations before it, in     *)
(* program order, left there.  NdArray.tla implements this module as long   *)
(* as every operation it is used with waits for the device.                 *)
(***************************************************************************)
CONSTANTS Arrays,         \* the array variables of the program
          Buffers,        \* the places values live in
          Values,         \* the contents of an array, as one value
          Undef,          \* contents nobody has written
          None,           \* no place; nothing read
          Combine(_, _)   \* the value a computation makes of two

VARIABLES ref,   \* ref[a] is the place array a refers to, or None
          val,   \* val[b] is the value in place b
          out    \* the value the host is reading, or None

vars == <<ref, val, out>>

Init == /\ ref = [a \in Arrays |-> None]
        /\ val = [b \in Buffers |-> Undef]
        /\ out = None

Places == {ref[a] : a \in Arrays} \cap Buffers

\* The values v as far as the references r reach them.
Reached(r, v) == [b \in Buffers |-> IF \E a \in Arrays : r[a] = b THEN v[b]
                                                                 ELSE Undef]

\* The host is not reading: array references become r, values become v.
Step(r, v) == /\ out = None
              /\ ref' = r
              /\ val' = Reached(r, v)
              /\ UNCHANGED out

\* Array a gets a place of its own with value v in it.
New(a, v) == \E b \in Buffers \ Places :
               Step([ref EXCEPT ![a] = b], [val EXCEPT ![b] = v])

\* A place is written: by a computation in place or from the host.
Update(b, v) == Step(ref, [val EXCEPT ![b] = v])

\* What a computation on two places leaves: nothing defined from the undefined.
Result(x, y) == IF Undef \in {val[x], val[y]} THEN Undef
                                             ELSE Combine(val[x], val[y])

\* References change and no value does: moves, shares, destructors.
Redirect(a, r) == \/ Step([ref EXCEPT ![r] = None, ![a] = ref[r]], val)
                  \/ Step([ref EXCEPT ![a] = ref[r]], val)
                  \/ Step([ref EXCEPT ![a] = None], val)

\* The host reads the value in a place, and goes on with it.
Read(b) == /\ out = None /\ out' = val[b]
           /\ UNCHANGED <<ref, val>>

Consume == /\ out # None /\ out' = None
           /\ UNCHANGED <<ref, val>>

Next == \/ \E a \in Arrays, v \in Values \cup {Undef} : New(a, v)
        \/ \E a \in Arrays, x, y \in Places : New(a, Result(x, y))
        \/ \E a \in Arrays, x \in Places : New(a, val[x])
        \/ \E b \in Places, v \in Values : Update(b, v)
        \/ \E b, x, y \in Places : Update(b, Result(x, y))
        \/ \E a, r \in Arrays : Redirect(a, r)
        \/ \E b \in Places : Read(b)
        \/ Consume

Spec == Init /\ [][Next]_vars
=============================================================================
