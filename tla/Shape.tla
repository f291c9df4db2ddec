------------------------------- MODULE Shape -------------------------------
(***************************************************************************)
(* The shapes of arrays and views: sizes, strides and offsets as the code   *)
(* computes them, in unsigned arithmetic of fixed width, and the nested     *)
(* sequences arrays are made from.  Dimensions and indices are sequences;   *)
(* the code's dimension 0 is the first element.                             *)
(***************************************************************************)
EXTENDS Naturals, Sequences, SequencesExt

CONSTANTS Bits32,  \* width of unsigned int and uint32_t
          Bits64   \* width of size_t

\* What is said of powers follows from the rest, but the prover does not know it.
ASSUME ShapeAssumption == /\ Bits32 \in Nat \ {0} /\ 2^Bits32 \in Nat /\ 2^Bits32 > 1
                          /\ 2^(Bits32 - 1) \in Nat /\ 2^(Bits32 - 1) < 2^Bits32
                          /\ Bits64 \in Nat /\ Bits64 > Bits32
                          /\ 2^Bits64 \in Nat /\ 2^Bits64 > 2^Bits32

Word32(x) == x % 2^Bits32
Word64(x) == x % 2^Bits64

\* m_Size after each dimension, and m_Size.
Sizes(dims) ==
  LET size[i \in 0 .. Len(dims)] ==
        IF i = 0 THEN 1 ELSE Word64(size[i - 1] * dims[i])
  IN  size

Size(dims) == Sizes(dims)[Len(dims)]

\* The number of elements that the first dimensions, and that all, ask for.
Products(dims) ==
  LET product[i \in 0 .. Len(dims)] ==
        IF i = 0 THEN 1 ELSE product[i - 1] * dims[i]
  IN  product

Elements(dims) == Products(dims)[Len(dims)]

\* The size does not wrap.
NoWrap(dims) == Size(dims) = Elements(dims)

\* m_Strides
Strides(dims) ==
  LET stride[i \in 1 .. Len(dims)] ==
        IF i = Len(dims) THEN 1 ELSE Word64(stride[i + 1] * dims[i + 1])
  IN  stride

\* The offset of an element in read().
Offset(strides, idx) ==
  LET offset[i \in 0 .. Len(idx)] ==
        IF i = 0 THEN 0 ELSE Word64(offset[i - 1] + strides[i] * idx[i])
  IN  offset[Len(idx)]
-----------------------------------------------------------------------------
(* Views: bound is FALSE once the view is the default-constructed one.      *)

EmptyView(rank) == [bound |-> FALSE, offset |-> 0,
                    dims |-> [i \in 1 .. rank |-> 0],
                    strides |-> [i \in 1 .. rank |-> 0]]

\* The view at index idx, offset on, of an array or view with these dimensions.
SubView(offset, dims, strides, idx) ==
  [bound |-> TRUE, offset |-> Word64(offset + idx * strides[1]),
   dims |-> Tail(dims), strides |-> Tail(strides)]

\* NdArray::operator[] does not look at the dimension.
ArrayAt(dims, idx) == SubView(0, dims, Strides(dims), idx)

\* Mutant of ViewAt: idx > m_Dimensions[0].
ViewAtOneMore(v, idx) ==
  IF idx > v.dims[1] THEN EmptyView(Len(v.dims) - 1)
  ELSE [SubView(v.offset, v.dims, v.strides, idx) EXCEPT !.bound = v.bound]

\* NdView::operator[]; m_Data.lock() of an empty view is null.
ViewAt(v, idx) ==
  IF idx >= v.dims[1] THEN EmptyView(Len(v.dims) - 1)
  ELSE [SubView(v.offset, v.dims, v.strides, idx) EXCEPT !.bound = v.bound]
-----------------------------------------------------------------------------
(* Nested sequences, rank levels deep.                                      *)

\* Mutant of DeducedDims: from the last sequence of a level.
DeducedDimsOfLast(nested, rank) ==
  LET last[l \in 1 .. rank] == IF l = 1 THEN nested ELSE Last(last[l - 1])
  IN  [l \in 1 .. rank |-> Len(last[l])]

\* The dimensions of the sequence and of its first elements.
DeducedDims(nested, rank) ==
  LET first[l \in 1 .. rank] == IF l = 1 THEN nested ELSE Head(first[l - 1])
  IN  [l \in 1 .. rank |-> Len(first[l])]

\* Mutant of Leaves: the last sequence first.
LeavesBackwards(nested, rank) ==
  LET level[l \in 1 .. rank] ==
        IF l = 1 THEN nested ELSE FlattenSeq(Reverse(level[l - 1]))
  IN  level[rank]

\* The elements in the order in which decomposeRanges stores them.
Leaves(nested, rank) ==
  LET level[l \in 1 .. rank] == IF l = 1 THEN nested ELSE FlattenSeq(level[l - 1])
  IN  level[rank]

\* The sequences of each level.
IsSeq(s) == s \in Seq(Range(s))
IsNested(nested, rank) ==
  /\ IsSeq(nested)
  /\ \A l \in 1 .. rank - 1 :
       \A i \in DOMAIN Leaves(nested, l) : IsSeq(Leaves(nested, l)[i])

\* What print() nests: flat contents, dimension by dimension from the last; "[]" if
\* there are none.
Nested(flat, dims) ==
  LET rank == Len(dims)
      rows(s, d) == [i \in 1 .. Len(s) \div d |-> SubSeq(s, (i - 1) * d + 1, i * d)]
      level[l \in 1 .. rank] ==
        IF l = rank THEN flat ELSE rows(level[l + 1], dims[l + 1])
  IN  IF flat = <<>> THEN <<>> ELSE level[1]
=============================================================================
