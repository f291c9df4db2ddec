----------------------------- MODULE MCNdArray -----------------------------
(* NdArray on small sets; the sum modulo the number of values computes.    *)
EXTENDS NdArray, TLC

CONSTANTS a1, a2, a3, b1, b2, b3, s1, s2, s3, v1

MCArrays2  == {a1, a2}
MCArrays3  == {a1, a2, a3}
MCBuffers3 == {b1, b2, b3}
MCStreams3 == {s1, s2, s3}
MCViews    == {v1}
NoViews    == {}
MCValues1  == {0}
MCValues2  == {0, 1}

MCCombine(x, y) == (x + y) % 2

Synchronous  == Operations \ {"plus", "divassign"}
Asynchronous == {"plus", "divassign", "release", "copy", "fault"}

Symmetry == Permutations(Arrays) \cup Permutations(Buffers)
              \cup Permutations(Streams)
=============================================================================
