------------------------------ MODULE MCStream ------------------------------
(* Stream on three objects; handles and cells are recycled.                *)
EXTENDS Stream, TLC

CONSTANTS o1, o2, o3, c1, c2, c3, c4, h1, h2, h3

MCObjects == {o1, o2, o3}
MCCells   == {c1, c2, c3, c4}
MCHandles == {h1, h2, h3}

Symmetry == Permutations(MCObjects) \cup Permutations(MCCells)
              \cup Permutations(MCHandles)
=============================================================================
