----------------------------- MODULE MCCompute -----------------------------
(* Compute on two small devices: unsigned int has 4 bits, size_t 8.      *)
EXTENDS Compute

CONSTANTS e1, e2, e3, e4, e5, e6  \* elements of nested sequences

\* Device 1 has larger blocks than device 0, but none of two dimensions.
MCLimits == (0 :> [threads |-> 9, block |-> <<9, 2, 1>>, grid |-> <<7, 5, 5>>])
              @@ (1 :> [threads |-> 16, block |-> <<16, 1, 1>>, grid |-> <<7, 5, 5>>])

On(op, a, b) == [op |-> op, a |-> a, b |-> b]
Nest(nested, rank) == [op |-> "sequence", nested |-> nested, rank |-> rank]

\* No element, one block, elements beyond int, beyond unsigned int, beyond the grid,
\* more blocks than unsigned int can count, and a size that wraps.
MCFactories ==
  {On("fill", d, <<>>) : d \in {<<0, 3>>, <<2, 3>>, <<20>>, <<8, 9>>, <<16, 17>>}}
    \cup {On("arange", <<n>>, <<>>) : n \in {0, 5}}
    \cup {On("eye", <<3, 3>>, <<>>), On("random", <<20>>, <<>>),
           On("fill", <<150>>, <<>>), On("random", <<150>>, <<>>),
           On("fillBytes", <<2, 3>>, <<>>), On("fill", <<2, 3, 2>>, <<>>)}

\* Shapes that fit and shapes that do not, operands whose size wraps, and more
\* columns than int can count or the grid can take.
MCOperators ==
  {On("elementwise", <<d>>, <<d>>) : d \in {0, 7, 10, 20}}
    \cup {On("elementwise", <<2, 3>>, <<3, 2>>),
           On("batched", <<2, 3>>, <<3, 2>>), On("batched", <<2, 3>>, <<2, 3>>),
           On("batched", <<3, 2, 1>>, <<3, 1, 2>>),
           On("batched", <<2, 2, 2, 1>>, <<2, 2, 1, 1>>),
           On("batched", <<2, 3, 1, 2>>, <<3, 2, 2, 1>>),
           On("batched", <<1, 300>>, <<300, 1>>),
           On("matrix_multiply", <<4, 3>>, <<3, 4>>),
           On("matrix_multiply", <<3, 6>>, <<6, 3>>),
           On("matrix_multiply", <<1, 86>>, <<86, 3>>),
           On("matrix_multiply", <<1, 7>>, <<7, 2>>),
           On("matrix_multiply", <<1, 16>>, <<16, 1>>),
           On("transpose", <<3, 4>>, <<>>), On("transpose", <<1, 9>>, <<>>),
           On("transpose", <<2, 22>>, <<>>), On("volume", <<2, 3, 2>>, <<>>)}

\* Regular and irregular input, too little and too much of it, none, and a size that
\* wraps.
MCHostData ==
  {Nest(<<e1, e2>>, 1), Nest(<<<<e1, e2, e3>>, <<e4, e5, e6>>>>, 2),
   Nest(<<<<e1, e2>>, <<e3>>, <<e4, e5, e6>>>>, 2), Nest(<<<<e1, e2>>, <<e3>>>>, 2),
   Nest(<<<<e1>>, <<e2, e3>>>>, 2), Nest(<<<<>>, <<>>>>, 2),
   Nest([i \in 1 .. 16 |-> IF i = 1 THEN [j \in 1 .. 16 |-> e1] ELSE <<>>], 2),
   Nest(<<<<<<e1>>, <<e2>>>>, <<<<e3>>, <<e4>>>>, <<<<e5>>, <<e6>>>>>>, 3),
   [op |-> "fromHost", a |-> <<2, 2>>, b |-> <<>>, data |-> <<1, 2, 3>>],
   [op |-> "fromHost", a |-> <<2, 1>>, b |-> <<>>, data |-> <<1, 2, 3>>]}

MCCalls == MCFactories \cup MCOperators \cup MCHostData
=============================================================================
