------------------------------ MODULE MCMatrix ------------------------------
(* Command lines of the trace generator *)
EXTENDS MatrixTrace

Line(f, size, block) == [function |-> f, n |-> size, block_size |-> block]

\* Every size of block, those that are refused and those that do not divide n
\* included.
MatrixArguments ==
  {Line("multiply", s, 0) : s \in -1 .. 4}
  \cup {Line("block_multiply", s, b) : s \in 0 .. 4, b \in -1 .. 5}
  \cup {Line("block_multiply", 6, b) : b \in {2, 3}}
  \cup {Line("transpose", 2, 2)}
=============================================================================
