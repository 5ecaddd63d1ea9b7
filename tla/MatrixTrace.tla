---------------------------- MODULE MatrixTrace ----------------------------
(***************************************************************************)
(* The trace generator of the cache simulator (matrix.cc).  main checks    *)
(* its arguments and calls multiply or block_multiply; each iteration of   *)
(* the innermost loop is a step, which adds a product to C[i][j] and       *)
(* writes four accesses to the trace.  An element of C is the sequence of  *)
(* the k it was computed from.  The arrays of the program are too large    *)
(* for its stack long before n * n * 4 is too large for an unsigned.       *)
(***************************************************************************)
EXTENDS Integers, Sequences

CONSTANT Arguments   \* the command lines: [function, n, block_size], each number
                     \* as atoi returns it

ASSUME ArgumentsAssumption ==
  \A a \in Arguments : {a.n, a.block_size} \subseteq Int

VARIABLES
  at,          \* "main", "loop", "done" or "usage"
  function, n, block_size,
  index,       \* the variables of the loops
  C,
  last         \* the accesses the latest iteration wrote

vars == <<at, function, n, block_size, index, C, last>>

Functions == {"multiply", "block_multiply"}

Valid ==
  /\ function \in Functions
  /\ n > 0
  /\ function = "block_multiply" => block_size > 0 /\ block_size <= n

\* The elements of C that loops reach: blocks that do not divide n take them past
\* the matrices.  The array of the program is larger.
Reached  == IF function = "multiply" THEN n ELSE n + block_size - 1
Elements == (0 .. Reached - 1) \X (0 .. Reached - 1)

Main ==
  /\ at = "main"
  /\ at' = IF Valid THEN "loop" ELSE "usage"
  /\ UNCHANGED <<function, n, block_size, index, C, last>>

-----------------------------------------------------------------------------
(* The body of the innermost loop, which the two functions share *)

mat_size == n * n * 4
addr_A   == 0
addr_B   == mat_size
addr_C   == 2 * mat_size

Read(address)  == [op |-> "r", address |-> address]
Write(address) == [op |-> "w", address |-> address]

\* Mutant: b is read row by row.
AccessesTransposed(x) ==
  <<Read(addr_A + x.i * n * 4 + x.k * 4), Read(addr_B + x.j * n * 4 + x.k * 4),
    Read(addr_C + x.i * n * 4 + x.j * 4), Write(addr_C + x.i * n * 4 + x.j * 4)>>

Accesses(x) ==
  <<Read(addr_A + x.i * n * 4 + x.k * 4), Read(addr_B + x.j * 4 + x.k * n * 4),
    Read(addr_C + x.i * n * 4 + x.j * 4), Write(addr_C + x.i * n * 4 + x.j * 4)>>

Body ==
  /\ last' = Accesses(index)
  /\ C' = [C EXCEPT ![<<index.i, index.j>>] = Append(@, index.k)]
  /\ UNCHANGED <<function, n, block_size>>

\* The next iteration of the inner loops.
Inner(i, j, k) == [ii |-> index.ii, jj |-> index.jj, kk |-> index.kk,
                   i |-> i, j |-> j, k |-> k]

Continue(x) == at' = "loop" /\ index' = x
Leave       == at' = "done" /\ UNCHANGED index

-----------------------------------------------------------------------------
(* multiply: for i, for j, for k *)

Multiply ==
  /\ at = "loop" /\ function = "multiply"
  /\ Body
  /\ \/ /\ index.k + 1 < n
        /\ Continue(Inner(index.i, index.j, index.k + 1))
     \/ /\ index.k + 1 >= n /\ index.j + 1 < n
        /\ Continue(Inner(index.i, index.j + 1, 0))
     \/ /\ index.k + 1 >= n /\ index.j + 1 >= n /\ index.i + 1 < n
        /\ Continue(Inner(index.i + 1, 0, 0))
     \/ /\ index.k + 1 >= n /\ index.j + 1 >= n /\ index.i + 1 >= n
        /\ Leave

-----------------------------------------------------------------------------
(* block_multiply: for ii, for jj, for kk, and i, j, k within their block *)

\* Mutant: a block is one column too wide.
MoreColumns == index.j + 1 <= index.jj + block_size

MoreK == index.k + 1 < index.kk + block_size
MoreJ == index.j + 1 < index.jj + block_size
MoreI == index.i + 1 < index.ii + block_size

Block(ii, jj, kk) == [ii |-> ii, jj |-> jj, kk |-> kk, i |-> ii, j |-> jj, k |-> kk]

\* Mutants: the next block of rows begins in this one, or after the next.
NextRow == index.ii + 1
NextTwo == index.ii + 2 * block_size

\* The next block, when this one is done.
NextKK == index.kk + block_size
NextJJ == index.jj + block_size
NextII == index.ii + block_size

InBlock ==
  /\ at = "loop" /\ function = "block_multiply"
  /\ Body
  /\ \/ /\ MoreK
        /\ Continue(Inner(index.i, index.j, index.k + 1))
     \/ /\ ~ MoreK /\ MoreJ
        /\ Continue(Inner(index.i, index.j + 1, index.kk))
     \/ /\ ~ MoreK /\ ~ MoreJ /\ MoreI
        /\ Continue(Inner(index.i + 1, index.jj, index.kk))

NextBlock ==
  /\ at = "loop" /\ function = "block_multiply"
  /\ ~ MoreK /\ ~ MoreJ /\ ~ MoreI
  /\ Body
  /\ \/ /\ NextKK < n
        /\ Continue(Block(index.ii, index.jj, NextKK))
     \/ /\ NextKK >= n /\ NextJJ < n
        /\ Continue(Block(index.ii, NextJJ, 0))
     \/ /\ NextKK >= n /\ NextJJ >= n /\ NextII < n
        /\ Continue(Block(NextII, 0, 0))
     \/ /\ NextKK >= n /\ NextJJ >= n /\ NextII >= n
        /\ Leave

-----------------------------------------------------------------------------

Init ==
  /\ at = "main"
  /\ \E a \in Arguments :
       function = a.function /\ n = a.n /\ block_size = a.block_size
  /\ index = Block(0, 0, 0)
  /\ C = [e \in Elements |-> <<>>]
  /\ last = <<>>

Next == Main \/ Multiply \/ InBlock \/ NextBlock

Spec == Init /\ [][Next]_vars

\* The program runs to its end.
FairSpec == Spec /\ WF_vars(Next)

-----------------------------------------------------------------------------
(* Correctness *)

\* The variables keep to their types, and no index leaves what loops reach.
TypeOK ==
  /\ at \in {"main", "loop", "done", "usage"}
  /\ {n, block_size} \subseteq Int
  /\ DOMAIN index = {"ii", "jj", "kk", "i", "j", "k"}
  /\ \A v \in DOMAIN index : index[v] \in Nat
  /\ at = "loop" => <<index.i, index.j>> \in DOMAIN C
  /\ \A e \in DOMAIN C : C[e] \in Seq(Nat)

\* The blocks tile the matrices.
Even == function = "block_multiply" => \E q \in 0 .. n : n = q * block_size

\* Of a command line whose blocks tile the matrices, the accesses go to the
\* matrix they are meant for: a read of a and one of b, then a read and a write
\* of one element of c.
AccessesInMatrices ==
  last # <<>> /\ Even =>
    /\ last[1].address \in addr_A .. addr_B - 1
    /\ last[2].address \in addr_B .. addr_C - 1
    /\ last[3].address \in addr_C .. addr_C + mat_size - 1
    /\ last[4].address = last[3].address

Multiplies == Valid /\ Even
Side       == IF Multiplies THEN n ELSE 0

Product == INSTANCE MatrixProduct WITH
  n     <- Side,
  taken <- [e \in (0 .. Side - 1) \X (0 .. Side - 1) |-> Len(C[e])],
  last  <- IF Multiplies THEN last ELSE <<>>

\* The plain and the blocked loops write the same accesses, in another order:
\* each element of c takes its products once, in the order of k.
ImplementsProduct == Product!Spec

\* The trace does not end before each element of c has taken its n products.
TraceComplete == <>Product!Complete
=============================================================================
