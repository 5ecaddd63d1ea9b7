--------------------------- MODULE MatrixProduct ---------------------------
(***************************************************************************)
(* What a trace of c = a * b contains: every element of c takes its n      *)
(* products, in the order of k, and no element waits for another.  The     *)
(* three matrices follow each other in memory, row by row, four bytes an   *)
(* element.  A command line that is refused multiplies nothing: n is 0.    *)
(***************************************************************************)
EXTENDS Naturals

VARIABLES
  n,      \* the matrices are n * n
  taken,  \* taken[i, j]: how many products c[i, j] has taken
  last    \* the accesses of the latest product

vars == <<n, taken, last>>

Element(matrix, row, column) == matrix * (4 * n * n) + 4 * (row * n + column)

Read(address)  == [op |-> "r", address |-> address]
Write(address) == [op |-> "w", address |-> address]

Accesses(i, j, k) == <<Read(Element(0, i, k)), Read(Element(1, k, j)),
                       Read(Element(2, i, j)), Write(Element(2, i, j))>>

Init ==
  /\ n \in Nat
  /\ taken = [e \in (0 .. n - 1) \X (0 .. n - 1) |-> 0]
  /\ last = <<>>

Product(i, j) ==
  /\ taken[i, j] < n
  /\ taken' = [taken EXCEPT ![<<i, j>>] = @ + 1]
  /\ last' = Accesses(i, j, taken[i, j])
  /\ UNCHANGED n

Next == \E i, j \in 0 .. n - 1 : Product(i, j)

Spec == Init /\ [][Next]_vars

Complete == \A e \in DOMAIN taken : taken[e] = n
=============================================================================
