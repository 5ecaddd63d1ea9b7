---------------------------- MODULE MatrixProofs ----------------------------
(***************************************************************************)
(* The two multiplications, for every size of matrices and of blocks.      *)
(* multiply is a block_multiply with one block, so that one invariant      *)
(* serves both: Tiling says where the indices are, Counted how many        *)
(* products each element has taken.                                        *)
(***************************************************************************)
EXTENDS MatrixTrace, TLAPS

\* The size of the blocks.
Tile == IF function = "multiply" THEN n ELSE block_size

IndexType == [ii : Nat, jj : Nat, kk : Nat, i : Nat, j : Nat, k : Nat]

Typed ==
  /\ at \in {"main", "loop", "done", "usage"}
  /\ n \in Int /\ block_size \in Int
  /\ index \in IndexType
  /\ C \in [Elements -> Seq(Nat)]

\* An iteration: the indices are in their block, which begins in the matrices.
InTile(start, x) == start < n /\ start <= x /\ x < start + Tile

Multiple(x) == \E q \in Nat : x = q * Tile

Tiling(r) ==
  /\ InTile(r.ii, r.i) /\ InTile(r.jj, r.j) /\ InTile(r.kk, r.k)
  /\ Multiple(r.ii) /\ Multiple(r.jj) /\ Multiple(r.kk)
  /\ function = "multiply" => r.ii = 0 /\ r.jj = 0 /\ r.kk = 0

InLoop == at = "loop" => Valid /\ Tiling(index)

\* The indices of the first iteration.
InMain == at = "main" => index = Block(0, 0, 0) /\ last = <<>>

\* How many products an element takes before an iteration, of m rows and columns in
\* tiles of t.
Products(m, t, ii, jj, kk, i, j, k, x, y) ==
  IF x < ii THEN m
  ELSE IF x >= ii + t THEN 0
  ELSE IF y < jj THEN m
  ELSE IF y >= jj + t THEN 0
  ELSE IF x < i \/ (x = i /\ y < j) THEN kk + t
  ELSE IF x = i /\ y = j THEN k
  ELSE kk

ProductsAt(r, x, y) == Products(n, Tile, r.ii, r.jj, r.kk, r.i, r.j, r.k, x, y)

Before(x, y) == ProductsAt(index, x, y)

Counted ==
  Multiplies =>
    \A x, y \in 0 .. n - 1 :
      Len(C[x, y]) = IF at = "loop" THEN Before(x, y)
                     ELSE IF at = "done" THEN n ELSE 0

IInv == Typed /\ InLoop /\ InMain /\ Counted

-----------------------------------------------------------------------------
(* Arithmetic *)

\* Tiles that begin inside an even number of tiles end there.
LEMMA TileEnds ==
  ASSUME NEW m \in Nat, NEW size \in Nat, NEW q \in Nat, NEW p \in Nat,
         m = q * size, p * size < m
  PROVE  p * size + size <= m
<1>1. p < q
  <2>1. SUFFICES ASSUME q <= p PROVE FALSE
    OBVIOUS
  <2>2. PICK d \in Nat : p = q + d
    BY <2>1
  <2>3. p * size = q * size + d * size /\ d * size \in Nat
    BY <2>2
  <2> QED
    BY <2>3
<1>2. PICK d \in Nat : q = p + 1 + d
  BY <1>1
<1>3. q * size = p * size + size + d * size /\ d * size \in Nat
  BY <1>2
<1> QED
  BY <1>3

\* An element of a matrix stored row by row is inside the matrix.
LEMMA InRows ==
  ASSUME NEW m \in Nat, NEW x \in Nat, NEW y \in Nat, x < m, y < m
  PROVE  x * m + y < m * m
<1>1. PICK d \in Nat : m = x + 1 + d
  OBVIOUS
<1>2. m * m = x * m + m + d * m /\ d * m \in Nat
  BY <1>1
<1> QED
  BY <1>2

-----------------------------------------------------------------------------
(* An iteration, whichever function it is of *)

StepK == /\ index.k + 1 < index.kk + Tile
         /\ Continue(Inner(index.i, index.j, index.k + 1))
EndK  == index.k + 1 >= index.kk + Tile
StepJ == /\ EndK /\ index.j + 1 < index.jj + Tile
         /\ Continue(Inner(index.i, index.j + 1, index.kk))
EndJ  == EndK /\ index.j + 1 >= index.jj + Tile
StepI == /\ EndJ /\ index.i + 1 < index.ii + Tile
         /\ Continue(Inner(index.i + 1, index.jj, index.kk))
EndI  == EndJ /\ index.i + 1 >= index.ii + Tile

TileKK == /\ EndI /\ index.kk + Tile < n
          /\ Continue(Block(index.ii, index.jj, index.kk + Tile))
EndKK  == EndI /\ index.kk + Tile >= n
TileJJ == /\ EndKK /\ index.jj + Tile < n
          /\ Continue(Block(index.ii, index.jj + Tile, 0))
EndJJ  == EndKK /\ index.jj + Tile >= n
TileII == /\ EndJJ /\ index.ii + Tile < n
          /\ Continue(Block(index.ii + Tile, 0, 0))
EndII  == EndJJ /\ index.ii + Tile >= n /\ Leave

Iteration == /\ at = "loop" /\ Body
             /\ StepK \/ StepJ \/ StepI \/ TileKK \/ TileJJ \/ TileII \/ EndII

\* The loops of multiply are those of one tile.
LEMMA MultiplyIterates == IInv /\ Multiply => Iteration
<1> SUFFICES ASSUME IInv, Multiply PROVE Iteration
  OBVIOUS
<1>1. /\ function = "multiply" /\ Tile = n /\ at = "loop"
      /\ index.ii = 0 /\ index.jj = 0 /\ index.kk = 0
      /\ index.i \in Nat /\ index.j \in Nat /\ index.k \in Nat /\ n \in Int
  BY DEF IInv, Typed, InLoop, Tiling, Multiply, Tile, IndexType
<1>2. CASE index.k + 1 < n
  BY <1>1, <1>2 DEF Multiply, Iteration, StepK
<1>3. CASE index.k + 1 >= n /\ index.j + 1 < n
  BY <1>1, <1>3 DEF Multiply, Iteration, StepJ, EndK
<1>4. CASE index.k + 1 >= n /\ index.j + 1 >= n /\ index.i + 1 < n
  BY <1>1, <1>4 DEF Multiply, Iteration, StepI, EndK, EndJ
<1>5. CASE index.k + 1 >= n /\ index.j + 1 >= n /\ index.i + 1 >= n
  BY <1>1, <1>5 DEF Multiply, Iteration, EndII, EndK, EndJ, EndI, EndKK, EndJJ
<1> QED
  BY <1>1, <1>2, <1>3, <1>4, <1>5

\* An iteration of block_multiply, in a block or to the next one.
LEMMA BlockIterates == IInv /\ (InBlock \/ NextBlock) => Iteration
<1> SUFFICES ASSUME IInv, InBlock \/ NextBlock PROVE Iteration
  OBVIOUS
<1>1. /\ Tile = block_size /\ at = "loop" /\ n \in Int /\ block_size \in Int
      /\ index \in IndexType
  BY DEF IInv, Typed, InBlock, NextBlock, Tile
<1>2. CASE InBlock
  BY <1>1, <1>2 DEF InBlock, MoreK, MoreJ, MoreI, Iteration, StepK, StepJ, StepI, EndK,
     EndJ, IndexType
<1>3. CASE NextBlock
  BY <1>1, <1>3 DEF NextBlock, MoreK, MoreJ, MoreI, NextKK, NextJJ, NextII, Iteration,
     TileKK, TileJJ, TileII, EndII, EndK, EndJ, EndI, EndKK, EndJJ, IndexType
<1> QED
  BY <1>2, <1>3

-----------------------------------------------------------------------------
(* The invariant *)

\* The program starts with no product taken.
LEMMA InitInv == Init => IInv
<1> SUFFICES ASSUME Init PROVE IInv
  OBVIOUS
<1>1. n \in Int /\ block_size \in Int
  BY ArgumentsAssumption DEF Init
<1>2. index = Block(0, 0, 0) /\ Block(0, 0, 0) \in IndexType
  BY DEF Init, Block, IndexType
<1>3. Typed
  BY <1>1, <1>2 DEF Init, Typed
<1>4. InLoop /\ InMain
  BY <1>2 DEF Init, InLoop, InMain
<1>5. Counted
  <2> SUFFICES ASSUME Multiplies, NEW x \in 0 .. n - 1, NEW y \in 0 .. n - 1
               PROVE  Len(C[x, y]) = 0
    BY DEF Init, Counted
  <2>1. <<x, y>> \in Elements
    BY <1>1 DEF Multiplies, Valid, Functions, Elements, Reached
  <2> QED
    BY <2>1 DEF Init
<1> QED
  BY <1>3, <1>4, <1>5 DEF IInv

\* main enters the loops with the indices of the first iteration.
LEMMA MainInv == IInv /\ Main => IInv'
<1> SUFFICES ASSUME IInv, Main PROVE IInv'
  OBVIOUS
<1>1. UNCHANGED <<function, n, block_size, index, C, last>> /\ at = "main"
      /\ at' \in {"loop", "usage"} /\ (at' = "loop" => Valid)
  BY DEF Main
<1>2. n \in Int /\ block_size \in Int /\ index = Block(0, 0, 0)
  BY <1>1 DEF IInv, Typed, InMain
<1>3. Typed'
  BY <1>1 DEF IInv, Typed, Elements, Reached
<1>4. InLoop'
  <2> SUFFICES ASSUME at' = "loop" PROVE InLoop'
    BY DEF InLoop
  <2>1. Valid /\ Valid' /\ n > 0 /\ Tile > 0 /\ Tile \in Int /\ Tile' = Tile
    BY <1>1, <1>2 DEF Valid, Tile, Functions
  <2>2. 0 = 0 * Tile
    BY <2>1
  <2> QED
    BY <1>1, <1>2, <2>1, <2>2 DEF InLoop, Tiling, InTile, Multiple, Block
<1>5. InMain'
  BY <1>1 DEF InMain
<1>6. Counted'
  <2> SUFFICES ASSUME Multiplies, NEW x \in 0 .. n - 1, NEW y \in 0 .. n - 1
               PROVE  Len(C[x, y]) = IF at' = "loop" THEN Before(x, y)' ELSE 0
    BY <1>1 DEF Counted, Multiplies, Valid, Even
  <2>1. Len(C[x, y]) = 0
    BY <1>1 DEF IInv, Counted
  <2>2. Tile' = Tile /\ Tile \in Int /\ Tile > 0
    BY <1>1, <1>2 DEF Tile, Multiplies, Valid, Functions
  <2>3. Before(x, y)' = 0
    BY <1>1, <1>2, <2>2 DEF Before, ProductsAt, Products, Block
  <2> QED
    BY <2>1, <2>3
<1> QED
  BY <1>3, <1>4, <1>5, <1>6 DEF IInv

-----------------------------------------------------------------------------
(* What holds when an iteration begins *)

\* Between two iterations the indices are numbers, in their tiles.
LEMMA LoopFacts ==
  ASSUME IInv, at = "loop"
  PROVE  /\ Valid /\ n \in Nat /\ n > 0
         /\ Tile \in Nat /\ Tile > 0
         /\ index \in IndexType
         /\ InTile(index.ii, index.i) /\ InTile(index.jj, index.j)
         /\ InTile(index.kk, index.k)
         /\ <<index.i, index.j>> \in Elements
<1>1. Valid /\ n \in Nat /\ n > 0 /\ block_size \in Int /\ index \in IndexType
  BY DEF IInv, Typed, InLoop, Valid
<1>2. Tile \in Nat /\ Tile > 0
  BY <1>1 DEF Tile, Valid, Functions
<1>3. InTile(index.ii, index.i) /\ InTile(index.jj, index.j) /\ InTile(index.kk, index.k)
  BY DEF IInv, InLoop, Tiling
<1>4. index.i \in 0 .. Reached - 1 /\ index.j \in 0 .. Reached - 1
  <2>1. CASE function = "multiply"
    <3>1. index.ii = 0 /\ index.jj = 0
      BY <2>1 DEF IInv, InLoop, Tiling
    <3> QED
      BY <1>1, <1>3, <2>1, <3>1 DEF Tile, Reached, InTile, IndexType
  <2>2. CASE function = "block_multiply"
    BY <1>1, <1>3, <2>2 DEF Tile, Reached, InTile, IndexType
  <2> QED
    BY <1>1, <2>1, <2>2 DEF Valid, Functions
<1>5. <<index.i, index.j>> \in Elements
  BY <1>4 DEF Elements
<1> QED
  BY <1>1, <1>2, <1>3, <1>5

\* Tiles that divide n: those of the iteration end inside the matrices.
LEMMA TilesEnd ==
  ASSUME IInv, at = "loop", Even
  PROVE  /\ index.ii + Tile <= n /\ index.jj + Tile <= n /\ index.kk + Tile <= n
<1>1. /\ n \in Nat /\ Tile \in Nat /\ Valid
      /\ index.ii < n /\ index.jj < n /\ index.kk < n
  BY LoopFacts DEF InTile
<1>2. PICK q \in Nat : n = q * Tile
  <2>1. CASE function = "multiply"
    <3>1. n = 1 * Tile
      BY <1>1, <2>1 DEF Tile
    <3> QED
      BY <3>1
  <2>2. CASE function = "block_multiply"
    BY <1>1, <2>2 DEF Even, Tile
  <2> QED
    BY <1>1, <2>1, <2>2 DEF Valid, Functions
<1>3. \A x \in Nat : Multiple(x) /\ x < n => x + Tile <= n
  BY <1>1, <1>2, TileEnds DEF Multiple
<1>4. index.ii \in Nat /\ index.jj \in Nat /\ index.kk \in Nat
  BY LoopFacts DEF IndexType
<1>5. Multiple(index.ii) /\ Multiple(index.jj) /\ Multiple(index.kk)
  BY DEF IInv, InLoop, Tiling
<1> QED
  BY <1>1, <1>3, <1>4, <1>5

\* One product more for C[i][j], and for no other element.
LEMMA BodyCounts ==
  ASSUME IInv, at = "loop", Body
  PROVE  /\ C' \in [Elements -> Seq(Nat)]
         /\ \A e \in Elements :
              Len(C'[e]) = IF e = <<index.i, index.j>> THEN Len(C[e]) + 1 ELSE Len(C[e])
<1>1. C \in [Elements -> Seq(Nat)] /\ index.k \in Nat
  BY LoopFacts DEF IInv, Typed, IndexType
<1>2. C' = [C EXCEPT ![<<index.i, index.j>>] = Append(C[<<index.i, index.j>>], index.k)]
  BY DEF Body
<1>3. \A e \in Elements : C[e] \in Seq(Nat)
  BY <1>1
<1>4. \A e \in Elements : /\ Append(C[e], index.k) \in Seq(Nat)
                          /\ Len(Append(C[e], index.k)) = Len(C[e]) + 1
  BY <1>1, <1>3
<1>5. C' \in [Elements -> Seq(Nat)]
  BY <1>1, <1>2, <1>4
<1> QED
  BY <1>1, <1>2, <1>4, <1>5

-----------------------------------------------------------------------------
(* An iteration preserves the invariant *)

\* The loops change neither the arguments nor what is defined from them.
LEMMA IterationKeeps ==
  ASSUME Iteration
  PROVE  UNCHANGED <<function, n, block_size, Tile, Elements, Valid, Even, Multiplies>>
<1>1. UNCHANGED <<function, n, block_size>>
  BY DEF Iteration, Body
<1> QED
  BY <1>1 DEF Tile, Elements, Reached, Valid, Even, Multiplies

\* An iteration leaves numbers in the indices and in the elements.
LEMMA IterationTyped ==
  ASSUME IInv, Iteration
  PROVE  Typed'
<1>1. at = "loop" /\ Body
  BY DEF Iteration
<1>2. n \in Nat /\ Tile \in Nat /\ index \in IndexType /\ block_size \in Int
  BY <1>1, LoopFacts DEF IInv, Typed
<1>3. C' \in [Elements -> Seq(Nat)]
  BY <1>1, BodyCounts
<1>4. at' \in {"loop", "done"} /\ index' \in IndexType
  <2>1. CASE StepK
    BY <1>2, <2>1 DEF StepK, Continue, Inner, IndexType
  <2>2. CASE StepJ
    BY <1>2, <2>2 DEF StepJ, Continue, Inner, IndexType
  <2>3. CASE StepI
    BY <1>2, <2>3 DEF StepI, Continue, Inner, IndexType
  <2>4. CASE TileKK \/ TileJJ \/ TileII
    BY <1>2, <2>4 DEF TileKK, TileJJ, TileII, Continue, Block, IndexType
  <2>5. CASE EndII
    BY <1>2, <2>5 DEF EndII, Leave
  <2> QED
    BY <2>1, <2>2, <2>3, <2>4, <2>5 DEF Iteration
<1> QED
  BY <1>2, <1>3, <1>4, IterationKeeps DEF Typed

\* The next tile begins a tile after this one.
LEMMA NextMultiple ==
  ASSUME Tile \in Nat, NEW x \in Nat, Multiple(x)
  PROVE  Multiple(0) /\ Multiple(x + Tile)
<1>1. PICK q \in Nat : x = q * Tile
  BY DEF Multiple
<1>2. 0 = 0 * Tile /\ x + Tile = (q + 1) * Tile
  BY <1>1
<1> QED
  BY <1>2 DEF Multiple

\* The indices of the next iteration are in their tiles again.
LEMMA IterationInLoop ==
  ASSUME IInv, Iteration
  PROVE  InLoop'
<1> SUFFICES ASSUME at' = "loop" PROVE InLoop'
  BY DEF InLoop
<1>1. at = "loop"
  BY DEF Iteration
<1>2. /\ n \in Nat /\ n > 0 /\ Tile \in Nat /\ Tile > 0 /\ index \in IndexType
      /\ InTile(index.ii, index.i) /\ InTile(index.jj, index.j)
      /\ InTile(index.kk, index.k) /\ Valid
  BY <1>1, LoopFacts
<1>3. /\ Multiple(index.ii) /\ Multiple(index.jj) /\ Multiple(index.kk)
      /\ function = "multiply" =>
           index.ii = 0 /\ index.jj = 0 /\ index.kk = 0 /\ Tile = n
  BY <1>1 DEF IInv, InLoop, Tiling, Tile
<1>4. UNCHANGED <<function, n, Tile>> /\ Valid'
  BY <1>2, IterationKeeps
<1>5. /\ Multiple(0) /\ Multiple(index.ii + Tile) /\ Multiple(index.jj + Tile)
      /\ Multiple(index.kk + Tile)
  BY <1>2, <1>3, NextMultiple DEF IndexType
<1>6. Tiling(index')
  <2>1. CASE StepK
    BY <1>2, <1>3, <2>1 DEF StepK, Continue, Inner, Tiling, InTile, IndexType
  <2>2. CASE StepJ
    BY <1>2, <1>3, <2>2 DEF StepJ, Continue, Inner, Tiling, InTile, IndexType
  <2>3. CASE StepI
    BY <1>2, <1>3, <2>3 DEF StepI, Continue, Inner, Tiling, InTile, IndexType
  <2>4. CASE TileKK
    BY <1>2, <1>3, <1>5, <2>4 DEF TileKK, EndI, Continue, Block, Tiling, InTile, IndexType
  <2>5. CASE TileJJ
    BY <1>2, <1>3, <1>5, <2>5 DEF TileJJ, EndKK, Continue, Block, Tiling, InTile, IndexType
  <2>6. CASE TileII
    BY <1>2, <1>3, <1>5, <2>6 DEF TileII, EndJJ, Continue, Block, Tiling, InTile, IndexType
  <2>7. CASE EndII
    BY <2>7 DEF EndII, Leave
  <2> QED
    BY <2>1, <2>2, <2>3, <2>4, <2>5, <2>6, <2>7 DEF Iteration
<1>7. Tiling(index)'
  BY <1>4, <1>6 DEF Tiling, InTile, Multiple
<1> QED
  BY <1>4, <1>7 DEF InLoop

\* What each outcome of an iteration says of the products "after" that an element has
\* then taken.
Outcomes(m, t, ii, jj, kk, i, j, k, x, y, after) ==
  /\ k + 1 < kk + t => after = Products(m, t, ii, jj, kk, i, j, k + 1, x, y)
  /\ k + 1 >= kk + t =>
       /\ j + 1 < jj + t => after = Products(m, t, ii, jj, kk, i, j + 1, kk, x, y)
       /\ j + 1 >= jj + t =>
            /\ i + 1 < ii + t => after = Products(m, t, ii, jj, kk, i + 1, jj, kk, x, y)
            /\ i + 1 >= ii + t =>
                 /\ after = Products(m, t, ii, jj, kk + t, ii, jj, kk + t, x, y)
                 /\ kk + t >= m =>
                      /\ after = Products(m, t, ii, jj + t, 0, ii, jj + t, 0, x, y)
                      /\ jj + t >= m =>
                           /\ after = Products(m, t, ii + t, 0, 0, ii + t, 0, 0, x, y)
                           /\ ii + t >= m => after = m

\* The order of the loops is right: after each outcome of an iteration the element
\* at its indices has one product more and every other as many as before.
LEMMA ProductsStep ==
  ASSUME NEW m \in Nat, NEW t \in Nat, t > 0,
         NEW ii \in Nat, NEW jj \in Nat, NEW kk \in Nat,
         NEW i0 \in Nat, NEW j0 \in Nat, NEW k0 \in Nat,
         ii <= i0, i0 < ii + t, ii + t <= m,
         jj <= j0, j0 < jj + t, jj + t <= m,
         kk <= k0, k0 < kk + t, kk + t <= m,
         NEW x \in 0 .. m - 1, NEW y \in 0 .. m - 1,
         NEW after \in Int,
         after = IF x = i0 /\ y = j0 THEN Products(m, t, ii, jj, kk, i0, j0, k0, x, y) + 1
                 ELSE Products(m, t, ii, jj, kk, i0, j0, k0, x, y)
  PROVE  Outcomes(m, t, ii, jj, kk, i0, j0, k0, x, y, after)
<1> USE DEF Products, Outcomes
<1>1. CASE x < ii
  BY <1>1
<1>2. CASE x >= ii + t
  BY <1>2
<1>3. CASE ii <= x /\ x < ii + t /\ y < jj
  BY <1>3
<1>4. CASE ii <= x /\ x < ii + t /\ y >= jj + t
  BY <1>4
<1>5. CASE ii <= x /\ x < ii + t /\ jj <= y /\ y < jj + t
  BY <1>5
<1> QED
  BY <1>1, <1>2, <1>3, <1>4, <1>5

\* So the elements have taken as many products as the indices say.
LEMMA IterationCounted ==
  ASSUME IInv, Iteration
  PROVE  Counted'
<1> SUFFICES ASSUME Multiplies, NEW x \in 0 .. n - 1, NEW y \in 0 .. n - 1
             PROVE  Len(C'[x, y]) = IF at' = "loop" THEN ProductsAt(index', x, y)
                                    ELSE IF at' = "done" THEN n ELSE 0
  BY IterationKeeps DEF Counted, Before, ProductsAt, Products
<1>1. at = "loop" /\ Body /\ Even
  BY DEF Iteration, Multiplies
<1>2. /\ n \in Nat /\ n > 0 /\ Tile \in Nat /\ Tile > 0 /\ index \in IndexType
      /\ InTile(index.ii, index.i) /\ InTile(index.jj, index.j)
      /\ InTile(index.kk, index.k)
  BY <1>1, LoopFacts
<1>3. index.ii + Tile <= n /\ index.jj + Tile <= n /\ index.kk + Tile <= n
  BY <1>1, TilesEnd
<1>4. <<x, y>> \in Elements
  <2>1. Reached >= n /\ Reached \in Int
    BY DEF IInv, Typed, Multiplies, Valid, Functions, Reached
  <2> QED
    BY <1>2, <2>1 DEF Elements
<1>5. Len(C'[x, y]) = IF x = index.i /\ y = index.j THEN Len(C[x, y]) + 1 ELSE Len(C[x, y])
  BY <1>1, <1>4, BodyCounts
<1>6. Len(C[x, y]) = ProductsAt(index, x, y)
  BY <1>1 DEF IInv, Counted, Before
<1> DEFINE ii == index.ii jj == index.jj kk == index.kk
           i0 == index.i j0 == index.j k0 == index.k
           after == Len(C'[x, y])
<1>7. /\ after = IF x = i0 /\ y = j0 THEN Products(n, Tile, ii, jj, kk, i0, j0, k0, x, y) + 1
                 ELSE Products(n, Tile, ii, jj, kk, i0, j0, k0, x, y)
      /\ after \in Int
  <2>1. C'[x, y] \in Seq(Nat)
    BY <1>1, <1>4, BodyCounts
  <2>2. \A s \in Seq(Nat) : Len(s) \in Int
    OBVIOUS
  <2>3. after \in Int
    BY <2>1, <2>2
  <2> QED
    BY <1>5, <1>6, <2>3 DEF ProductsAt
<1>8. /\ ii \in Nat /\ jj \in Nat /\ kk \in Nat /\ i0 \in Nat /\ j0 \in Nat /\ k0 \in Nat
      /\ ii <= i0 /\ i0 < ii + Tile /\ ii + Tile <= n
      /\ jj <= j0 /\ j0 < jj + Tile /\ jj + Tile <= n
      /\ kk <= k0 /\ k0 < kk + Tile /\ kk + Tile <= n
  BY <1>2, <1>3 DEF IndexType, InTile
<1>9. Outcomes(n, Tile, ii, jj, kk, i0, j0, k0, x, y, after)
  <2> HIDE DEF ii, jj, kk, i0, j0, k0, after
  <2> QED
    BY <1>2, <1>7, <1>8, ProductsStep
<1> USE DEF Outcomes, ProductsAt
<1>10. CASE StepK
  BY <1>9, <1>10 DEF StepK, Continue, Inner
<1>11. CASE StepJ
  BY <1>9, <1>11 DEF StepJ, EndK, Continue, Inner
<1>12. CASE StepI
  BY <1>9, <1>12 DEF StepI, EndJ, EndK, Continue, Inner
<1>13. CASE TileKK
  BY <1>9, <1>13 DEF TileKK, EndI, EndJ, EndK, Continue, Block
<1>14. CASE TileJJ
  BY <1>9, <1>14 DEF TileJJ, EndKK, EndI, EndJ, EndK, Continue, Block
<1>15. CASE TileII
  BY <1>9, <1>15 DEF TileII, EndJJ, EndKK, EndI, EndJ, EndK, Continue, Block
<1>16. CASE EndII
  BY <1>9, <1>16 DEF EndII, EndJJ, EndKK, EndI, EndJ, EndK, Leave
<1> QED
  BY <1>10, <1>11, <1>12, <1>13, <1>14, <1>15, <1>16 DEF Iteration

\* Every step keeps the invariant.
LEMMA NextInv == IInv /\ [Next]_vars => IInv'
<1> SUFFICES ASSUME IInv, [Next]_vars PROVE IInv'
  OBVIOUS
<1>1. CASE Main
  BY <1>1, MainInv
<1>2. CASE Multiply \/ InBlock \/ NextBlock
  <2>1. Iteration
    BY <1>2, MultiplyIterates, BlockIterates
  <2>2. InMain'
    BY <2>1 DEF Iteration, StepK, StepJ, StepI, TileKK, TileJJ, TileII, EndII, Continue,
       Leave, InMain
  <2> QED
    BY <2>1, <2>2, IterationTyped, IterationInLoop, IterationCounted DEF IInv
<1>3. CASE UNCHANGED vars
  BY <1>3 DEF vars, IInv, Typed, Elements, Reached, InLoop, Valid, Tiling, InTile,
     Multiple, Tile, InMain, Counted, Multiplies, Even, Before,
     ProductsAt
<1> QED
  BY <1>1, <1>2, <1>3 DEF Next

\* At every step of either function, the number of products that each element of C
\* has taken is determined by the indices of the loops.
THEOREM Invariant == Spec => []IInv
<1>1. Init => IInv
  BY InitInv
<1>2. IInv /\ [Next]_vars => IInv'
  BY NextInv
<1> QED
  BY <1>1, <1>2, PTL DEF Spec

-----------------------------------------------------------------------------
(* The properties *)

\* No iteration indexes an element that loops do not reach.
THEOREM TypeCorrect == Spec => []TypeOK
<1>1. IInv => TypeOK
  <2> SUFFICES ASSUME IInv PROVE TypeOK
    OBVIOUS
  <2>1. at = "loop" => <<index.i, index.j>> \in DOMAIN C
    <3>1. DOMAIN C = Elements
      BY DEF IInv, Typed
    <3> QED
      BY <3>1, LoopFacts
  <2>2. \A v \in DOMAIN index : index[v] \in Nat
    BY DEF IInv, Typed, IndexType
  <2>3. DOMAIN index = {"ii", "jj", "kk", "i", "j", "k"}
    BY DEF IInv, Typed, IndexType
  <2> QED
    BY <2>1, <2>2, <2>3 DEF IInv, Typed, TypeOK
<1> QED
  BY <1>1, Invariant, PTL

\* The addresses of an iteration of tiles that divide n.
LEMMA IterationAccesses ==
  ASSUME IInv, Iteration
  PROVE  AccessesInMatrices'
<1> SUFFICES ASSUME Even PROVE AccessesInMatrices'
  BY IterationKeeps DEF AccessesInMatrices
<1>1. at = "loop" /\ last' = Accesses(index)
  BY DEF Iteration, Body
<1>2. /\ n \in Nat /\ index.i \in Nat /\ index.j \in Nat /\ index.k \in Nat
      /\ index.i < n /\ index.j < n /\ index.k < n
  BY <1>1, LoopFacts, TilesEnd DEF InTile, IndexType
<1>3. /\ index.i * n + index.k \in Nat /\ index.i * n + index.k < n * n
      /\ index.k * n + index.j \in Nat /\ index.k * n + index.j < n * n
      /\ index.i * n + index.j \in Nat /\ index.i * n + index.j < n * n
      /\ n * n \in Nat
  <2>1. \A u, v \in Nat : u < n /\ v < n => u * n + v < n * n
    BY <1>2, InRows
  <2>2. \A u \in Nat : u * n \in Nat
    BY <1>2
  <2> QED
    BY <1>2, <2>1, <2>2
<1> DEFINE x == index.i * n y == index.k * n m == n * n
<1>4. x \in Nat /\ y \in Nat /\ m \in Nat
  BY <1>2
<1>5. /\ index.i * n * 4 = 4 * x /\ index.k * n * 4 = 4 * y
      /\ mat_size = 4 * m
  BY <1>2 DEF mat_size
<1>6. UNCHANGED <<addr_A, addr_B, addr_C, mat_size>>
  BY IterationKeeps DEF addr_A, addr_B, addr_C, mat_size
<1>7. /\ last'[1].address = addr_A + index.i * n * 4 + index.k * 4
      /\ last'[2].address = addr_B + index.j * 4 + index.k * n * 4
      /\ last'[3].address = addr_C + index.i * n * 4 + index.j * 4
      /\ last'[4].address = addr_C + index.i * n * 4 + index.j * 4
  BY <1>1 DEF Accesses, Read, Write
<1>8. /\ last'[1].address = 4 * x + index.k * 4
      /\ last'[2].address = 4 * m + index.j * 4 + 4 * y
      /\ last'[3].address = 2 * (4 * m) + 4 * x + index.j * 4
      /\ last'[4].address = last'[3].address
  BY <1>2, <1>4, <1>5, <1>7 DEF addr_A, addr_B, addr_C
<1>9. x + index.k < m /\ y + index.j < m /\ x + index.j < m
  BY <1>3
<1> HIDE DEF x, y, m
<1>10. /\ last'[1].address \in addr_A .. addr_B - 1
       /\ last'[2].address \in addr_B .. addr_C - 1
       /\ last'[3].address \in addr_C .. addr_C + mat_size - 1
  BY <1>2, <1>4, <1>5, <1>8, <1>9 DEF addr_A, addr_B, addr_C
<1> QED
  BY <1>6, <1>8, <1>10 DEF AccessesInMatrices

\* With blocks that tile the matrices, no access of a trace is outside the matrix
\* it is meant for.
THEOREM AccessesCorrect == Spec => []AccessesInMatrices
<1>1. Init => AccessesInMatrices
  BY DEF Init, AccessesInMatrices
<1>2. IInv /\ AccessesInMatrices /\ [Next]_vars => AccessesInMatrices'
  <2> SUFFICES ASSUME IInv, AccessesInMatrices, [Next]_vars PROVE AccessesInMatrices'
    OBVIOUS
  <2>1. CASE Multiply \/ InBlock \/ NextBlock
    BY <2>1, MultiplyIterates, BlockIterates, IterationAccesses
  <2>2. CASE Main
    BY <2>2 DEF Main, AccessesInMatrices, Even, addr_A, addr_B, addr_C, mat_size
  <2>3. CASE UNCHANGED vars
    BY <2>3 DEF vars, AccessesInMatrices, Even, addr_A, addr_B, addr_C, mat_size
  <2> QED
    BY <2>1, <2>2, <2>3 DEF Next
<1> QED
  BY <1>1, <1>2, Invariant, PTL DEF Spec

-----------------------------------------------------------------------------
(* Both functions implement the product *)

taken == [e \in (0 .. Side - 1) \X (0 .. Side - 1) |-> Len(C[e])]
trace == IF Multiplies THEN last ELSE <<>>

\* What is refused, and what tiles do not divide, multiplies nothing.
LEMMA NothingTaken ==
  ASSUME ~ Multiplies, ~ Multiplies'
  PROVE  UNCHANGED <<Side, taken, trace>>
<1>1. Side = 0 /\ Side' = 0 /\ trace = <<>> /\ trace' = <<>>
  BY DEF Side, trace
<1>2. 0 .. Side - 1 = {} /\ 0 .. Side' - 1 = {}
  BY <1>1
<1>3. taken' = taken
  BY <1>2 DEF taken
<1> QED
  BY <1>1, <1>3

\* The initial states are those of the product.
LEMMA InitProduct == Init => Product!Init
<1> SUFFICES ASSUME Init PROVE Product!Init
  OBVIOUS
<1>1. Side \in Nat /\ trace = <<>>
  BY InitInv DEF IInv, Typed, Side, Multiplies, Valid, trace, Init
<1>2. taken = [e \in (0 .. Side - 1) \X (0 .. Side - 1) |-> 0]
  <2>1. CASE Multiplies
    <3>1. IInv /\ at = "main" /\ Side = n
      BY <2>1, InitInv DEF Init, Side
    <3>2. \A x, y \in 0 .. n - 1 : Len(C[x, y]) = 0
      BY <2>1, <3>1 DEF IInv, Counted
    <3>3. \A e \in (0 .. n - 1) \X (0 .. n - 1) : Len(C[e]) = 0
      <4> SUFFICES ASSUME NEW x \in 0 .. n - 1, NEW y \in 0 .. n - 1
                   PROVE  Len(C[<<x, y>>]) = 0
        OBVIOUS
      <4>1. Len(C[x, y]) = 0
        BY <3>2
      <4> QED
        BY <4>1
    <3> QED
      BY <3>1, <3>3 DEF taken
  <2>2. CASE ~ Multiplies
    <3>1. 0 .. Side - 1 = {}
      BY <2>2 DEF Side
    <3> QED
      BY <3>1 DEF taken
  <2> QED
    BY <2>1, <2>2
<1> QED
  BY <1>1, <1>2 DEF Product!Init, taken, trace

\* An iteration is a step of the product: one element takes its next product.
LEMMA IterationProduct ==
  ASSUME IInv, Iteration, Multiplies
  PROVE  Product!Next
<1>1. at = "loop" /\ Body /\ Even /\ Side = n /\ Side' = n /\ Multiplies'
  BY IterationKeeps DEF Iteration, Multiplies, Side
<1>2. /\ n \in Nat /\ index.i \in Nat /\ index.j \in Nat /\ index.k \in Nat
      /\ index.i < n /\ index.j < n /\ index.k < n
  BY <1>1, LoopFacts, TilesEnd DEF InTile, IndexType
<1> DEFINE here == <<index.i, index.j>> S == (0 .. n - 1) \X (0 .. n - 1)
<1>3. index.i \in 0 .. Side - 1 /\ index.j \in 0 .. Side - 1 /\ here \in S
  BY <1>1, <1>2
<1>4. taken[here] = index.k
  <2>1. taken[here] = Len(C[here])
    BY <1>1, <1>3 DEF taken
  <2>2. Len(C[index.i, index.j]) = Before(index.i, index.j)
    <3>1. Multiplies /\ at = "loop" /\ index.i \in 0 .. n - 1 /\ index.j \in 0 .. n - 1
      BY <1>1, <1>2
    <3>2. \A x, y \in 0 .. n - 1 : Len(C[x, y]) = Before(x, y)
      BY <3>1 DEF IInv, Counted
    <3> HIDE DEF Before
    <3> QED
      BY <3>1, <3>2
  <2>3. Before(index.i, index.j) = index.k
    BY <1>1, <1>2, LoopFacts DEF Before, ProductsAt, Products, InTile, IndexType
  <2> QED
    BY <2>1, <2>2, <2>3
<1>5. taken' = [taken EXCEPT ![here] = taken[here] + 1]
  <2>1. S \subseteq Elements
    <3>1. Reached >= n /\ Reached \in Int
      BY DEF IInv, Typed, Multiplies, Valid, Functions, Reached
    <3> QED
      BY <1>2, <3>1 DEF Elements
  <2>2. \A e \in S : Len(C'[e]) = IF e = here THEN Len(C[e]) + 1 ELSE Len(C[e])
    BY <1>1, <2>1, BodyCounts
  <2>3. taken = [e \in S |-> Len(C[e])] /\ taken' = [e \in S |-> Len(C'[e])]
    BY <1>1 DEF taken
  <2> QED
    BY <1>3, <2>2, <2>3
<1>6. trace' = Product!Accesses(index.i, index.j, index.k)
  <2>1. trace' = Accesses(index)
    BY <1>1 DEF Body, trace
  <2>2. /\ addr_A + index.i * n * 4 + index.k * 4 = Product!Element(0, index.i, index.k)
        /\ addr_B + index.j * 4 + index.k * n * 4 = Product!Element(1, index.k, index.j)
        /\ addr_C + index.i * n * 4 + index.j * 4 = Product!Element(2, index.i, index.j)
    BY <1>1, <1>2 DEF addr_A, addr_B, addr_C, mat_size, Product!Element
  <2> QED
    BY <2>1, <2>2 DEF Accesses, Read, Write, Product!Accesses, Product!Read, Product!Write
<1> QED
  BY <1>1, <1>2, <1>3, <1>4, <1>5, <1>6 DEF Product!Next, Product!Product, taken, trace

\* Every step is a step of the product or changes nothing in it.
LEMMA NextProduct == IInv /\ [Next]_vars => [Product!Next]_(Product!vars)
<1> SUFFICES ASSUME IInv, [Next]_vars PROVE [Product!Next]_(Product!vars)
  OBVIOUS
<1>1. CASE ~ Multiplies
  <2>1. ~ Multiplies'
    BY <1>1 DEF Next, vars, Main, Multiply, InBlock, NextBlock, Body, Multiplies, Valid,
       Even
  <2> QED
    BY <1>1, <2>1, NothingTaken DEF Product!vars, taken, trace
<1>2. CASE Multiplies /\ (Multiply \/ InBlock \/ NextBlock)
  BY <1>2, MultiplyIterates, BlockIterates, IterationProduct
<1>3. CASE Multiplies /\ (Main \/ UNCHANGED vars)
  <2>1. UNCHANGED <<function, n, block_size, C, last>>
    BY <1>3 DEF Main, vars
  <2>2. UNCHANGED <<Side, taken, trace>>
    BY <2>1 DEF Side, Multiplies, Valid, Even, taken, trace
  <2> QED
    BY <2>2 DEF Product!vars, taken, trace
<1> QED
  BY <1>1, <1>2, <1>3 DEF Next

\* For every size of matrices and of blocks that divide it, multiply and
\* block_multiply write the accesses of the products of c, each once and in the
\* order of k for its element.
THEOREM ProductImplemented == Spec => ImplementsProduct
<1>1. Init => Product!Init
  BY InitProduct
<1>2. IInv /\ [Next]_vars => [Product!Next]_(Product!vars)
  BY NextProduct
<1> QED
  BY <1>1, <1>2, Invariant, PTL DEF Spec, ImplementsProduct, Product!Spec
=============================================================================
