----------------------------- MODULE MCTomasulo -----------------------------
(* Programs and machines for TLC. *)
EXTENDS TomasuloProps, SequencesExt

Word3(op, d, s1, s2, imm) ==
  [opcode |-> op, dest |-> d, src1 |-> s1, src2 |-> s2, immediate |-> imm]
R(op, d, s1, s2)  == Word3(op, d, s1, s2, UNDEFINED)
I(op, d, s1, imm) == Word3(op, d, s1, UNDEFINED, Wrap(imm))
L(op, d, imm, b)  == Word3(op, d, b, UNDEFINED, imm)
S(src, imm, b)    == Word3("SWS", UNDEFINED, src, b, imm)
\* A branch over the next n instructions.
B(op, src, n)     == Word3(op, UNDEFINED, src, UNDEFINED, Wrap(4 * n))

\* All programs of n instructions of an alphabet.
Sequences(alphabet, n) == [0 .. n - 1 -> alphabet]

Files(regs, values) == [regs -> values]

\* What the theorems of TomasuloInvariants ask holds of the machines below.
ASSUME TheoremsApply == MemoryUnitLast /\ CanIssue /\ SourcesNamed /\ WordsGiven

-----------------------------------------------------------------------------
\* One operation more than the buffer has entries.
AluAlphabet == {R("SUB", 2, 1, 2), I("ADDI", 1, 2, 1),
                R("ADDS", 1, 1, 2), R("MULTS", 2, 1, 1)}
AluPrograms == Sequences(AluAlphabet, 5)

Types(n, t) == [j \in 0 .. n - 1 |-> t[j + 1]]

Stations2 == Types(8, <<"INTEGER_RS", "INTEGER_RS", "LOAD_B", "LOAD_B",
                        "ADD_RS", "ADD_RS", "MULT_RS", "MULT_RS">>)
Units1 == Types(4, <<"INTEGER", "ADDER", "MULTIPLIER", "MEMORY">>)

OneIntFile == {[r \in {1, 2} |-> 3 * r]}
OneFpFile  == {[r \in {1, 2} |-> r + 1]}
OneMemory  == {[a \in {64, 68} |-> a + 10]}

-----------------------------------------------------------------------------
(* Loads and stores at two addresses that memory also holds as pointers. *)

MemAlphabet == {L("LWS", 1, 0, 1), L("LWS", 2, 0, 2), L("LW", 2, 0, 1),
                S(1, 0, 1), S(2, 0, 2), R("ADDS", 3, 1, 2), I("ADDI", 1, 2, 0)}

BaseWriters(p, n) ==
  {m \in 0 .. n - 1 : /\ ~ IsFp(p[m].opcode)
                      /\ p[m].opcode \notin Branches
                      /\ p[m].dest = p[n].src2}

\* No store follows two writers of its base register.
OneBaseWriter(p) ==
  \A n \in DOMAIN p : p[n].opcode = "SWS" => Cardinality(BaseWriters(p, n)) <= 1

MemPrograms == {p \in Sequences(MemAlphabet, 4) : OneBaseWriter(p)}

StraightPrograms == AluPrograms \cup MemPrograms
StraightLatencies == {Types(4, <<1, 2, 3, m>>) : m \in {2, 3}}
\* Every value a program can use as a base is an address.
PointerFiles == {(1 :> 64 @@ 2 :> 68 @@ 3 :> 0)}
Pointers   == {[a \in {64, 68} |-> 132 - a]}
AddressFiles == {(1 :> 64 @@ 2 :> 68), (1 :> 64 @@ 2 :> 64)}

-----------------------------------------------------------------------------
(* Branches: skips, and loops that run twice. *)

SkipAlphabet == {I("SUBI", 1, 1, 1), R("ADD", 2, 2, 1), R("ADDS", 1, 1, 2),
                 B("BEQZ", 1, 1), B("BGTZ", 2, 1), B("BLEZ", 1, 1)}

BodyAlphabet == {R("ADD", 2, 2, 1), I("ADDI", 3, 2, 4), R("MULTS", 1, 1, 2),
                 B("BLTZ", 2, 1), B("BGEZ", 1, 1), L("LWS", 2, 64, 3)}
\* A branch here would skip the count.
LoopTail == {in \in BodyAlphabet : in.opcode \notin Branches}

Loop(a, b) == (0 :> a @@ 1 :> b @@ 2 :> I("SUBI", 1, 1, 1) @@ 3 :> B("BNEZ", 1, -4)
                 @@ 4 :> R("XOR", 2, 1, 2) @@ 5 :> R("AND", 3, 1, 3))

BranchPrograms ==
  Sequences(SkipAlphabet, 4) \cup {Loop(a, b) : a \in BodyAlphabet, b \in LoopTail}

BranchLatencies == {Types(4, <<l, 2, 3, 2>>) : l \in {1, 3}}
LoopFiles == {(1 :> 2 @@ 2 :> UNDEFINED @@ 3 :> 0)}
LoopMemory == {[a \in {64 + 4 * n : n \in 0 .. 5} |-> a]}

-----------------------------------------------------------------------------
(* Programs and machines on which the simulator departs from its documents. *)

Program(instrs) == [n \in 0 .. Len(instrs) - 1 |-> instrs[n + 1]]

\* The branch is taken in the cycle in which the load behind it is told of the
\* store's value; the second load at the target gets that load's buffer.
WrongPathLoad == {Program(<<B("BEQZ", 1, 2), S(1, 0, 2), L("LWS", 2, 0, 2),
                            L("LWS", 1, 4, 2), L("LWS", 2, 4, 2)>>)}
BranchFiles   == {(1 :> 0 @@ 2 :> 64)}
FirstLatency  == {Types(4, <<1, 2, 3, 2>>)}

\* Two operations, and reset after some cycles of them.
TwoOperations == {Program(<<R("ADD", 1, 1, 2), R("SUB", 2, 1, 2)>>)}

-----------------------------------------------------------------------------
(* To try by hand with ImplementsProgramOrder, OneStore with Terminates *)

\* The base of the store has two writers in flight, and the number of the register
\* that is stored is that of an integer register in flight.
TwoBaseWriters == {Program(<<L("LW", 1, 0, 1), I("ADDI", 2, 2, 0), I("ADDI", 2, 2, 0),
                             S(1, 0, 2)>>)}
BaseFiles == {(1 :> 64 @@ 2 :> 64)}

\* The address of the store is the number of a register.
LowAddress == {Program(<<S(1, 0, 1), R("ADD", 3, 4, 4), R("ADD", 3, 4, 4)>>)}
LowFiles   == {(1 :> 4 @@ 3 :> 0 @@ 4 :> 3)}
LowMemory  == {[a \in {4} |-> 7]}

\* A store on a memory of latency 1: the unit that it takes is freed in the same
\* cycle, and it never commits.
OneStore        == {Program(<<I("ADDI", 2, 2, 0), S(1, 0, 1)>>)}
StoreLatencyOne == {Types(4, <<1, 2, 3, 1>>)}

\* An integer multiplication, which multiplies floating-point registers.
IntMultiply == {Program(<<R("MULT", 1, 1, 2), I("ADDI", 2, 2, 1)>>)}
=============================================================================
