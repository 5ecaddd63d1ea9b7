-------------------------------- MODULE Isa --------------------------------
(***************************************************************************)
(* The instruction set shared by the simulators: words, opcode classes and *)
(* the alu function of sim_ooo.cc.  A register or memory word is a number  *)
(* below WordSize; a float is represented by the whole number it holds, so *)
(* that the bit casts between float and unsigned copy the word.            *)
(***************************************************************************)
EXTENDS Integers

CONSTANT WordBits   \* 32

WordSize  == 2 ^ WordBits

\* The provers know no power of a constant; TLC evaluates this one.
ASSUME WordBitsAssumption == WordBits \in Nat \ {0} /\ WordSize \in Nat \ {0, 1}

Word      == 0 .. WordSize - 1
UNDEFINED == WordSize - 1

Wrap(n)  == n % WordSize
AsInt(n) == IF n >= WordSize \div 2 THEN n - WordSize ELSE n

RegisterOps  == {"ADD", "SUB", "XOR", "AND"}
ImmediateOps == {"ADDI", "SUBI"}
Branches     == {"BEQZ", "BNEZ", "BLTZ", "BGTZ", "BLEZ", "BGEZ"}
Loads        == {"LW", "LWS"}
IntMulDiv    == {"MULT", "DIV"}
FpAlu        == {"ADDS", "SUBS", "MULTS", "DIVS"}
IsFp(op)     == op \in FpAlu \cup {"LWS", "SWS"}

Opcodes == RegisterOps \cup ImmediateOps \cup Branches \cup Loads
             \cup IntMulDiv \cup FpAlu \cup {"SW", "SWS", "JUMP", "EOP", "NOP"}

Instruction ==
  [opcode : Opcodes, src1 : Word, src2 : Word, dest : Word, immediate : Word]

BitOf(n, k) == (n \div 2 ^ k) % 2

\* The word whose bit k is keep of the bits k of a and b.
Bitwise(keep, a, b) ==
  LET upTo[k \in 0 .. WordBits] ==
        IF k = 0 THEN 0
        ELSE upTo[k - 1] + 2 ^ (k - 1) * keep[BitOf(a, k - 1), BitOf(b, k - 1)]
  IN upTo[WordBits]

XorBit == [x \in 0 .. 1, y \in 0 .. 1 |-> (x + y) % 2]
AndBit == [x \in 0 .. 1, y \in 0 .. 1 |-> x * y]

\* What the theorems ask of Bitwise, which is beyond a proof: TLC evaluates it.
BitwiseGivesWords ==
  \A a, b \in Word : Bitwise(XorBit, a, b) \in Word /\ Bitwise(AndBit, a, b) \in Word

Taken(op, v) ==
  \/ op = "BEQZ" /\ v = 0
  \/ op = "BNEZ" /\ v # 0
  \/ op = "BGEZ" /\ AsInt(v) >= 0
  \/ op = "BLEZ" /\ AsInt(v) <= 0
  \/ op = "BGTZ" /\ AsInt(v) > 0
  \/ op = "BLTZ" /\ AsInt(v) < 0

Quotient(a, b) == IF b = 0 THEN UNDEFINED ELSE a \div b

\* A branch yields the address of the instruction to run next.
Alu(op, v1, v2, imm, pc) ==
  CASE op \in {"ADD", "ADDS"}   -> Wrap(v1 + v2)
    [] op \in {"SUB", "SUBS"}   -> Wrap(v1 - v2)
    [] op \in {"MULT", "MULTS"} -> Wrap(v1 * v2)
    [] op \in {"DIV", "DIVS"}   -> Quotient(v1, v2)
    [] op = "ADDI"              -> Wrap(v1 + imm)
    [] op = "SUBI"              -> Wrap(v1 - imm)
    [] op = "XOR"               -> Bitwise(XorBit, v1, v2)
    [] op = "AND"               -> Bitwise(AndBit, v1, v2)
    [] OTHER -> Wrap(pc + 4 + (IF Taken(op, v1) THEN imm ELSE 0))
=============================================================================
