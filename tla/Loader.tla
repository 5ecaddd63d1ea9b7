------------------------------- MODULE Loader -------------------------------
(***************************************************************************)
(* load_program, the assembler which the three simulators share, and the   *)
(* part of reset that clears the instruction memory.  A first pass reads a *)
(* line at a time, notes its label and stores its operands; a second one   *)
(* replaces the labels of branches by distances.  A step is an iteration   *)
(* of one of the passes.                                                   *)
(*                                                                         *)
(* A source is a sequence of lines [label, opcode, par]: the operands par  *)
(* are the numbers of registers, immediates and labels that strtok, atoi   *)
(* and strtoul take from the text.                                         *)
(***************************************************************************)
EXTENDS PipeLatch, Sequences

CONSTANT Sources

NoLabel == ""
Jumps   == Branches \cup {"JUMP"}

Target(line) == IF line.opcode = "JUMP" THEN line.par[1] ELSE line.par[2]

\* A line with the operands its opcode calls for.
Formed(line) ==
  /\ line.opcode \in Opcodes
  /\ line.opcode \notin Jumps \cup {"EOP", "NOP"} => line.par \in [1 .. 3 -> Word]
  /\ line.opcode \in Branches => line.par[1] \in Word
  /\ line.opcode \in Jumps => Target(line) # NoLabel

\* The memory holds the source, which ends in EOP.
ASSUME SourcesAssumption ==
  \A s \in Sources : /\ Len(s) \in 1 .. PROGRAM_SIZE
                     /\ s[Len(s)].opcode = "EOP"
                     /\ \A l \in 1 .. Len(s) : Formed(s[l])

VARIABLES
  at,             \* "empty", "read", "resolve" or "loaded"
  source,         \* the file that is loaded
  instr_memory,
  instruction_nr, \* the next instruction to store
  labels,         \* the instructions that labels are in front of
  i               \* the next instruction to resolve

vars == <<at, source, instr_memory, instruction_nr, labels, i>>

Cells == 0 .. PROGRAM_SIZE - 1

ClearedMemory == [k \in Cells |-> Blank("EOP")]

\* Mutant: reset leaves the operands.
ClearedOpcodes == [k \in Cells |-> [instr_memory[k] EXCEPT !.opcode = "EOP"]]

Cleared == ClearedMemory

\* The local variables of load_program are gone.
Reset ==
  /\ at = "loaded"
  /\ instr_memory' = Cleared
  /\ at' = "empty"
  /\ source' = <<>>
  /\ labels' = <<>>
  /\ instruction_nr' = 0
  /\ i' = 0

Load(s) ==
  /\ at = "empty"
  /\ source' = s
  /\ at' = "read"
  /\ UNCHANGED <<instr_memory, instruction_nr, labels, i>>

-----------------------------------------------------------------------------
(* The first pass *)

\* An instruction keeps the fields its opcode does not name.
Stored(old, op, p) ==
  LET Fields(d, s1, s2, imm) ==
        [opcode |-> op, dest |-> d, src1 |-> s1, src2 |-> s2, immediate |-> imm]
  IN CASE op \in RegisterOps \cup IntMulDiv \cup FpAlu ->
            Fields(p[1], p[2], p[3], old.immediate)
       [] op \in ImmediateOps  -> Fields(p[1], p[2], old.src2, p[3])
       [] op \in Loads         -> Fields(p[1], p[3], old.src2, p[2])
       [] op \in {"SW", "SWS"} -> Fields(old.dest, p[1], p[3], p[2])
       [] op \in Branches      -> Fields(old.dest, p[1], old.src2, old.immediate)
       [] OTHER                -> Fields(old.dest, old.src1, old.src2, old.immediate)

\* The latest line that bears a label gives its value.
ReadLine ==
  /\ at = "read"
  /\ instruction_nr < Len(source)
  /\ LET line == source[instruction_nr + 1]
     IN /\ labels' = IF line.label = NoLabel THEN labels
                     ELSE [l \in DOMAIN labels \cup {line.label} |->
                             IF l = line.label THEN instruction_nr ELSE labels[l]]
        /\ instr_memory' = [instr_memory EXCEPT ![instruction_nr] =
                              Stored(@, line.opcode, line.par)]
  /\ instruction_nr' = instruction_nr + 1
  /\ UNCHANGED <<at, source, i>>

ReadEnd ==
  /\ at = "read"
  /\ instruction_nr = Len(source)
  /\ at' = "resolve"
  /\ UNCHANGED <<source, instr_memory, instruction_nr, labels, i>>

-----------------------------------------------------------------------------
(* The second pass *)

\* Looking up a label that no line bears enters it with the value 0.
Position(l) == IF l \in DOMAIN labels THEN labels[l] ELSE 0

\* The label of jump k, which the first pass has put in the instruction.
Label(k) == Target(source[k + 1])

\* Mutants: a backward distance is not a word; the distance is counted from the
\* branch itself.
DistanceWide(k)       == 4 * (Position(Label(k)) - k - 1)
DistanceFromBranch(k) == Wrap(4 * (Position(Label(k)) - k))

Distance(k) == Wrap(4 * (Position(Label(k)) - k - 1))

EndFound == instr_memory[i].opcode = "EOP"

\* Mutant: the loop does not leave a jump.
NextUnlessJump == IF instr_memory[i].opcode \in Jumps THEN i ELSE i + 1

NextResolved == i + 1

Resolve ==
  /\ at = "resolve"
  /\ ~ EndFound
  /\ instr_memory' = IF instr_memory[i].opcode \in Jumps
                     THEN [instr_memory EXCEPT ![i].immediate = Distance(i)]
                     ELSE instr_memory
  /\ i' = NextResolved
  /\ UNCHANGED <<at, source, instruction_nr, labels>>

ResolveEnd ==
  /\ at = "resolve"
  /\ EndFound
  /\ at' = "loaded"
  /\ UNCHANGED <<source, instr_memory, instruction_nr, labels, i>>

-----------------------------------------------------------------------------

Init ==
  /\ at = "empty"
  /\ source = <<>>
  /\ instr_memory = ClearedMemory
  /\ instruction_nr = 0
  /\ labels = <<>>
  /\ i = 0

Pass == ReadLine \/ ReadEnd \/ Resolve \/ ResolveEnd

Next == Reset \/ (\E s \in Sources : Load(s)) \/ Pass

Spec == Init /\ [][Next]_vars

\* load_program waits for nothing.
FairSpec == Spec /\ WF_vars(Pass)
-----------------------------------------------------------------------------
(* Correctness *)

\* The instruction memory holds instructions at every step, and both passes stay
\* inside the source.
TypeOK ==
  /\ at \in {"empty", "read", "resolve", "loaded"}
  /\ \A k \in Cells : instr_memory[k] \in Instruction
  /\ instruction_nr \in 0 .. Len(source)
  /\ i \in 0 .. PROGRAM_SIZE - 1
  /\ \A l \in DOMAIN labels : labels[l] \in 0 .. Len(source) - 1

Line(k) == source[k + 1]

\* Where execution goes on after a taken branch to label l: at the last line that
\* bears it, or at the start of the program.
Destination(l) ==
  LET bearers == {k \in 0 .. Len(source) - 1 : Line(k).label = l}
  IN IF bearers = {} THEN 0
     ELSE CHOOSE k \in bearers : \A other \in bearers : other <= k

\* The second pass stops at the first EOP.
BeforeEnd(k) == \A e \in 0 .. k : Line(e).opcode # "EOP"

\* Once loaded, each jump before the first EOP, forward or backward, leads to its
\* label: the sum of the next address and its immediate, in the width of a
\* register, is the address of the line.
JumpsReachLabels ==
  at = "loaded" =>
    \A k \in 0 .. Len(source) - 1 :
      BeforeEnd(k) /\ Line(k).opcode \in Jumps =>
        Wrap(4 * (k + 1) + instr_memory[k].immediate) = Wrap(4 * Destination(Label(k)))

\* Line k as the first pass leaves it in a memory that nothing was loaded into.
Fresh(k) == Stored(Blank("EOP"), Line(k).opcode, Line(k).par)

\* Once loaded, whatever was loaded before the reset, the operands are those of the
\* source and no others: an operand left by an earlier program would make an
\* instruction wait for a register that it does not read.
OperandsOfSource ==
  at = "loaded" =>
    \A k \in Cells :
      instr_memory[k] =
        IF k >= Len(source) THEN Blank("EOP")
        ELSE IF Line(k).opcode \notin Jumps THEN Fresh(k)
        ELSE [Fresh(k) EXCEPT !.immediate = instr_memory[k].immediate]

\* A source that is opened is loaded.
LoadEnds == at = "read" ~> at = "loaded"
=============================================================================
