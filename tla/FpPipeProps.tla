---------------------------- MODULE FpPipeProps ----------------------------
(***************************************************************************)
(* Correctness of the pipeline with execution units of FpPipe.             *)
(***************************************************************************)
EXTENDS FpPipe, Sequences

Boundary == phase \in {"idle", "writeback"}

Holds(i) == /\ i.opcode \in Opcodes
            /\ {i.src1, i.src2, i.dest, i.immediate} \subseteq Word

LatchType == \A s \in Stages :
  /\ Holds(IR(s))
  /\ {latch[s].NPC, latch[s].A, latch[s].B, latch[s].IMM, latch[s].COND,
      latch[s].ALU_OUTPUT, latch[s].LMD} \subseteq Word

UnitType == \A u \in DOMAIN exec_units :
  /\ exec_units[u].type \in {"INTEGER", "ADDER", "MULTIPLIER", "DIVIDER"}
  /\ exec_units[u].busy \in 0 .. exec_units[u].delayed
  /\ Holds(exec_units[u].instruction)
  /\ {exec_units[u].next_pc, exec_units[u].x, exec_units[u].y, exec_units[u].xyz}
       \subseteq Word

StallType == [in_stall : BOOLEAN, reg : Word,
              hazard_type : {"RAW", "WAR", "WAW", "STRUCTURAL", "CONTROL"}]

TypeOK ==
  /\ LatchType
  /\ UnitType
  /\ stall \in [Stages -> StallType]
  /\ delayed \in Int
  /\ pc \in Word
  /\ \A r \in DOMAIN gp_int : gp_int[r] \in Word
  /\ \A r \in DOMAIN gp_fp : gp_fp[r] \in Word
  /\ \A a \in DOMAIN data_memory : data_memory[a] \in Word
  /\ {end, pipe_run, stall_put} \subseteq BOOLEAN
  /\ total_clock_cycle \in Nat \cup {-1}
  /\ {total_instr_count, stalls, cycles} \subseteq Nat
  /\ phase \in {"idle", "writeback", "memory", "execute", "decode", "fetch", "units"}

-----------------------------------------------------------------------------

Waiting == {s \in {"ID", "EXE", "MEM", "WB"} : ~ Idle(IR(s))}
Working == {u \in DOMAIN exec_units : exec_units[u].instruction.opcode # "NOP"}

\* Between two cycles each instruction that was fetched is in one place: a
\* latch or a unit, or it was retired.
NoneLost ==
  Boundary => pc = 4 * (total_instr_count + Cardinality(Waiting) + Cardinality(Working))

\* The instructions that write a register when they leave the pipeline.
Writers == {IR(s) : s \in {"MEM", "WB"}}
             \cup {exec_units[u].instruction : u \in DOMAIN exec_units}

\* A floating-point operation that has just read its operands in ID reads no
\* register that an instruction ahead of it, in a latch or in a unit, has still
\* to write.
OperandsReady ==
  phase = "fetch" /\ IR("EXE").opcode \in FpAlu /\ ~ InStall("MEM") =>
    \A older \in Writers : ~ Awaits(IR("EXE"), older)

-----------------------------------------------------------------------------

\* Instructions that have taken effect: a store does so in MEM, one cycle
\* before it is counted.
Retired ==
  total_instr_count + IF IR("WB").opcode \in {"SW", "SWS"} /\ phase # "memory"
                      THEN 1 ELSE 0

SetPrograms == {s.prog : s \in Setups}
SetFiles    == {s.gp_int : s \in Setups}
SetFpFiles  == {s.gp_fp : s \in Setups}
SetMemories == {s.data_memory : s \in Setups}

InOrder == INSTANCE SeqMachine WITH
  Programs <- SetPrograms, IntFiles <- SetFiles, Memories <- SetMemories,
  FpFiles <- SetFpFiles,
  pc <- Retired, executed <- Retired

\* No floating-point operation: those do not write their result.
MovesOnly == \A n \in DOMAIN prog : prog[n].opcode \notin FpAlu

(***************************************************************************)
(* Programs that move floats and integers through the INTEGER unit change  *)
(* registers and memory as if one instruction ran after the other.  This   *)
(* is false of the code, which rounds the floats it stores                 *)
(* (write_memory_fp): MCFpPipe.FloatStore.                                 *)
(***************************************************************************)
ImplementsProgramOrder ==
  /\ MovesOnly => InOrder!Init
  /\ [][MovesOnly => InOrder!Next \/ InOrder!Init']_(InOrder!vars)

\* The numbers a float can hold, and those of them next to n.
Floats         == {m * 2 ^ k : m \in 0 .. 2 ^ FloatBits - 1, k \in 0 .. WordBits}
Distance(m, n) == IF m < n THEN n - m ELSE m - n
Nearest(n)     == {f \in Floats : \A g \in Floats : Distance(f, n) <= Distance(g, n)}

\* A store of a float leaves the number that its bit pattern is rounded to.
RoundedStore ==
  /\ InOrder!Running({"SWS"})
  /\ \E f \in Nearest(gp_fp[InOrder!Fetched.src1]) :
       data_memory' = InOrder!Stored(Wrap(f))
  /\ InOrder!Advance
  /\ UNCHANGED registers

(***************************************************************************)
(* The same programs change registers and memory in program order, with    *)
(* that store in the place of the right one: a float whose pattern has     *)
(* more than FloatBits significant bits is stored as another one, and      *)
(* nothing else goes wrong.                                                *)
(***************************************************************************)
ImplementsRoundedOrder ==
  /\ MovesOnly => InOrder!Init
  /\ [][MovesOnly => \/ InOrder!IntOp \/ InOrder!Load \/ InOrder!LoadFp
                     \/ InOrder!Store \/ RoundedStore \/ InOrder!Branch
                     \/ InOrder!Init']_(InOrder!vars)

\* Every call of run returns: no instruction waits for ever.
RunReturns == phase # "idle" ~> phase = "idle"

-----------------------------------------------------------------------------
(* What the theorems ask of the programs and of the driver *)

ProgramsGiven == \A s \in Setups : \A n \in DOMAIN s.prog : s.prog[n] \in Instruction

UnitTypes   == {"INTEGER", "ADDER", "MULTIPLIER", "DIVIDER"}
HazardTypes == {"RAW", "WAR", "WAW", "STRUCTURAL", "CONTROL"}

\* init_exec_unit appends the units, with nothing in them, to a table.
UnitsGiven == \A s \in Setups :
  /\ Len(s.units) \in Nat /\ DOMAIN s.units = 1 .. Len(s.units)
  /\ \A u \in DOMAIN s.units : s.units[u].type \in UnitTypes /\ s.units[u].delayed \in Nat
  /\ s.units = [u \in DOMAIN s.units |-> Unit(s.units[u].type, s.units[u].delayed)]

\* Registers and memory start with words, and the operations whose definitions
\* count bits give words.
WordsGiven ==
  /\ \A s \in Setups :
       /\ s.hazard_type \in HazardTypes
       /\ \A r \in DOMAIN s.gp_int : s.gp_int[r] \in Word
       /\ \A r \in DOMAIN s.gp_fp : s.gp_fp[r] \in Word
       /\ \A a \in DOMAIN s.data_memory : s.data_memory[a] \in Word
  /\ BitwiseGivesWords
  /\ \A n \in Word : Narrowed(n) \in Word

\* No branch is taken: the conditional ones read UNDEFINED, so BEQZ, BGTZ and
\* BGEZ never are (sim_pipe_fp.cc:711).
StraightLine(p) ==
  /\ DOMAIN p \subseteq 0 .. PROGRAM_SIZE - 1
  /\ \A n \in DOMAIN p : p[n].opcode \notin {"NOP", "EOP", "BNEZ", "BLTZ", "BLEZ", "JUMP"}

\* A register holds the address of every instruction.
AddressesFit == 4 * PROGRAM_SIZE < WordSize

\* The memory that the simulator leaves uninitialised does not look like an access or
\* a WAW stall.
CleanStart(setups) ==
  \A s \in setups : StraightLine(s.prog) /\ s.delayed = 0 /\ s.hazard_type # "WAW"

\* There is one unit of each type: get_free_unit takes the first that is not busy,
\* also when its result has yet to leave it.
KeepInstructions(setups) ==
  /\ CleanStart(setups)
  /\ \A s \in setups : \A u, v \in DOMAIN s.units : s.units[u].type = s.units[v].type => u = v

\* checking_Stall sees what an operation waits for: one register, written by a load,
\* or by the operation right before it, which cannot have reached a unit yet.  An
\* instruction in WB is checked too, and takes a later writer of its operands for a
\* producer: ID then waits for that instead, so that must be what it waits for.
SeenOperands(p) ==
  \A n \in DOMAIN p : p[n].opcode \in FpAlu =>
    LET writers == {m \in DOMAIN p : m < n /\ Depends(p[m], p[n])}
    IN /\ ~ Depends(p[n], p[n])
       /\ \A m, k \in writers : m = k
       /\ \A m \in writers : p[m].opcode \in FpAlu => m = n - 1
       /\ \A m \in writers, j, k \in DOMAIN p :
            j < k /\ k < n /\ Awaits(p[j], p[k]) => p[m].dest = p[k].dest

\* And loads do not stay in a unit.
KeepOperands(setups) ==
  /\ CleanStart(setups)
  /\ \A s \in setups : /\ SeenOperands(s.prog)
                       /\ \A u \in DOMAIN s.units :
                            s.units[u].type = "INTEGER" => s.units[u].delayed = 0

\* The units that would overwrite the latch of MEM in inst_execute: those that are
\* done, and one that is done at once.
Leaving ==
  {u \in DOMAIN exec_units :
     /\ exec_units[u].busy = 0
     /\ \/ exec_units[u].instruction.opcode # "NOP"
        \/ /\ exec_units[u].delayed = 0
           /\ ~ Idle(IR("EXE")) /\ exec_units[u].type = UnitFor(IR("EXE").opcode)}

OneDone == phase = "execute" /\ ~ InStall("MEM") => \A u, v \in Leaving : u = v

\* reset leaves in the units what they compute.
ResetsAtEnd == [][Reset => Ended]_vars
=============================================================================
