---------------------------- MODULE IntPipeProps ----------------------------
(***************************************************************************)
(* Correctness of the integer pipeline of IntPipe.                         *)
(***************************************************************************)
EXTENDS IntPipe

Boundary == phase \in {"idle", "writeback"}

Holds(i) == /\ i.opcode \in Opcodes
            /\ {i.src1, i.src2, i.dest, i.immediate} \subseteq Word

LatchType == \A s \in Stages :
  /\ Holds(IR(s))
  /\ {latch[s].NPC, latch[s].A, latch[s].B, latch[s].IMM, latch[s].COND,
      latch[s].ALU_OUTPUT, latch[s].LMD} \subseteq Word

StallType == [in_stall : BOOLEAN, reg : Word,
              hazard_type : {"RAW", "WAR", "WAW", "STRUCTURAL", "CONTROL"}]

TypeOK ==
  /\ LatchType
  /\ stall \in [Stages -> StallType]
  /\ latency \in Int
  /\ pc \in Word
  /\ \A r \in DOMAIN gp_int : gp_int[r] \in Word
  /\ \A a \in DOMAIN data_memory : data_memory[a] \in Word
  /\ {end, pipe_run, stall_put} \subseteq BOOLEAN
  /\ total_clock_cycle \in Nat \cup {-1}
  /\ {total_instr_count, stalls, cycles} \subseteq Nat
  /\ phase \in {"idle", "writeback", "memory", "execute", "decode", "fetch", "end"}

-----------------------------------------------------------------------------

\* Instructions that have taken effect: a store does so in MEM, one cycle
\* before it is counted.
Retired ==
  total_instr_count + IF IR("WB").opcode = "SW" /\ phase # "memory" THEN 1 ELSE 0

SetPrograms == {s.prog : s \in Setups}
SetFiles    == {s.gp_int : s \in Setups}
SetMemories == {s.data_memory : s \in Setups}

InOrder == INSTANCE SeqMachine WITH
  Programs <- SetPrograms, IntFiles <- SetFiles, Memories <- SetMemories,
  FpFiles <- {<<>>},
  pc <- Retired, executed <- Retired, gp_fp <- <<>>

(***************************************************************************)
(* The overlap of five instructions is invisible: registers and memory     *)
(* change as if one instruction ran after the other, and a reset starts    *)
(* the next program as the first one was started.                          *)
(***************************************************************************)
ImplementsProgramOrder ==
  /\ InOrder!Init
  /\ [][InOrder!Next \/ InOrder!Init']_(InOrder!vars)

\* The place in program order of what each stage holds, when the stages hold
\* consecutive instructions: the oldest is the next one to be counted.
Filled(s) == IF Idle(IR(s)) THEN 0 ELSE 1

PlaceMEM == total_instr_count + Filled("WB")
PlaceEXE == PlaceMEM + Filled("MEM")
PlaceID  == PlaceEXE + Filled("EXE")
PlaceIF  == PlaceID + Filled("ID")

InPlace(s, n) == ~ Idle(IR(s)) => IR(s) = Instr(n)

\* Between two cycles the stages hold consecutive instructions and fetch goes
\* on behind them: stalls lose none and repeat none.
PipeInOrder ==
  Boundary => /\ InPlace("WB", total_instr_count)
              /\ InPlace("MEM", PlaceMEM)
              /\ InPlace("EXE", PlaceEXE)
              /\ InPlace("ID", PlaceID)
              /\ pc = 4 * PlaceIF

\* When inst_writeback finds the end of the program, every cycle but the four
\* that filled the pipeline has retired an instruction or was counted as a
\* stall (the clock starts at -1).
StallsAccounted ==
  phase = "writeback" /\ IR("WB").opcode = "EOP" =>
    total_clock_cycle = total_instr_count + stalls + 3

\* Every call of run returns.
RunReturns == phase # "idle" ~> phase = "idle"

-----------------------------------------------------------------------------
(* What the theorems ask of the programs and of the driver *)

\* The instructions in flight before n that write an operand of n.
Producers(p, n) ==
  {m \in DOMAIN p : m < n /\ n - m <= 3 /\ Depends(p[m], p[n])}

\* No instruction that reads its destination has another writer of it behind:
\* checking_Stall would stall ID for good (sim_pipe.cc:643).
NoOverwrite(p) ==
  \A m, n \in DOMAIN p :
    m < n /\ n - m <= 2 /\ p[m].dest = p[n].dest => ~ Depends(p[m], p[m])

\* Nothing waits for an operand in ID while a memory access is in MEM:
\* inst_decode would lose what waits in EXE (sim_pipe.cc:434).
QuietAccess(p) ==
  \A n \in DOMAIN p, m \in DOMAIN p :
    n = m + 2 /\ MemoryOp(p[m]) => Producers(p, n) = {}

\* No branch is taken: the conditional ones read UNDEFINED, so BEQZ, BGTZ and
\* BGEZ never are (sim_pipe.cc:467).
StraightLine(p) ==
  /\ DOMAIN p \subseteq 0 .. PROGRAM_SIZE - 1
  /\ \A n \in DOMAIN p : p[n].opcode \notin {"NOP", "EOP", "BNEZ", "BLTZ", "BLEZ", "JUMP"}

KeepOrder(setups) ==
  \A s \in setups :
    /\ StraightLine(s.prog)
    /\ s.latency = 0 \/ (QuietAccess(s.prog) /\ NoOverwrite(s.prog))

OverwriteNothing(setups) == \A s \in setups : NoOverwrite(s.prog)

\* An instruction waits for one other: a stall remembers one register, and ends with
\* the first that writes it (sim_pipe.cc:612).
OneProducer(p) == \A n \in DOMAIN p : \A k, m \in Producers(p, n) : k = m

KeepValues(setups) ==
  /\ KeepOrder(setups) /\ OverwriteNothing(setups)
  /\ \A s \in setups : OneProducer(s.prog)

\* Programs read registers there are: load_program gives a source one of the 32 names,
\* and a source an instruction has not the number UNDEFINED.
RegistersRead ==
  \A s \in Setups :
    /\ s.gp_int = [r \in DOMAIN s.gp_int |-> s.gp_int[r]]
    /\ s.data_memory = [a \in DOMAIN s.data_memory |-> s.data_memory[a]]
    /\ UNDEFINED \notin DOMAIN s.gp_int
    /\ \A n \in DOMAIN s.prog :
         /\ s.prog[n].opcode \in
              RegisterOps \cup ImmediateOps \cup Branches \cup {"LW", "SW"}
         /\ s.prog[n].src1 \in DOMAIN s.gp_int
         /\ s.prog[n].opcode \in RegisterOps \cup {"SW"} => s.prog[n].src2 \in DOMAIN s.gp_int

\* Branches that the code does not take are not to be taken: it would be an accident,
\* since it does not read the register (sim_pipe.cc:467).
NoneTaken ==
  phase = "writeback" /\ IR("WB").opcode \in Branches =>
    ~ Taken(IR("WB").opcode, gp_int[IR("WB").src1])

\* A register holds the address of every instruction.
AddressesFit == 4 * PROGRAM_SIZE < WordSize

ProgramsGiven == \A s \in Setups : \A n \in DOMAIN s.prog : s.prog[n] \in Instruction

\* Registers and memory start with words, and the bitwise operations give words.
WordsGiven ==
  /\ \A s \in Setups :
       /\ \A r \in DOMAIN s.gp_int : s.gp_int[r] \in Word
       /\ \A a \in DOMAIN s.data_memory : s.data_memory[a] \in Word
  /\ BitwiseGivesWords

\* The counters have not reached the bound of the model.
Uncapped == total_clock_cycle < MaxCycles /\ stalls < MaxCycles

\* The driver runs the program to its end with run(0): a call of run(n) goes on
\* and counts cycles after the end of the program has reached WB.
StopsAtEnd == phase = "writeback" /\ IR("WB").opcode = "EOP" => pipe_run
=============================================================================
