------------------------------- MODULE FpPipe -------------------------------
(***************************************************************************)
(* The pipeline of mips_pipeline with execution units (sim_pipe_fp.cc).    *)
(* A clock cycle of run calls the five stages from the last to the first   *)
(* and then counts the units down; each call is a step, with one action    *)
(* for each way through the stage.  An instruction leaves EXE for a unit   *)
(* and moves from the unit to MEM when the unit is no longer busy.         *)
(*                                                                         *)
(* Registers, latches and stalls are those of PipeLatch.  A float is the   *)
(* whole number it holds.  Instruction addresses start at 0.               *)
(***************************************************************************)
EXTENDS PipeLatch, FiniteSetsExt

CONSTANTS
  Setups,     \* what drivers set up before run: program, memory latency,
              \* units, registers and data memory; and what the memory of the
              \* simulator held: delayed[MEM] and hazard_type are not initialised
  Restarts,   \* the set-ups used after a reset
  FloatBits,  \* significant bits of a float (24)
  Calls,      \* arguments of run
  MaxCycles   \* bound: no call of run begins after this many cycles, and
              \* the counters of cycles and of stalls go no further

ASSUME FpPipeAssumption ==
  /\ \A s \in Setups : s.latency \in Nat /\ s.delayed \in Int
  /\ Restarts \subseteq Setups
  /\ FloatBits \in Nat \ {0}
  /\ Calls \subseteq Nat
  /\ MaxCycles \in Nat

VARIABLES
  \* chosen by the driver
  prog, data_memory_latency,
  \* architectural state
  gp_int, gp_fp, data_memory, total_instr_count,
  \* the pipeline
  pc, latch, stall, delayed, exec_units, end, pipe_run,
  \* statistics
  stall_put, stalls, total_clock_cycle,
  \* what is left of run's argument, and the stage about to be called
  cycles, phase

chosen    == <<prog, data_memory_latency>>
registers == <<gp_int, gp_fp>>
clock     == <<stalls, total_clock_cycle>>
calls     == <<cycles, pipe_run>>

vars == <<chosen, registers, data_memory, total_instr_count, pc, latch, stall,
          delayed, exec_units, end, stall_put, clock, calls, phase>>

-----------------------------------------------------------------------------
(* Instructions, latches, stalls and units *)

Instr(n) == IF n \in DOMAIN prog THEN prog[n] ELSE Blank("EOP")

IR(s)       == latch[s].ir
InStall(s)  == stall[s].in_stall
MemoryOp(i) == i.opcode \in {"LW", "SW", "LWS", "SWS"}

\* init_exec_unit
Unit(type, delay) ==
  [type |-> type, delayed |-> delay, busy |-> 0, instruction |-> Blank("NOP"),
   next_pc |-> UNDEFINED, x |-> UNDEFINED, y |-> UNDEFINED, xyz |-> UNDEFINED]

UnitFor(op) ==
  CASE op \in {"ADDS", "SUBS"} -> "ADDER"
    [] op = "MULTS"            -> "MULTIPLIER"
    [] op = "DIVS"             -> "DIVIDER"
    [] op \in {"NOP", "EOP"}   -> "NONE"
    [] OTHER                   -> "INTEGER"

\* get_free_unit takes the first of these.
FreeUnits(op) == {u \in DOMAIN exec_units : /\ exec_units[u].type = UnitFor(op)
                                            /\ exec_units[u].busy = 0}

-----------------------------------------------------------------------------
(* checking_Stall, one operator for each stage it is called with *)

\* Only floating-point operations wait for operands, and only for those of
\* floating-point operations and loads.
Awaits(i, older) == /\ Depends(older, i)
                    /\ i.opcode \in FpAlu
                    /\ older.opcode \in FpAlu \cup {"LWS"}

\* Mutant: the loop over the latches begins behind EXE.
RawStallBehind(st, i) ==
  LET producers == {s \in {"MEM", "WB"} : Awaits(i, IR(s))}
      kept == IF "WB" \in producers THEN "WB" ELSE "MEM"
  IN IF producers = {} THEN st
     ELSE [st EXCEPT !["ID"] = Raised("RAW", IR(kept).dest)]

\* The loop keeps the last match, and it looks at the latches only: a producer
\* in an execution unit is not seen.
RawStall(st, i) ==
  LET producers == {s \in {"EXE", "MEM", "WB"} : Awaits(i, IR(s))}
      kept == IF "WB" \in producers THEN "WB"
              ELSE IF "MEM" \in producers THEN "MEM" ELSE "EXE"
  IN IF producers = {} THEN st
     ELSE [st EXCEPT !["ID"] = Raised("RAW", IR(kept).dest)]

ControlStall(st, i) ==
  IF StallsFetch(i) THEN [st EXCEPT !["IF"] = Raised("CONTROL", i.src1)] ELSE st

ExecuteStall(i) ==
  LET access == IF MemoryOp(i)
                THEN [stall EXCEPT !["EXE"] = Raised("STRUCTURAL", UNDEFINED)] ELSE stall
      freed  ==
        IF delayed = 0
        THEN [access EXCEPT !["MEM"].in_stall = FALSE,
                !["EXE"].in_stall = @ /\ access["EXE"].hazard_type = "WAW"]
        ELSE [access EXCEPT !["EXE"].in_stall = @ /\ FreeUnits(i.opcode) = {}]
  IN IF FreeUnits(i.opcode) = {} /\ ~ Idle(i)
     THEN [freed EXCEPT !["EXE"] = Raised("STRUCTURAL", UNDEFINED)] ELSE freed

\* Mutant: a memory access in progress is not counted down.
MemoryCounterStuck(i) == IF MemoryOp(i) THEN data_memory_latency ELSE delayed

MemoryCounter(i) ==
  IF ~ MemoryOp(i) THEN delayed
  ELSE IF InStall("MEM") THEN delayed - 1 ELSE data_memory_latency

MemoryStall(i) ==
  LET left    == IF StallsFetch(i)
                 THEN [stall EXCEPT !["IF"].in_stall = FALSE, !["IF"].reg = UNDEFINED]
                 ELSE stall
      waiting == IF MemoryOp(i) THEN [left EXCEPT !["MEM"].in_stall = TRUE] ELSE left
  IN IF MemoryCounter(i) # 0 THEN waiting
     ELSE [waiting EXCEPT !["EXE"].in_stall = FALSE, !["MEM"].in_stall = FALSE]

\* The latch of WB still holds i: an operation that reads its own destination
\* waits for itself.
WritebackStall(i) ==
  RawStall([s \in Stages |->
              IF stall[s].reg = i.dest /\ stall[s].hazard_type = "RAW" /\ InStall(s)
              THEN [stall[s] EXCEPT !.in_stall = FALSE, !.reg = UNDEFINED]
              ELSE stall[s]], i)

-----------------------------------------------------------------------------
(* inst_writeback *)

Enter(stage, next) == phase = stage /\ phase' = next

WritebackNothing ==
  /\ Enter("writeback", "memory")
  /\ IR("WB").opcode = "NOP"
  /\ UNCHANGED <<chosen, registers, data_memory, total_instr_count, pc, latch, stall,
                 delayed, exec_units, end, stall_put, clock, calls>>

WritebackEnd ==
  /\ Enter("writeback", "memory")
  /\ IR("WB").opcode = "EOP"
  /\ pipe_run' = FALSE
  /\ UNCHANGED <<chosen, registers, data_memory, total_instr_count, pc, latch, stall,
                 delayed, exec_units, end, stall_put, clock, cycles>>

\* Of the floating-point operations only MULTS writes its result.
Writeback ==
  /\ Enter("writeback", "memory")
  /\ ~ Idle(IR("WB"))
  /\ LET i == IR("WB")
         result == IF i.opcode \in Loads THEN latch["WB"].LMD
                   ELSE latch["WB"].ALU_OUTPUT
     IN /\ gp_fp' = IF i.opcode \in {"LWS", "MULTS"}
                    THEN [gp_fp EXCEPT ![i.dest] = result] ELSE gp_fp
        /\ gp_int' = IF /\ i.opcode \notin Branches \cup FpAlu \cup {"SW", "SWS", "LWS"}
                        /\ i.dest \in DOMAIN gp_int
                     THEN [gp_int EXCEPT ![i.dest] = result] ELSE gp_int
        /\ stall' = WritebackStall(i)
  /\ total_instr_count' = total_instr_count + 1
  /\ UNCHANGED <<chosen, data_memory, pc, latch, delayed, exec_units, end, stall_put,
                 clock, calls>>

-----------------------------------------------------------------------------
(* inst_memory *)

CheckMemory ==
  /\ Enter("memory", "execute")
  /\ stall' = MemoryStall(IR("MEM"))
  /\ delayed' = MemoryCounter(IR("MEM"))
  /\ UNCHANGED <<chosen, registers, total_instr_count, pc, exec_units, end, clock, calls>>

MemoryWait ==
  /\ CheckMemory
  /\ MemoryStall(IR("MEM"))["MEM"].in_stall
  /\ stall_put' = TRUE
  /\ latch' = [latch EXCEPT !["WB"] = Bubble]
  /\ UNCHANGED data_memory

MemoryPass ==
  /\ CheckMemory
  /\ ~ MemoryStall(IR("MEM"))["MEM"].in_stall
  /\ Idle(IR("MEM"))
  /\ latch' = [latch EXCEPT !["WB"] = Clean(IR("MEM"))]
  /\ UNCHANGED <<data_memory, stall_put>>

\* Bytes of data memory that no store has written hold 0xFF.
Loaded(a) == IF a \in DOMAIN data_memory THEN data_memory[a] ELSE UNDEFINED

\* Mutant: the bits that a float has no room for are cut off.
NarrowedDown(n) ==
  LET unit == Min({u \in {2 ^ k : k \in 0 .. WordBits} : n \div u < 2 ^ FloatBits})
  IN n - (n % unit)

\* The word n as a float and back: FloatBits bits are kept, ties to even.
Narrowed(n) ==
  LET unit  == Min({u \in {2 ^ k : k \in 0 .. WordBits} : n \div u < 2 ^ FloatBits})
      q     == n \div unit
      twice == 2 * (n % unit)
      up    == twice > unit \/ (twice = unit /\ q % 2 = 1)
  IN Wrap(unit * IF up THEN q + 1 ELSE q)

\* write_memory_fp takes the bit pattern for a number: write_memory(float(B)).
\* LW reads nothing.
MemoryAccess ==
  /\ CheckMemory
  /\ ~ MemoryStall(IR("MEM"))["MEM"].in_stall
  /\ ~ Idle(IR("MEM"))
  /\ LET m  == latch["MEM"]
         op == m.ir.opcode
     IN /\ latch' = [latch EXCEPT !["WB"] =
             [Clean(m.ir) EXCEPT !.ALU_OUTPUT = m.ALU_OUTPUT, !.COND = m.COND,
                !.LMD = IF op = "LWS" THEN Loaded(m.ALU_OUTPUT) ELSE UNDEFINED]]
        /\ data_memory' = IF op \in {"SW", "SWS"} /\ m.ALU_OUTPUT \in DOMAIN data_memory
                          THEN [data_memory EXCEPT ![m.ALU_OUTPUT] =
                                  IF op = "SWS" THEN Narrowed(m.B) ELSE m.B]
                          ELSE data_memory
  /\ UNCHANGED stall_put

-----------------------------------------------------------------------------
(* inst_execute *)

alu(op, a, b, imm, npc) ==
  CASE MemoryOp([opcode |-> op])        -> Wrap(a + imm)
    [] op \in Branches \cup {"JUMP"}    -> Wrap(npc + imm)
    [] op \in FpAlu /\ UNDEFINED \in {a, b} -> UNDEFINED
    [] OTHER                            -> Alu(op, a, b, imm, npc)

\* branch_pick marks a taken branch by COND = 1.
Condition(op, x) == IF op = "JUMP" \/ Taken(op, x) THEN 1 ELSE UNDEFINED

\* What a unit hands to MEM: inst_execute_int, or the same for a float.
Result(u) ==
  [Clean(u.instruction) EXCEPT
     !.ALU_OUTPUT = alu(u.instruction.opcode, u.x, u.y, u.xyz, u.next_pc),
     !.B = u.y, !.COND = Condition(u.instruction.opcode, u.x)]

Occupied(u, e) ==
  [u EXCEPT !.busy = u.delayed, !.instruction = e.ir, !.next_pc = e.NPC, !.x = e.A,
            !.y = e.B, !.xyz = e.IMM]

\* Mutant: a unit keeps the instruction it is done with.
EmptiedNot(u) == u

Emptied(u) == [u EXCEPT !.instruction = Blank("NOP")]

\* Each unit that is done overwrites the latch of MEM: the last one stays.
Complete(units, mem) ==
  LET executing == stall'["EXE"]
      done == IF executing.in_stall \/ executing.hazard_type = "WAW" THEN {}
              ELSE {u \in DOMAIN units : /\ units[u].busy = 0
                                         /\ units[u].instruction.opcode # "NOP"}
  IN /\ exec_units' = [u \in DOMAIN units |->
                         IF u \in done THEN Emptied(units[u]) ELSE units[u]]
     /\ latch' = IF done = {} THEN [latch EXCEPT !["MEM"] = mem]
                 ELSE [latch EXCEPT !["EXE"] = Clean(@.ir),
                                    !["MEM"] = Result(units[Max(done)])]

CheckExecute ==
  /\ Enter("execute", "decode")
  /\ stall' = ExecuteStall(IR("EXE"))
  /\ UNCHANGED <<chosen, registers, data_memory, total_instr_count, pc, delayed, end,
                 stall_put, clock, calls>>

ExecuteWait ==
  /\ CheckExecute
  /\ stall'["MEM"].in_stall
  /\ UNCHANGED <<latch, exec_units>>

\* The end of the program waits for the units.
ExecutePass ==
  /\ CheckExecute
  /\ ~ stall'["MEM"].in_stall
  /\ Idle(IR("EXE"))
  /\ Complete(exec_units, IF \A u \in DOMAIN exec_units : exec_units[u].busy = 0
                          THEN Clean(IR("EXE")) ELSE Bubble)

\* A unit that is free takes the instruction, whether or not what it computed
\* has left it.  An instruction in EXE is never in stall: the unit that ID found
\* free is still free.
ExecuteIssue ==
  /\ CheckExecute
  /\ ~ stall'["MEM"].in_stall
  /\ ~ Idle(IR("EXE")) /\ ~ stall'["EXE"].in_stall
  /\ LET mode == Min(FreeUnits(IR("EXE").opcode))
     IN Complete([exec_units EXCEPT ![mode] = Occupied(@, latch["EXE"])], Bubble)

-----------------------------------------------------------------------------
(* inst_decode *)

Decoding ==
  /\ Enter("decode", "fetch")
  /\ UNCHANGED <<chosen, registers, data_memory, total_instr_count, pc, delayed,
                 exec_units, end, clock, calls>>

DecodeBlocked ==
  /\ Decoding
  /\ InStall("MEM")
  /\ UNCHANGED <<latch, stall, stall_put>>

\* A NOP takes the place of whatever is in EXE.
Insert == stall_put' = TRUE /\ latch' = [latch EXCEPT !["EXE"] = Bubble]

DecodeStall ==
  /\ Decoding
  /\ ~ InStall("MEM") /\ InStall("ID")
  /\ Insert
  /\ UNCHANGED stall

CheckDecode ==
  /\ Decoding
  /\ ~ InStall("MEM") /\ ~ InStall("ID")
  /\ stall' = ExecuteStall(IR("ID"))

DecodeConflict ==
  /\ CheckDecode
  /\ stall'["EXE"].in_stall
  /\ Insert

DecodePass ==
  /\ CheckDecode
  /\ ~ stall'["EXE"].in_stall
  /\ Idle(IR("ID"))
  /\ latch' = [latch EXCEPT !["EXE"] = [Clean(IR("ID")) EXCEPT !.NPC =
                 IF IR("ID").opcode = "EOP" THEN latch["ID"].NPC ELSE UNDEFINED]]
  /\ UNCHANGED stall_put

Register(r) == IF r \in DOMAIN gp_int THEN gp_int[r] ELSE UNDEFINED

\* get_fp_register returns the number UNDEFINED for a register that holds
\* UNDEFINED: the float of pattern 0x4F800000.
FloatRegister(r) ==
  IF r \in DOMAIN gp_fp /\ gp_fp[r] # UNDEFINED THEN gp_fp[r]
  ELSE (159 * WordSize) \div 512

\* Mutant: stores take their registers in the order of the loads.
OperandsOfLoads(i) ==
  [A |-> Register(i.src1), B |-> Register(i.src2), IMM |-> i.immediate]

\* Each label of the switch that has a break of its own reads nothing: of the
\* register operations only XOR, SUBI and DIVS get operands, of the branches JUMP.
Operands(i) ==
  [A |-> CASE i.opcode \in {"XOR", "SUBI", "LW", "LWS", "JUMP"} -> Register(i.src1)
           [] i.opcode \in {"SW", "SWS"}                        -> Register(i.src2)
           [] i.opcode = "DIVS"                                 -> FloatRegister(i.src1)
           [] OTHER                                             -> UNDEFINED,
   B |-> CASE i.opcode = "XOR"  -> Register(i.src2)
           [] i.opcode = "SW"   -> Register(i.src1)
           [] i.opcode = "SWS"  -> FloatRegister(i.src1)
           [] i.opcode = "DIVS" -> FloatRegister(i.src2)
           [] OTHER             -> UNDEFINED,
   IMM |-> IF i.opcode \in {"SUBI", "JUMP"} \/ MemoryOp(i) THEN i.immediate ELSE UNDEFINED]

Decode ==
  /\ CheckDecode
  /\ ~ stall'["EXE"].in_stall
  /\ ~ Idle(IR("ID"))
  /\ LET read == Operands(IR("ID"))
     IN latch' = [latch EXCEPT !["EXE"] =
          [Clean(IR("ID")) EXCEPT !.NPC = latch["ID"].NPC, !.A = read.A, !.B = read.B,
                                  !.IMM = read.IMM]]
  /\ UNCHANGED stall_put

-----------------------------------------------------------------------------
(* inst_fetch *)

\* A taken branch in WB names the next instruction.
FetchPC == IF latch["WB"].COND # UNDEFINED THEN latch["WB"].ALU_OUTPUT ELSE pc
Fetched == Instr(FetchPC \div 4)

Fetching ==
  /\ Enter("fetch", "units")
  /\ UNCHANGED <<chosen, registers, data_memory, total_instr_count, delayed, exec_units,
                 clock, calls>>

InProgram == FetchPC \div 4 <= PROGRAM_SIZE /\ ~ end
Held == \E s \in {"ID", "EXE", "MEM"} : InStall(s)

FetchNothing ==
  /\ Fetching
  /\ ~ InProgram
  /\ UNCHANGED <<pc, latch, stall, end, stall_put>>

FetchHeld ==
  /\ Fetching
  /\ InProgram /\ Held
  /\ stall_put' = TRUE
  /\ UNCHANGED <<pc, latch, stall, end>>

FetchStall ==
  /\ Fetching
  /\ InProgram /\ ~ Held
  /\ InStall("IF")
  /\ stall_put' = TRUE
  /\ stall' = RawStall(stall, Fetched)
  /\ latch' = [latch EXCEPT !["ID"] = Bubble]
  /\ UNCHANGED <<pc, end>>

FetchEnd ==
  /\ Fetching
  /\ InProgram /\ ~ Held
  /\ ~ InStall("IF")
  /\ Fetched.opcode = "EOP"
  /\ end' = TRUE
  /\ latch' = [latch EXCEPT !["ID"] = [Clean(Fetched) EXCEPT !.NPC = FetchPC]]
  /\ UNCHANGED <<pc, stall, stall_put>>

Fetch ==
  /\ Fetching
  /\ InProgram /\ ~ Held
  /\ ~ InStall("IF")
  /\ Fetched.opcode # "EOP"
  /\ stall' = ControlStall(RawStall(stall, Fetched), Fetched)
  /\ latch' = [latch EXCEPT !["ID"] = [Clean(Fetched) EXCEPT !.NPC = Wrap(FetchPC + 4)]]
  /\ pc' = Wrap(FetchPC + 4)
  /\ UNCHANGED <<end, stall_put>>

-----------------------------------------------------------------------------
(* run and reset *)

Counted(n) == IF n < MaxCycles THEN n + 1 ELSE n

\* Mutant: a unit that is not busy is counted down too.
BusyLessAlways(u) == [u EXCEPT !.busy = @ - 1]

\* units_busy_time
BusyLess(u) == IF u.busy > 0 THEN [u EXCEPT !.busy = @ - 1] ELSE u

EndCycle ==
  /\ phase = "units"
  /\ exec_units' = [u \in DOMAIN exec_units |-> BusyLess(exec_units[u])]
  /\ stall_put' = FALSE
  /\ stalls' = IF stall_put THEN Counted(stalls) ELSE stalls
  /\ total_clock_cycle' = Counted(total_clock_cycle)
  /\ cycles' = IF ~ pipe_run /\ cycles > 0 THEN cycles - 1 ELSE cycles
  /\ phase' = IF pipe_run \/ cycles' # 0 THEN "writeback" ELSE "idle"
  /\ UNCHANGED <<chosen, registers, data_memory, total_instr_count, pc, latch, stall,
                 delayed, end, pipe_run>>

Ended == phase = "idle" /\ IR("WB").opcode = "EOP"

Run(n) ==
  /\ phase = "idle"
  /\ ~ Ended
  /\ total_clock_cycle < MaxCycles
  /\ pipe_run' = (n = 0)
  /\ cycles' = n
  /\ phase' = "writeback"
  /\ UNCHANGED <<chosen, registers, data_memory, total_instr_count, pc, latch, stall,
                 delayed, exec_units, end, stall_put, clock>>

\* The memory latency and the units stay; so does what the units compute, which
\* is no longer busy.
Reset ==
  /\ phase = "idle"
  /\ total_clock_cycle >= 0
  /\ \E s \in Restarts :
       /\ s.latency = data_memory_latency
       /\ prog' = s.prog
       /\ gp_int' = s.gp_int
       /\ gp_fp' = s.gp_fp
       /\ data_memory' = s.data_memory
  /\ total_instr_count' = 0
  /\ pc' = 0
  /\ latch' = EmptyPipe
  /\ stall' = [s \in Stages |-> [stall[s] EXCEPT !.in_stall = FALSE]]
  /\ exec_units' = [u \in DOMAIN exec_units |-> [exec_units[u] EXCEPT !.busy = 0]]
  /\ end' = FALSE
  /\ stall_put' = FALSE
  /\ stalls' = 0
  /\ total_clock_cycle' = -1
  /\ UNCHANGED <<data_memory_latency, delayed, calls, phase>>

Init ==
  /\ \E s \in Setups : /\ prog = s.prog
                       /\ data_memory_latency = s.latency
                       /\ exec_units = s.units
                       /\ gp_int = s.gp_int
                       /\ gp_fp = s.gp_fp
                       /\ data_memory = s.data_memory
                       /\ delayed = s.delayed
                       /\ stall = [st \in Stages |-> [in_stall |-> FALSE, reg |-> UNDEFINED,
                                                      hazard_type |-> s.hazard_type]]
  /\ total_instr_count = 0
  /\ pc = 0
  /\ latch = EmptyPipe
  /\ end = FALSE
  /\ pipe_run = FALSE
  /\ stall_put = FALSE
  /\ stalls = 0
  /\ total_clock_cycle = -1
  /\ cycles = 0
  /\ phase = "idle"

Step ==
  \/ WritebackNothing \/ WritebackEnd \/ Writeback
  \/ MemoryWait \/ MemoryPass \/ MemoryAccess
  \/ ExecuteWait \/ ExecutePass \/ ExecuteIssue
  \/ DecodeBlocked \/ DecodeStall \/ DecodeConflict \/ DecodePass \/ Decode
  \/ FetchNothing \/ FetchHeld \/ FetchStall \/ FetchEnd \/ Fetch
  \/ EndCycle

Next == Step \/ (\E n \in Calls : Run(n)) \/ Reset

Spec == Init /\ [][Next]_vars

\* run does not wait for anything; its caller may stop calling.
FairSpec == Spec /\ WF_vars(Step)
=============================================================================
