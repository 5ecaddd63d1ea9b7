------------------------------ MODULE IntPipe ------------------------------
(***************************************************************************)
(* The integer pipeline of mips_pipeline (sim_pipe.cc).  A clock cycle of  *)
(* run calls the five stages from the last to the first; each call is a    *)
(* step, with one action for each way through the stage.  What stage s     *)
(* works on is latch[s]: its instruction register and the special-purpose  *)
(* registers of that stage.                                                *)
(*                                                                         *)
(* The pipeline is deterministic.  The driver chooses a set-up, then calls *)
(* run(n) for any n in Calls, and between two calls may reset the          *)
(* simulator and set it up again.                                          *)
(* Instruction addresses start at 0 (instr_base_address).                  *)
(***************************************************************************)
EXTENDS PipeLatch

CONSTANTS
  Setups,     \* what drivers set up before run: program, memory latency,
              \* registers and data memory
  Restarts,   \* the set-ups used after a reset
  Garbage,    \* what an uninitialised latency counter may hold
  Calls,      \* arguments of run
  MaxCycles   \* bound: no call of run begins after this many cycles, and
              \* the counters of cycles and of stalls go no further

ASSUME IntPipeAssumption ==
  /\ \A s \in Setups : s.latency \in Nat
  /\ Restarts \subseteq Setups
  /\ Garbage \subseteq Int
  /\ Calls \subseteq Nat
  /\ MaxCycles \in Nat

VARIABLES
  \* chosen by the driver
  prog, data_memory_latency,
  \* architectural state
  gp_int, data_memory, total_instr_count,
  \* the pipeline
  pc, latch, stall, latency, end, pipe_run,
  \* statistics
  stall_put, stalls, total_clock_cycle,
  \* what is left of run's argument, and the stage about to be called
  cycles, phase

chosen == <<prog, data_memory_latency>>
clock  == <<stalls, total_clock_cycle>>
calls  == <<cycles, pipe_run>>

vars == <<chosen, gp_int, data_memory, total_instr_count, pc, latch, stall,
          latency, end, stall_put, clock, calls, phase>>

-----------------------------------------------------------------------------
(* Instructions, latches and stalls *)

Instr(n) == IF n \in DOMAIN prog THEN prog[n] ELSE Blank("EOP")

IR(s)      == latch[s].ir
InStall(s) == stall[s].in_stall
MemoryOp(i) == i.opcode \in {"LW", "SW"}
Lowered(s)  == [stall[s] EXCEPT !.in_stall = FALSE]

-----------------------------------------------------------------------------
(* checking_Stall, one operator for each stage it is called with *)

\* When the counter is 0 the memory is free: neither stage waits for it.
FreedMemory(st, counter) ==
  IF counter # 0 THEN st
  ELSE [s \in Stages |-> IF s \in {"EXE", "MEM"} THEN [st[s] EXCEPT !.in_stall = FALSE]
                         ELSE st[s]]

\* Mutant: a producer that is in MEM is overlooked.
RawStallShort(i) ==
  LET producers == {s \in {"EXE", "WB"} : Depends(IR(s), i)}
  IN IF producers = {} THEN stall
     ELSE [stall EXCEPT !["ID"] = Raised("RAW", IR(CHOOSE s \in producers : TRUE).dest)]

\* The loop keeps the last match: the oldest producer in flight.
RawStall(i) ==
  LET producers == {s \in {"EXE", "MEM", "WB"} : Depends(IR(s), i)}
      kept == IF "WB" \in producers THEN "WB"
              ELSE IF "MEM" \in producers THEN "MEM" ELSE "EXE"
  IN IF producers = {} THEN stall
     ELSE [stall EXCEPT !["ID"] = Raised("RAW", IR(kept).dest)]

ControlStall(st, i) ==
  IF StallsFetch(i) THEN [st EXCEPT !["IF"] = Raised("CONTROL", i.src1)] ELSE st

\* Mutant: the instruction behind a memory access does not wait for it.
ExecuteStallFree == FreedMemory(stall, latency)

ExecuteStall ==
  FreedMemory(IF MemoryOp(IR("MEM"))
              THEN [stall EXCEPT !["EXE"] = Raised("STRUCTURAL", UNDEFINED)]
              ELSE stall, latency)

\* Mutant: a memory access in progress is not counted down.
MemoryCounterStuck(i) == IF MemoryOp(i) THEN data_memory_latency ELSE latency

MemoryCounter(i) ==
  IF ~ MemoryOp(i) THEN latency
  ELSE IF InStall("EXE") THEN latency - 1 ELSE data_memory_latency

BranchLeaves(i) ==
  IF StallsFetch(i) THEN [stall EXCEPT !["IF"].in_stall = FALSE, !["IF"].reg = UNDEFINED]
  ELSE stall

MemoryStall(i) ==
  LET left    == BranchLeaves(i)
      waiting == IF MemoryOp(i) /\ ~ InStall("EXE")
                 THEN [left EXCEPT !["MEM"].in_stall = TRUE] ELSE left
  IN FreedMemory(waiting, MemoryCounter(i))

WritebackStall(i) ==
  LET lowered == [s \in Stages |->
        IF InStall(s) /\ stall[s].reg = i.dest /\ stall[s].hazard_type # "CONTROL"
        THEN [Lowered(s) EXCEPT !.reg = UNDEFINED] ELSE stall[s]]
  IN IF \E s \in {"EXE", "MEM"} : IR(s).dest = i.dest /\ Depends(IR(s), i)
     THEN [lowered EXCEPT !["ID"] = Raised("RAW", i.dest)] ELSE lowered

-----------------------------------------------------------------------------
(* inst_writeback *)

Enter(stage, next) == phase = stage /\ phase' = next

WritebackNothing ==
  /\ Enter("writeback", "memory")
  /\ IR("WB").opcode = "NOP"
  /\ UNCHANGED <<chosen, gp_int, data_memory, total_instr_count, pc, latch, stall,
                 latency, end, stall_put, clock, calls>>

WritebackEnd ==
  /\ Enter("writeback", "memory")
  /\ IR("WB").opcode = "EOP"
  /\ pipe_run' = FALSE
  /\ UNCHANGED <<chosen, gp_int, data_memory, total_instr_count, pc, latch, stall,
                 latency, end, stall_put, clock, cycles>>

\* set_gp_register ignores a destination that is no register.
SetRegister(r, value) ==
  gp_int' = IF r \in DOMAIN gp_int THEN [gp_int EXCEPT ![r] = value] ELSE gp_int

Writeback ==
  /\ Enter("writeback", "memory")
  /\ ~ Idle(IR("WB"))
  /\ CASE IR("WB").opcode = "LW" -> SetRegister(IR("WB").dest, latch["WB"].LMD)
       [] IR("WB").opcode \in Branches \cup {"SW"} -> UNCHANGED gp_int
       [] OTHER -> SetRegister(IR("WB").dest, latch["WB"].ALU_OUTPUT)
  /\ stall' = WritebackStall(IR("WB"))
  /\ total_instr_count' = total_instr_count + 1
  /\ UNCHANGED <<chosen, data_memory, pc, latch, latency, end, stall_put, clock, calls>>

-----------------------------------------------------------------------------
(* inst_memory *)

CheckMemory ==
  /\ Enter("memory", "execute")
  /\ stall' = MemoryStall(IR("MEM"))
  /\ latency' = MemoryCounter(IR("MEM"))
  /\ UNCHANGED <<chosen, gp_int, total_instr_count, pc, end, clock, calls>>

MemoryWait ==
  /\ CheckMemory
  /\ MemoryStall(IR("MEM"))["MEM"].in_stall
  /\ stall_put' = TRUE
  /\ latch' = [latch EXCEPT !["WB"] = Bubble]
  /\ UNCHANGED data_memory

MemoryPass ==
  /\ CheckMemory
  /\ ~ MemoryStall(IR("MEM"))["MEM"].in_stall
  /\ Idle(IR("MEM"))
  /\ latch' = [latch EXCEPT !["WB"] = Clean(IR("MEM"))]
  /\ UNCHANGED <<data_memory, stall_put>>

\* Bytes of data memory that no store has written hold 0xFF.
Loaded(a) == IF a \in DOMAIN data_memory THEN data_memory[a] ELSE UNDEFINED

MemoryAccess ==
  /\ CheckMemory
  /\ ~ MemoryStall(IR("MEM"))["MEM"].in_stall
  /\ ~ Idle(IR("MEM"))
  /\ LET m  == latch["MEM"]
         op == m.ir.opcode
     IN /\ latch' = [latch EXCEPT !["WB"] =
             [Clean(m.ir) EXCEPT !.ALU_OUTPUT = m.ALU_OUTPUT, !.COND = m.COND,
                !.LMD = IF op = "LW" THEN Loaded(m.ALU_OUTPUT) ELSE UNDEFINED]]
        /\ data_memory' = IF op = "SW" /\ m.ALU_OUTPUT \in DOMAIN data_memory
                          THEN [data_memory EXCEPT ![m.ALU_OUTPUT] = m.B]
                          ELSE data_memory
  /\ UNCHANGED stall_put

-----------------------------------------------------------------------------
(* inst_execute *)

\* Mutant: branch targets are computed with more bits than a register has.
aluWide(op, a, b, imm, npc) ==
  IF op \in Branches THEN npc + imm ELSE Wrap(a + imm)

alu(op, a, b, imm, npc) ==
  CASE op \in {"LW", "SW"}             -> Wrap(a + imm)
    [] op \in Branches \cup {"JUMP"}   -> Wrap(npc + imm)
    [] OTHER                           -> Alu(op, a, b, imm, npc)

CheckExecute ==
  /\ Enter("execute", "decode")
  /\ stall' = ExecuteStall
  /\ UNCHANGED <<chosen, gp_int, data_memory, total_instr_count, pc, latency, end,
                 stall_put, clock, calls>>

ExecuteWait ==
  /\ CheckExecute
  /\ ExecuteStall["EXE"].in_stall
  /\ UNCHANGED latch

ExecutePass ==
  /\ CheckExecute
  /\ ~ ExecuteStall["EXE"].in_stall
  /\ Idle(IR("EXE"))
  /\ latch' = [latch EXCEPT !["MEM"] = Clean(IR("EXE"))]

\* branch_pick marks a taken branch by COND = 1.
Condition(op, x) == IF op = "JUMP" \/ Taken(op, x) THEN 1 ELSE UNDEFINED

Execute ==
  /\ CheckExecute
  /\ ~ ExecuteStall["EXE"].in_stall
  /\ ~ Idle(IR("EXE"))
  /\ LET e == latch["EXE"]
     IN latch' = [latch EXCEPT !["MEM"] =
          [Clean(e.ir) EXCEPT !.ALU_OUTPUT = alu(e.ir.opcode, e.A, e.B, e.IMM, e.NPC),
                              !.B = e.B, !.COND = Condition(e.ir.opcode, e.A)]]

-----------------------------------------------------------------------------
(* inst_decode *)

Decoding ==
  /\ Enter("decode", "fetch")
  /\ UNCHANGED <<chosen, gp_int, data_memory, total_instr_count, pc, stall, latency,
                 end, clock, calls>>

\* Mutant: a cycle in which ID waits is not counted as a stall.
DecodeStallUncounted ==
  /\ Decoding
  /\ InStall("ID")
  /\ latch' = [latch EXCEPT !["EXE"] = Bubble]
  /\ UNCHANGED stall_put

DecodeStall ==
  /\ Decoding
  /\ InStall("ID")
  /\ stall_put' = TRUE
  /\ latch' = [latch EXCEPT !["EXE"] = Bubble]

DecodeBlocked ==
  /\ Decoding
  /\ ~ InStall("ID") /\ InStall("EXE")
  /\ UNCHANGED <<latch, stall_put>>

DecodePass ==
  /\ Decoding
  /\ ~ InStall("ID") /\ ~ InStall("EXE")
  /\ Idle(IR("ID"))
  /\ latch' = [latch EXCEPT !["EXE"] = [Clean(IR("ID")) EXCEPT !.NPC =
                 IF IR("ID").opcode = "EOP" THEN latch["ID"].NPC ELSE UNDEFINED]]
  /\ UNCHANGED stall_put

\* Registers that were never written hold UNDEFINED.
Register(r) == IF r \in DOMAIN gp_int THEN gp_int[r] ELSE UNDEFINED

\* The conditional branches leave the switch without reading a register.
Operands(i) ==
  LET immediate == IF i.opcode \in RegisterOps \cup Branches THEN UNDEFINED
                   ELSE i.immediate
      x == CASE i.opcode \in Branches -> UNDEFINED
             [] i.opcode = "SW"       -> Register(i.src2)
             [] OTHER                 -> Register(i.src1)
      y == CASE i.opcode \in RegisterOps -> Register(i.src2)
             [] i.opcode = "SW"          -> Register(i.src1)
             [] OTHER                    -> UNDEFINED
  IN [A |-> x, B |-> y, IMM |-> immediate]

Decode ==
  /\ Decoding
  /\ ~ InStall("ID") /\ ~ InStall("EXE")
  /\ ~ Idle(IR("ID"))
  /\ LET read == Operands(IR("ID"))
     IN latch' = [latch EXCEPT !["EXE"] =
          [Clean(IR("ID")) EXCEPT !.NPC = latch["ID"].NPC, !.A = read.A, !.B = read.B,
                                  !.IMM = read.IMM]]
  /\ UNCHANGED stall_put

-----------------------------------------------------------------------------
(* inst_fetch *)

\* A taken branch in WB names the next instruction.
FetchPC == IF latch["WB"].COND # UNDEFINED THEN latch["WB"].ALU_OUTPUT ELSE pc
Fetched == Instr(FetchPC \div 4)

Fetching ==
  /\ Enter("fetch", "end")
  /\ UNCHANGED <<chosen, gp_int, data_memory, total_instr_count, latency, clock, calls>>

CanFetch == /\ FetchPC \div 4 <= PROGRAM_SIZE
            /\ ~ end
            /\ ~ InStall("ID") /\ ~ InStall("EXE")

FetchNothing ==
  /\ Fetching
  /\ ~ CanFetch
  /\ UNCHANGED <<pc, latch, stall, end, stall_put>>

FetchStall ==
  /\ Fetching
  /\ CanFetch
  /\ InStall("IF")
  /\ stall_put' = TRUE
  /\ stall' = RawStall(Fetched)
  /\ latch' = [latch EXCEPT !["ID"] = Bubble]
  /\ UNCHANGED <<pc, end>>

FetchEnd ==
  /\ Fetching
  /\ CanFetch
  /\ ~ InStall("IF")
  /\ Fetched.opcode = "EOP"
  /\ end' = TRUE
  /\ stall' = RawStall(Fetched)
  /\ latch' = [latch EXCEPT !["ID"] = [Clean(Fetched) EXCEPT !.NPC = FetchPC]]
  /\ UNCHANGED <<pc, stall_put>>

Fetch ==
  /\ Fetching
  /\ CanFetch
  /\ ~ InStall("IF")
  /\ Fetched.opcode # "EOP"
  /\ stall' = ControlStall(RawStall(Fetched), Fetched)
  /\ latch' = [latch EXCEPT !["ID"] = [Clean(Fetched) EXCEPT !.NPC = Wrap(FetchPC + 4)]]
  /\ pc' = Wrap(FetchPC + 4)
  /\ UNCHANGED <<end, stall_put>>

-----------------------------------------------------------------------------
(* run and reset *)

Counted(n) == IF n < MaxCycles THEN n + 1 ELSE n

EndCycle ==
  /\ phase = "end"
  /\ stall_put' = FALSE
  /\ stalls' = IF stall_put THEN Counted(stalls) ELSE stalls
  /\ total_clock_cycle' = Counted(total_clock_cycle)
  /\ cycles' = IF ~ pipe_run /\ cycles > 0 THEN cycles - 1 ELSE cycles
  /\ phase' = IF pipe_run \/ cycles' # 0 THEN "writeback" ELSE "idle"
  /\ UNCHANGED <<chosen, gp_int, data_memory, total_instr_count, pc, latch, stall,
                 latency, end, pipe_run>>

\* The end of the program has reached the last stage.
Ended == phase = "idle" /\ IR("WB").opcode = "EOP"

Run(n) ==
  /\ phase = "idle"
  /\ ~ Ended
  /\ total_clock_cycle < MaxCycles
  /\ pipe_run' = (n = 0)
  /\ cycles' = n
  /\ phase' = "writeback"
  /\ UNCHANGED <<chosen, gp_int, data_memory, total_instr_count, pc, latch, stall,
                 latency, end, stall_put, clock>>

\* hazard_type and reg are read of a raised stall only.
NoStall == [s \in Stages |-> [in_stall |-> FALSE, hazard_type |-> "RAW",
                              reg |-> UNDEFINED]]

\* The memory latency stays, it is an argument of the constructor.
RestartsAt == [l \in {s.latency : s \in Setups} |-> {s \in Restarts : s.latency = l}]

\* reset clears the counter of IF only (memset of one int): latency stays.
Reset ==
  /\ phase = "idle"
  /\ total_clock_cycle >= 0
  /\ \E s \in RestartsAt[data_memory_latency] :
       /\ prog' = s.prog
       /\ gp_int' = s.gp_int
       /\ data_memory' = s.data_memory
  /\ total_instr_count' = 0
  /\ pc' = 0
  /\ latch' = EmptyPipe
  /\ stall' = [s \in Stages |-> Lowered(s)]
  /\ end' = FALSE
  /\ stall_put' = FALSE
  /\ stalls' = 0
  /\ total_clock_cycle' = -1
  /\ UNCHANGED <<data_memory_latency, latency, calls, phase>>

Init ==
  /\ \E s \in Setups : /\ prog = s.prog
                       /\ data_memory_latency = s.latency
                       /\ gp_int = s.gp_int
                       /\ data_memory = s.data_memory
  /\ total_instr_count = 0
  /\ pc = 0
  /\ latch = EmptyPipe
  /\ stall = NoStall
  /\ latency \in Garbage
  /\ end = FALSE
  /\ pipe_run = FALSE
  /\ stall_put = FALSE
  /\ stalls = 0
  /\ total_clock_cycle = -1
  /\ cycles = 0
  /\ phase = "idle"

Step ==
  \/ WritebackNothing \/ WritebackEnd \/ Writeback
  \/ MemoryWait \/ MemoryPass \/ MemoryAccess
  \/ ExecuteWait \/ ExecutePass \/ Execute
  \/ DecodeStall \/ DecodeBlocked \/ DecodePass \/ Decode
  \/ FetchNothing \/ FetchStall \/ FetchEnd \/ Fetch
  \/ EndCycle

Next == Step \/ (\E n \in Calls : Run(n)) \/ Reset

Spec == Init /\ [][Next]_vars

\* run does not wait for anything; its caller may stop calling.
FairSpec == Spec /\ WF_vars(Step)
=============================================================================
