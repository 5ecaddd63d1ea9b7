--------------------------- MODULE IntPipeProofs ---------------------------
(***************************************************************************)
(* The integer pipeline keeps program order and accounts for every cycle,  *)
(* for every program in which no branch is taken.                          *)
(***************************************************************************)
EXTENDS IntPipeProps, IsaProofs

\* A stage is done with its instruction when the stage behind has taken it over;
\* from then on, until it is called again, what it holds is not in flight.
Live(s) ==
  CASE s = "WB"  -> phase # "memory"
    [] s = "MEM" -> (phase = "execute" => InStall("MEM"))
    [] s = "EXE" -> (phase = "decode" => InStall("EXE"))
    [] s = "ID"  -> (phase = "fetch" => (InStall("ID") \/ InStall("EXE")))

Busy(s)    == Live(s) /\ ~ Idle(IR(s))
Nop(s)     == Live(s) /\ IR(s).opcode = "NOP"
Eop(s)     == Live(s) /\ IR(s).opcode = "EOP"
One(b)     == IF b THEN 1 ELSE 0

\* The places of what MEM, EXE and ID hold, and of what IF fetches next.
AtMEM == total_instr_count + One(Busy("WB"))
AtEXE == AtMEM + One(Busy("MEM"))
AtID  == AtEXE + One(Busy("EXE"))
AtIF  == AtID + One(Busy("ID"))

HoldsAt(s, n) == Busy(s) => IR(s) = Instr(n)

-----------------------------------------------------------------------------
(* The invariant *)

Phases == {"idle", "writeback", "memory", "execute", "decode", "fetch", "end"}

Shape ==
  /\ DOMAIN latch = Stages
  /\ \A s \in Stages : IR(s) \in Instruction
  /\ stall \in [Stages -> StallType]
  /\ total_instr_count \in Nat /\ pc \in Nat /\ cycles \in Nat
  /\ latency \in Int /\ stalls \in Int /\ total_clock_cycle \in Int
  /\ end \in BOOLEAN /\ pipe_run \in BOOLEAN /\ stall_put \in BOOLEAN
  /\ phase \in Phases
  /\ \E s \in Setups : prog = s.prog /\ data_memory_latency = s.latency

\* What is in flight is consecutive, and fetch goes on behind it.
Ordered ==
  /\ HoldsAt("WB", total_instr_count)
  /\ HoldsAt("MEM", AtMEM)
  /\ HoldsAt("EXE", AtEXE)
  /\ HoldsAt("ID", AtID)
  /\ pc = 4 * AtIF
  /\ AtIF <= PROGRAM_SIZE

\* MEM stalls for a memory access, and EXE with it.
Waits ==
  /\ InStall("MEM") => MemoryOp(IR("MEM")) /\ latency # 0
  /\ InStall("EXE") => InStall("MEM")
  /\ phase # "execute" => (InStall("MEM") => InStall("EXE"))
  /\ phase = "execute" /\ MemoryOp(IR("MEM")) => (InStall("MEM") <=> latency # 0)
  /\ phase # "memory" /\ InStall("MEM") => IR("WB").opcode = "NOP"
  /\ data_memory_latency = 0 => ~ InStall("MEM")

Straight(i) == i.opcode \notin {"BNEZ", "BLTZ", "BLEZ", "JUMP"}

\* No branch in flight is taken.
NotTaken ==
  /\ \A s \in Stages : latch[s].COND = UNDEFINED /\ Straight(IR(s))
  /\ IR("EXE").opcode \in Branches => latch["EXE"].A = UNDEFINED

\* The end of the program stays in ID, and is the last to be fetched.
EndSeen ==
  /\ end => IR("ID").opcode = "EOP"
  /\ ~ end => \A s \in Stages : IR(s).opcode # "EOP"

\* ID waits for an instruction in flight.
IdStall ==
  InStall("ID") => AtID \in DOMAIN prog /\ Producers(prog, AtID) # {} /\ ~ end

\* What EXE holds when both ID and EXE wait may be lost.
NoClash ==
  phase = "decode" /\ InStall("ID") /\ InStall("EXE") => IR("EXE").opcode = "NOP"

FlowInv ==
  /\ Ordered /\ Waits /\ NotTaken /\ EndSeen
  /\ NoOverwrite(prog) => IdStall
  /\ NoClash

\* Behind the end of the program there is nothing but its end.
Tail ==
  /\ Eop("WB")  => \A s \in {"MEM", "EXE", "ID"} : Live(s) => Eop(s)
  /\ Eop("MEM") => \A s \in {"EXE", "ID"} : Live(s) => Eop(s)
  /\ Eop("EXE") => (Live("ID") => Eop("ID"))

\* inst_writeback has found the end of the program.
Over == IF phase = "idle" THEN IR("WB").opcode = "EOP" ELSE ~ pipe_run /\ cycles = 0

Found ==
  /\ pipe_run => cycles = 0
  /\ phase = "idle" => ~ pipe_run /\ cycles = 0
  /\ phase = "writeback" => ~ Over
  /\ phase # "idle" /\ Over =>
       \A s \in {"WB", "MEM", "EXE", "ID"} : Live(s) => Eop(s)

\* When the cycle at hand has been marked as a stall.
Put ==
  /\ phase \in {"idle", "writeback", "memory"} => ~ stall_put
  /\ phase \in {"execute", "decode"} => (stall_put <=> InStall("MEM"))
  /\ phase = "fetch" => (stall_put <=> (InStall("EXE") \/ InStall("ID")))

Bubbles == One(Nop("WB")) + One(Nop("MEM")) + One(Nop("EXE")) + One(Nop("ID"))

\* Every cycle but the first ones has retired an instruction or put a bubble.
Accounted ==
  ~ Over =>
    total_clock_cycle + 1 + Bubbles =
      total_instr_count + stalls + One(stall_put)
        + (IF phase \in {"idle", "writeback"} THEN 4 ELSE 3)

CountInv == Tail /\ Found /\ Put /\ Accounted

-----------------------------------------------------------------------------
(* The operators of the model *)

LEMMA BlankIs ==
  ASSUME NEW op \in Opcodes
  PROVE  /\ Blank(op) \in Instruction /\ Blank(op).opcode = op
         /\ Blank(op).src1 = UNDEFINED /\ Blank(op).src2 = UNDEFINED
         /\ Blank(op).dest = UNDEFINED
  BY UndefinedWord DEF Blank, Instruction

LEMMA BlankNop == /\ Blank("NOP") \in Instruction /\ Blank("NOP").opcode = "NOP"
                  /\ Idle(Blank("NOP"))
  BY BlankIs DEF Idle, Opcodes

LEMMA BlankEop == /\ Blank("EOP") \in Instruction /\ Blank("EOP").opcode = "EOP"
                  /\ Idle(Blank("EOP"))
  BY BlankIs DEF Idle, Opcodes

LEMMA InstrIs ==
  ASSUME ProgramsGiven, Shape, NEW n
  PROVE  /\ Instr(n) \in Instruction
         /\ n \in DOMAIN prog => Instr(n) = prog[n]
         /\ n \notin DOMAIN prog => Instr(n) = Blank("EOP")
  BY BlankEop DEF ProgramsGiven, Shape, Instr

LEMMA CleanIs == \A i : Clean(i).ir = i /\ Clean(i).COND = UNDEFINED
  BY DEF Clean

\* A stall that is raised, and one that is lowered.
LEMMA StallTypes ==
  /\ \A reg \in Word : \A t \in {"RAW", "STRUCTURAL", "CONTROL"} :
       /\ Raised(t, reg) \in StallType
       /\ Raised(t, reg).in_stall
  /\ \A st \in StallType : /\ [st EXCEPT !.in_stall = FALSE] \in StallType
                           /\ [st EXCEPT !.in_stall = TRUE] \in StallType
                           /\ [st EXCEPT !.in_stall = FALSE].in_stall = FALSE
                           /\ [st EXCEPT !.in_stall = TRUE].in_stall = TRUE
  /\ \A st \in StallType : st.in_stall \in BOOLEAN
  BY DEF Raised, StallType

LEMMA FreedMemoryIs ==
  ASSUME NEW st \in [Stages -> StallType], NEW c \in Int
  PROVE  /\ FreedMemory(st, c) \in [Stages -> StallType]
         /\ \A s \in {"EXE", "MEM"} :
              FreedMemory(st, c)[s].in_stall <=> c # 0 /\ st[s].in_stall
         /\ \A s \in {"IF", "ID", "WB"} : FreedMemory(st, c)[s] = st[s]
<1>1. CASE c # 0
  BY <1>1, StallTypes DEF FreedMemory, Stages
<1>2. CASE c = 0
  <2>1. FreedMemory(st, c) = [s \in Stages |->
          IF s \in {"EXE", "MEM"} THEN [st[s] EXCEPT !.in_stall = FALSE] ELSE st[s]]
    BY <1>2 DEF FreedMemory
  <2>2. \A s \in Stages : /\ st[s] \in StallType
                          /\ [st[s] EXCEPT !.in_stall = FALSE] \in StallType
                          /\ [st[s] EXCEPT !.in_stall = FALSE].in_stall = FALSE
    BY StallTypes
  <2>3. \A s \in Stages : FreedMemory(st, c)[s] \in StallType
    BY <2>1, <2>2
  <2>4. \A s \in {"EXE", "MEM"} : FreedMemory(st, c)[s].in_stall = FALSE
    BY <2>1, <2>2 DEF Stages
  <2>5. \A s \in {"IF", "ID", "WB"} : FreedMemory(st, c)[s] = st[s]
    BY <2>1 DEF Stages
  <2>6. FreedMemory(st, c) \in [Stages -> StallType]
    BY <2>1, <2>3
  <2> QED
    BY <1>2, <2>4, <2>5, <2>6
<1> QED
  BY <1>1, <1>2

LEMMA RawStallIs ==
  ASSUME Shape, NEW i \in Instruction
  PROVE  /\ RawStall(i) \in [Stages -> StallType]
         /\ \A s \in Stages \ {"ID"} : RawStall(i)[s] = stall[s]
         /\ RawStall(i)["ID"].in_stall <=>
              InStall("ID") \/ \E s \in {"EXE", "MEM", "WB"} : Depends(IR(s), i)
<1> DEFINE producers == {s \in {"EXE", "MEM", "WB"} : Depends(IR(s), i)}
           kept == IF "WB" \in producers THEN "WB"
                   ELSE IF "MEM" \in producers THEN "MEM" ELSE "EXE"
<1>1. stall \in [Stages -> StallType] /\ kept \in Stages
  BY DEF Shape, Stages
<1>2. IR(kept).dest \in Word
  BY <1>1 DEF Shape, Instruction
<1>3. /\ Raised("RAW", IR(kept).dest) \in StallType
      /\ Raised("RAW", IR(kept).dest).in_stall
  BY <1>2, StallTypes
<1>4. RawStall(i) = IF producers = {} THEN stall
                    ELSE [stall EXCEPT !["ID"] = Raised("RAW", IR(kept).dest)]
  BY DEF RawStall
<1> HIDE DEF kept
<1>5. CASE producers = {}
  BY <1>1, <1>4, <1>5 DEF InStall
<1>6. CASE producers # {}
  <2>1. RawStall(i) = [stall EXCEPT !["ID"] = Raised("RAW", IR(kept).dest)]
    BY <1>4, <1>6
  <2>2. \E s \in {"EXE", "MEM", "WB"} : Depends(IR(s), i)
    BY <1>6
  <2> QED
    BY <1>1, <1>3, <2>1, <2>2 DEF Stages
<1> QED
  BY <1>5, <1>6

LEMMA ControlStallIs ==
  ASSUME NEW st \in [Stages -> StallType], NEW i \in Instruction
  PROVE  /\ ControlStall(st, i) \in [Stages -> StallType]
         /\ \A s \in Stages \ {"IF"} : ControlStall(st, i)[s] = st[s]
<1>1. Raised("CONTROL", i.src1) \in StallType
  BY StallTypes DEF Instruction
<1> QED
  BY <1>1 DEF ControlStall, Stages

LEMMA ExecuteStallIs ==
  ASSUME Shape
  PROVE  /\ ExecuteStall \in [Stages -> StallType]
         /\ ExecuteStall["ID"] = stall["ID"]
         /\ ExecuteStall["EXE"].in_stall <=>
              latency # 0 /\ (InStall("EXE") \/ MemoryOp(IR("MEM")))
         /\ ExecuteStall["MEM"].in_stall <=> latency # 0 /\ InStall("MEM")
<1> DEFINE st == IF MemoryOp(IR("MEM"))
                 THEN [stall EXCEPT !["EXE"] = Raised("STRUCTURAL", UNDEFINED)]
                 ELSE stall
<1>1. /\ Raised("STRUCTURAL", UNDEFINED) \in StallType
      /\ Raised("STRUCTURAL", UNDEFINED).in_stall
  BY StallTypes, UndefinedWord
<1>2. /\ st \in [Stages -> StallType]
      /\ st["ID"] = stall["ID"] /\ st["MEM"] = stall["MEM"]
      /\ st["EXE"].in_stall <=> InStall("EXE") \/ MemoryOp(IR("MEM"))
  BY <1>1 DEF Shape, Stages, InStall
<1>3. ExecuteStall = FreedMemory(st, latency) /\ latency \in Int
  BY DEF ExecuteStall, Shape
<1> HIDE DEF st
<1> QED
  BY <1>2, <1>3, FreedMemoryIs DEF InStall

LEMMA MemoryStallIs ==
  ASSUME Shape, NEW i \in Instruction, data_memory_latency \in Int
  PROVE  /\ MemoryCounter(i) \in Int
         /\ MemoryStall(i) \in [Stages -> StallType]
         /\ MemoryStall(i)["ID"] = stall["ID"]
         /\ MemoryStall(i)["EXE"].in_stall <=> MemoryCounter(i) # 0 /\ InStall("EXE")
         /\ MemoryStall(i)["MEM"].in_stall <=>
              /\ MemoryCounter(i) # 0
              /\ InStall("MEM") \/ (MemoryOp(i) /\ ~ InStall("EXE"))
<1> DEFINE left == BranchLeaves(i)
           waiting == IF MemoryOp(i) /\ ~ InStall("EXE")
                      THEN [left EXCEPT !["MEM"].in_stall = TRUE] ELSE left
<1>1. MemoryCounter(i) \in Int
  BY DEF MemoryCounter, Shape
<1>2. stall \in [Stages -> StallType]
  BY DEF Shape
<1>3. left \in [Stages -> StallType] /\ \A s \in Stages \ {"IF"} : left[s] = stall[s]
  <2>1. \A st \in StallType :
          [st EXCEPT !.in_stall = FALSE, !.reg = UNDEFINED] \in StallType
    BY UndefinedWord DEF StallType
  <2>2. CASE StallsFetch(i)
    <3>1. left = [stall EXCEPT !["IF"] =
                   [stall["IF"] EXCEPT !.in_stall = FALSE, !.reg = UNDEFINED]]
      BY <1>2, <2>2 DEF BranchLeaves, StallType, Stages
    <3> QED
      BY <1>2, <2>1, <3>1 DEF Stages
  <2>3. CASE ~ StallsFetch(i)
    BY <1>2, <2>3 DEF BranchLeaves
  <2> QED
    BY <2>2, <2>3
<1> HIDE DEF left
<1>4. /\ waiting \in [Stages -> StallType]
      /\ waiting["ID"] = stall["ID"] /\ waiting["EXE"] = stall["EXE"]
      /\ waiting["MEM"].in_stall <=>
           InStall("MEM") \/ (MemoryOp(i) /\ ~ InStall("EXE"))
  <2>1. CASE MemoryOp(i) /\ ~ InStall("EXE")
    <3>1. waiting = [left EXCEPT !["MEM"] = [left["MEM"] EXCEPT !.in_stall = TRUE]]
      BY <2>1, <1>3
    <3> QED
      BY <1>3, <2>1, <3>1, StallTypes DEF Stages
  <2>2. CASE ~ (MemoryOp(i) /\ ~ InStall("EXE"))
    BY <1>3, <2>2 DEF Stages, InStall
  <2> QED
    BY <2>1, <2>2
<1>5. MemoryStall(i) = FreedMemory(waiting, MemoryCounter(i))
  BY DEF MemoryStall, left
<1> HIDE DEF waiting
<1> QED
  BY <1>1, <1>4, <1>5, FreedMemoryIs DEF InStall

\* Writing back raises a stall of ID only when another writer of the register is
\* behind, and the instruction reads it.
LEMMA WritebackStallIs ==
  ASSUME Shape, NEW i \in Instruction
  PROVE  /\ WritebackStall(i) \in [Stages -> StallType]
         /\ \A s \in Stages \ {"ID"} : WritebackStall(i)[s].in_stall => InStall(s)
         /\ WritebackStall(i)["ID"].in_stall =>
              \/ InStall("ID")
              \/ \E s \in {"EXE", "MEM"} : IR(s).dest = i.dest /\ Depends(IR(s), i)
<1> DEFINE lowered == [s \in Stages |->
              IF InStall(s) /\ stall[s].reg = i.dest /\ stall[s].hazard_type # "CONTROL"
              THEN [Lowered(s) EXCEPT !.reg = UNDEFINED] ELSE stall[s]]
           raised == \E s \in {"EXE", "MEM"} : IR(s).dest = i.dest /\ Depends(IR(s), i)
<1>1. stall \in [Stages -> StallType]
  BY DEF Shape
<1>2. \A st \in StallType :
        /\ [[st EXCEPT !.in_stall = FALSE] EXCEPT !.reg = UNDEFINED] \in StallType
        /\ [[st EXCEPT !.in_stall = FALSE] EXCEPT !.reg = UNDEFINED].in_stall = FALSE
  BY UndefinedWord DEF StallType
<1>3. \A s \in Stages : /\ lowered[s] \in StallType
                        /\ lowered[s].in_stall => InStall(s)
  BY <1>1, <1>2 DEF Lowered, InStall
<1>4. lowered \in [Stages -> StallType]
  BY <1>3
<1>5. Raised("RAW", i.dest) \in StallType
  BY StallTypes DEF Instruction
<1>6. WritebackStall(i) = IF raised THEN [lowered EXCEPT !["ID"] = Raised("RAW", i.dest)]
                          ELSE lowered
  BY DEF WritebackStall
<1> HIDE DEF lowered
<1>7. CASE raised
  BY <1>3, <1>4, <1>5, <1>6, <1>7 DEF Stages
<1>8. CASE ~ raised
  BY <1>3, <1>4, <1>6, <1>8 DEF Stages
<1> QED
  BY <1>7, <1>8

-----------------------------------------------------------------------------
(* What each stage does to what is in flight, whichever way is taken through it *)

Kept == <<prog, data_memory_latency, stalls, total_clock_cycle, cycles>>

WritebackMove ==
  /\ phase = "writeback" /\ phase' = "memory"
  /\ latch' = latch
  /\ total_instr_count' = total_instr_count + Filled("WB")
  /\ pipe_run' = (pipe_run /\ IR("WB").opcode # "EOP")
  /\ stall' \in [Stages -> StallType]
  /\ Idle(IR("WB")) => stall' = stall
  /\ InStall("MEM")' => InStall("MEM")
  /\ InStall("EXE")' => InStall("EXE")
  /\ InStall("ID")' =>
       \/ InStall("ID")
       \/ /\ ~ Idle(IR("WB"))
          /\ \E s \in {"EXE", "MEM"} :
               IR(s).dest = IR("WB").dest /\ Depends(IR(s), IR("WB"))
  /\ UNCHANGED <<Kept, pc, latency, end, stall_put>>

MemoryMove ==
  /\ phase = "memory" /\ phase' = "execute"
  /\ DOMAIN latch' = Stages
  /\ \A s \in Stages \ {"WB"} : latch'[s] = latch[s]
  /\ IR("WB")' = IF InStall("MEM")' THEN Blank("NOP") ELSE IR("MEM")
  /\ latch'["WB"].COND \in {UNDEFINED, latch["MEM"].COND}
  /\ stall' \in [Stages -> StallType]
  /\ latency' = MemoryCounter(IR("MEM")) /\ latency' \in Int
  /\ InStall("ID")' = InStall("ID")
  /\ InStall("EXE")' <=> latency' # 0 /\ InStall("EXE")
  /\ InStall("MEM")' <=> /\ latency' # 0
                         /\ InStall("MEM") \/ (MemoryOp(IR("MEM")) /\ ~ InStall("EXE"))
  /\ stall_put' = (stall_put \/ InStall("MEM")')
  /\ UNCHANGED <<Kept, total_instr_count, pc, end, pipe_run>>

ExecuteMove ==
  /\ phase = "execute" /\ phase' = "decode"
  /\ DOMAIN latch' = Stages
  /\ \A s \in Stages \ {"MEM"} : latch'[s] = latch[s]
  /\ IR("MEM")' = IF InStall("EXE")' THEN IR("MEM") ELSE IR("EXE")
  /\ latch'["MEM"].COND \in {UNDEFINED, latch["MEM"].COND,
                             Condition(IR("EXE").opcode, latch["EXE"].A)}
  /\ stall' \in [Stages -> StallType]
  /\ InStall("ID")' = InStall("ID")
  /\ InStall("EXE")' <=> latency # 0 /\ (InStall("EXE") \/ MemoryOp(IR("MEM")))
  /\ InStall("MEM")' <=> latency # 0 /\ InStall("MEM")
  /\ UNCHANGED <<Kept, total_instr_count, pc, latency, end, pipe_run, stall_put>>

DecodeMove ==
  /\ phase = "decode" /\ phase' = "fetch"
  /\ DOMAIN latch' = Stages
  /\ \A s \in Stages \ {"EXE"} : latch'[s] = latch[s]
  /\ IR("EXE")' = IF InStall("ID") THEN Blank("NOP")
                  ELSE IF InStall("EXE") THEN IR("EXE") ELSE IR("ID")
  /\ latch'["EXE"].COND \in {UNDEFINED, latch["EXE"].COND}
  /\ IR("EXE")'.opcode \in Branches =>
       latch'["EXE"].A = IF InStall("EXE") THEN latch["EXE"].A ELSE UNDEFINED
  /\ stall_put' = (stall_put \/ InStall("ID"))
  /\ UNCHANGED <<Kept, stall, total_instr_count, pc, latency, end, pipe_run>>

\* Fetch, when no branch is taken.
FetchMove ==
  /\ phase = "fetch" /\ phase' = "end"
  /\ DOMAIN latch' = Stages
  /\ \A s \in Stages \ {"ID"} : latch'[s] = latch[s]
  /\ latch'["ID"].COND \in {UNDEFINED, latch["ID"].COND}
  /\ stall' \in [Stages -> StallType]
  /\ InStall("MEM")' = InStall("MEM")
  /\ InStall("EXE")' = InStall("EXE")
  /\ UNCHANGED <<Kept, total_instr_count, latency, pipe_run>>
  /\ \/ /\ ~ CanFetch
        /\ UNCHANGED <<pc, latch, stall, end, stall_put>>
     \/ /\ CanFetch
        /\ InStall("ID")' <=> \E s \in {"EXE", "MEM", "WB"} : Depends(IR(s), Fetched)
        /\ \/ /\ IR("ID")' = Blank("NOP") /\ stall_put' = TRUE
              /\ UNCHANGED <<pc, end>>
           \/ /\ Fetched.opcode = "EOP"
              /\ IR("ID")' = Fetched /\ end' = TRUE
              /\ UNCHANGED <<pc, stall_put>>
           \/ /\ Fetched.opcode # "EOP"
              /\ IR("ID")' = Fetched /\ pc' = Wrap(FetchPC + 4)
              /\ UNCHANGED <<end, stall_put>>

LEMMA WritebackMoves ==
  ASSUME Shape, WritebackNothing \/ WritebackEnd \/ Writeback
  PROVE  WritebackMove
<1>1. CASE WritebackNothing
  <2>1. Idle(IR("WB")) /\ Filled("WB") = 0 /\ total_instr_count \in Nat
    BY <1>1 DEF WritebackNothing, Idle, Filled, Shape
  <2> QED
    BY <1>1, <2>1 DEF WritebackNothing, WritebackMove, Kept, Enter, chosen, clock, calls,
       InStall, Shape
<1>2. CASE WritebackEnd
  <2>1. Idle(IR("WB")) /\ Filled("WB") = 0 /\ total_instr_count \in Nat
    BY <1>2 DEF WritebackEnd, Idle, Filled, Shape
  <2>2. pipe_run' = (pipe_run /\ IR("WB").opcode # "EOP")
    BY <1>2 DEF WritebackEnd
  <2> QED
    BY <1>2, <2>1, <2>2 DEF WritebackEnd, WritebackMove, Kept, Enter, chosen, clock, calls,
       InStall, Shape
<1>3. CASE Writeback
  <2>1. ~ Idle(IR("WB")) /\ Filled("WB") = 1 /\ IR("WB").opcode # "EOP"
    BY <1>3 DEF Writeback, Idle, Filled
  <2>2. IR("WB") \in Instruction
    BY DEF Shape, Stages
  <2>3. stall' = WritebackStall(IR("WB"))
    BY <1>3 DEF Writeback
  <2>4. /\ stall' \in [Stages -> StallType]
        /\ InStall("MEM")' => InStall("MEM")
        /\ InStall("EXE")' => InStall("EXE")
        /\ InStall("ID")' =>
             \/ InStall("ID")
             \/ \E s \in {"EXE", "MEM"} :
                  IR(s).dest = IR("WB").dest /\ Depends(IR(s), IR("WB"))
    BY <2>2, <2>3, WritebackStallIs DEF InStall, Stages
  <2> QED
    BY <1>3, <2>1, <2>4 DEF Writeback, WritebackMove, Kept, Enter, chosen, clock, calls,
       Shape
<1> QED
  BY <1>1, <1>2, <1>3

LEMMA LatencyInt == Shape => data_memory_latency \in Int
  BY IntPipeAssumption DEF Shape

LEMMA MemoryMoves ==
  ASSUME Shape, MemoryWait \/ MemoryPass \/ MemoryAccess
  PROVE  MemoryMove
<1>1. IR("MEM") \in Instruction /\ DOMAIN latch = Stages
  BY DEF Shape, Stages
<1>2. CheckMemory /\ stall' = MemoryStall(IR("MEM")) /\ latency' = MemoryCounter(IR("MEM"))
  BY DEF MemoryWait, MemoryPass, MemoryAccess, CheckMemory
<1>3. /\ latency' \in Int
      /\ stall' \in [Stages -> StallType]
      /\ InStall("ID")' = InStall("ID")
      /\ InStall("EXE")' <=> latency' # 0 /\ InStall("EXE")
      /\ InStall("MEM")' <=>
           /\ latency' # 0
           /\ InStall("MEM") \/ (MemoryOp(IR("MEM")) /\ ~ InStall("EXE"))
  BY <1>1, <1>2, MemoryStallIs, LatencyInt DEF InStall
<1>4. /\ DOMAIN latch' = Stages
      /\ \A s \in Stages \ {"WB"} : latch'[s] = latch[s]
      /\ IR("WB")' = IF InStall("MEM")' THEN Blank("NOP") ELSE IR("MEM")
      /\ latch'["WB"].COND \in {UNDEFINED, latch["MEM"].COND}
      /\ stall_put' = (stall_put \/ InStall("MEM")')
  <2>1. stall_put \in BOOLEAN /\ "WB" \in Stages
    BY DEF Shape, Stages
  <2>2. CASE MemoryWait
    <3>1. /\ InStall("MEM")' /\ stall_put' = TRUE
          /\ latch' = [latch EXCEPT !["WB"] = Clean(Blank("NOP"))]
      BY <1>2, <2>2 DEF MemoryWait, Bubble, InStall
    <3> QED
      BY <1>1, <2>1, <3>1, CleanIs DEF IR
  <2>3. CASE MemoryPass
    <3>1. /\ ~ InStall("MEM")' /\ stall_put' = stall_put
          /\ latch' = [latch EXCEPT !["WB"] = Clean(IR("MEM"))]
      BY <1>2, <2>3 DEF MemoryPass, InStall
    <3> QED
      BY <1>1, <2>1, <3>1, CleanIs DEF IR
  <2>4. CASE MemoryAccess
    <3>1. PICK x, c : /\ ~ InStall("MEM")' /\ stall_put' = stall_put
                      /\ latch' = [latch EXCEPT !["WB"] =
                           [Clean(IR("MEM")) EXCEPT !.ALU_OUTPUT = x,
                              !.COND = latch["MEM"].COND, !.LMD = c]]
      BY <1>2, <2>4 DEF MemoryAccess, InStall, IR
    <3>2. LET r == [Clean(IR("MEM")) EXCEPT !.ALU_OUTPUT = x,
                       !.COND = latch["MEM"].COND, !.LMD = c]
          IN r.ir = IR("MEM") /\ r.COND = latch["MEM"].COND
      BY DEF Clean
    <3> QED
      BY <1>1, <2>1, <3>1, <3>2 DEF IR
  <2> QED
    BY <2>2, <2>3, <2>4
<1> QED
  BY <1>2, <1>3, <1>4 DEF MemoryMove, CheckMemory, Enter, Kept, chosen, clock, calls

LEMMA ExecuteMoves ==
  ASSUME Shape, ExecuteWait \/ ExecutePass \/ Execute
  PROVE  ExecuteMove
<1>1. DOMAIN latch = Stages /\ "MEM" \in Stages
  BY DEF Shape, Stages
<1>2. CheckExecute /\ stall' = ExecuteStall
  BY DEF ExecuteWait, ExecutePass, Execute, CheckExecute
<1>3. /\ stall' \in [Stages -> StallType]
      /\ InStall("ID")' = InStall("ID")
      /\ InStall("EXE")' <=> latency # 0 /\ (InStall("EXE") \/ MemoryOp(IR("MEM")))
      /\ InStall("MEM")' <=> latency # 0 /\ InStall("MEM")
  BY <1>2, ExecuteStallIs DEF InStall
<1>4. /\ DOMAIN latch' = Stages
      /\ \A s \in Stages \ {"MEM"} : latch'[s] = latch[s]
      /\ IR("MEM")' = IF InStall("EXE")' THEN IR("MEM") ELSE IR("EXE")
      /\ latch'["MEM"].COND \in {UNDEFINED, latch["MEM"].COND,
                                 Condition(IR("EXE").opcode, latch["EXE"].A)}
  <2>1. CASE ExecuteWait
    <3>1. InStall("EXE")' /\ latch' = latch
      BY <1>2, <2>1 DEF ExecuteWait, InStall
    <3> QED
      BY <1>1, <3>1 DEF IR
  <2>2. CASE ExecutePass
    <3>1. /\ ~ InStall("EXE")'
          /\ latch' = [latch EXCEPT !["MEM"] = Clean(IR("EXE"))]
      BY <1>2, <2>2 DEF ExecutePass, InStall
    <3> QED
      BY <1>1, <3>1, CleanIs DEF IR
  <2>3. CASE Execute
    <3>1. PICK x, b : /\ ~ InStall("EXE")'
                      /\ latch' = [latch EXCEPT !["MEM"] =
                           [Clean(IR("EXE")) EXCEPT !.ALU_OUTPUT = x, !.B = b,
                              !.COND = Condition(IR("EXE").opcode, latch["EXE"].A)]]
      BY <1>2, <2>3 DEF Execute, InStall, IR
    <3>2. LET r == [Clean(IR("EXE")) EXCEPT !.ALU_OUTPUT = x, !.B = b,
                       !.COND = Condition(IR("EXE").opcode, latch["EXE"].A)]
          IN r.ir = IR("EXE") /\ r.COND = Condition(IR("EXE").opcode, latch["EXE"].A)
      BY DEF Clean
    <3> QED
      BY <1>1, <3>1, <3>2 DEF IR
  <2> QED
    BY <2>1, <2>2, <2>3
<1> QED
  BY <1>2, <1>3, <1>4 DEF ExecuteMove, CheckExecute, Enter, Kept, chosen, clock, calls

LEMMA DecodeMoves ==
  ASSUME Shape, DecodeStall \/ DecodeBlocked \/ DecodePass \/ Decode
  PROVE  DecodeMove
<1>1. DOMAIN latch = Stages /\ "EXE" \in Stages
  BY DEF Shape, Stages
<1>2. Decoding
  BY DEF DecodeStall, DecodeBlocked, DecodePass, Decode
<1>3. stall_put \in BOOLEAN /\ InStall("ID") \in BOOLEAN /\ InStall("EXE") \in BOOLEAN
  BY StallTypes DEF Shape, InStall, Stages
<1>4. /\ DOMAIN latch' = Stages
      /\ \A s \in Stages \ {"EXE"} : latch'[s] = latch[s]
      /\ IR("EXE")' = IF InStall("ID") THEN Blank("NOP")
                      ELSE IF InStall("EXE") THEN IR("EXE") ELSE IR("ID")
      /\ latch'["EXE"].COND \in {UNDEFINED, latch["EXE"].COND}
      /\ IR("EXE")'.opcode \in Branches =>
           latch'["EXE"].A = IF InStall("EXE") THEN latch["EXE"].A ELSE UNDEFINED
      /\ stall_put' = (stall_put \/ InStall("ID"))
  <2>1. CASE DecodeStall
    <3>1. /\ InStall("ID") /\ stall_put' = TRUE
          /\ latch' = [latch EXCEPT !["EXE"] = Clean(Blank("NOP"))]
      BY <2>1 DEF DecodeStall, Bubble
    <3>2. "NOP" \notin Branches
      BY DEF Branches
    <3> QED
      BY <1>1, <3>1, <3>2, CleanIs, BlankNop DEF IR
  <2>2. CASE DecodeBlocked
    BY <1>1, <1>3, <2>2 DEF DecodeBlocked, IR
  <2>3. CASE DecodePass
    <3>1. PICK x : /\ ~ InStall("ID") /\ ~ InStall("EXE") /\ stall_put' = stall_put
                   /\ Idle(IR("ID"))
                   /\ latch' = [latch EXCEPT !["EXE"] = [Clean(IR("ID")) EXCEPT !.NPC = x]]
      BY <2>3 DEF DecodePass
    <3>2. LET r == [Clean(IR("ID")) EXCEPT !.NPC = x]
          IN r.ir = IR("ID") /\ r.COND = UNDEFINED
      BY DEF Clean
    <3>3. IR("ID").opcode \notin Branches
      BY <3>1 DEF Idle, Branches
    <3> QED
      BY <1>1, <1>3, <3>1, <3>2, <3>3 DEF IR
  <2>4. CASE Decode
    <3> DEFINE read == Operands(IR("ID"))
    <3>1. /\ ~ InStall("ID") /\ ~ InStall("EXE") /\ stall_put' = stall_put
          /\ latch' = [latch EXCEPT !["EXE"] =
               [Clean(IR("ID")) EXCEPT !.NPC = latch["ID"].NPC, !.A = read.A, !.B = read.B,
                                       !.IMM = read.IMM]]
      BY <2>4 DEF Decode
    <3>2. IR("ID").opcode \in Branches => read.A = UNDEFINED
      BY DEF Operands, Branches, RegisterOps
    <3> HIDE DEF read
    <3>3. LET r == [Clean(IR("ID")) EXCEPT !.NPC = latch["ID"].NPC, !.A = read.A,
                                           !.B = read.B, !.IMM = read.IMM]
          IN r.ir = IR("ID") /\ r.COND = UNDEFINED /\ r.A = read.A
      BY DEF Clean
    <3> QED
      BY <1>1, <1>3, <3>1, <3>2, <3>3 DEF IR
  <2> QED
    BY <2>1, <2>2, <2>3, <2>4
<1> QED
  BY <1>2, <1>4 DEF DecodeMove, Decoding, Enter, Kept, chosen, clock, calls

LEMMA FetchMoves ==
  ASSUME ProgramsGiven, Shape, FetchNothing \/ FetchStall \/ FetchEnd \/ Fetch
  PROVE  FetchMove
<1>1. DOMAIN latch = Stages /\ "ID" \in Stages /\ stall \in [Stages -> StallType]
  BY DEF Shape, Stages
<1>2. Fetching
  BY DEF FetchNothing, FetchStall, FetchEnd, Fetch
<1>3. /\ phase = "fetch" /\ phase' = "end"
      /\ UNCHANGED <<Kept, total_instr_count, latency, pipe_run>>
  BY <1>2 DEF Fetching, Enter, Kept, chosen, clock, calls
<1>4. CASE FetchNothing
  BY <1>1, <1>3, <1>4 DEF FetchNothing, FetchMove, InStall
<1>5. Fetched \in Instruction
  BY InstrIs DEF Fetched
<1>6. CanFetch => ~ InStall("ID")
  BY DEF CanFetch
<1>7. ASSUME NEW st \in [Stages -> StallType], stall' = st,
             \A s \in Stages \ {"IF"} : st[s] = RawStall(Fetched)[s], CanFetch
      PROVE  /\ stall' \in [Stages -> StallType]
             /\ InStall("MEM")' = InStall("MEM")
             /\ InStall("EXE")' = InStall("EXE")
             /\ InStall("ID")' <=> \E s \in {"EXE", "MEM", "WB"} : Depends(IR(s), Fetched)
  BY <1>5, <1>6, <1>7, RawStallIs DEF InStall, Stages
<1>8. RawStall(Fetched) \in [Stages -> StallType]
  BY <1>5, RawStallIs
<1>9. CASE FetchStall
  <2>1. /\ CanFetch /\ stall' = RawStall(Fetched) /\ stall_put' = TRUE
        /\ latch' = [latch EXCEPT !["ID"] = Clean(Blank("NOP"))]
        /\ UNCHANGED <<pc, end>>
    BY <1>9 DEF FetchStall, Bubble
  <2> QED
    BY <1>1, <1>3, <1>7, <1>8, <2>1, CleanIs DEF FetchMove, IR
<1>10. CASE FetchEnd
  <2>1. /\ CanFetch /\ stall' = RawStall(Fetched) /\ Fetched.opcode = "EOP" /\ end' = TRUE
        /\ latch' = [latch EXCEPT !["ID"] = [Clean(Fetched) EXCEPT !.NPC = FetchPC]]
        /\ UNCHANGED <<pc, stall_put>>
    BY <1>10 DEF FetchEnd
  <2>2. LET r == [Clean(Fetched) EXCEPT !.NPC = FetchPC]
        IN r.ir = Fetched /\ r.COND = UNDEFINED
    BY DEF Clean
  <2> QED
    BY <1>1, <1>3, <1>7, <1>8, <2>1, <2>2 DEF FetchMove, IR
<1>11. CASE Fetch
  <2>1. /\ CanFetch /\ stall' = ControlStall(RawStall(Fetched), Fetched)
        /\ Fetched.opcode # "EOP" /\ pc' = Wrap(FetchPC + 4)
        /\ latch' = [latch EXCEPT !["ID"] = [Clean(Fetched) EXCEPT !.NPC = Wrap(FetchPC + 4)]]
        /\ UNCHANGED <<end, stall_put>>
    BY <1>11 DEF Fetch
  <2>2. LET r == [Clean(Fetched) EXCEPT !.NPC = Wrap(FetchPC + 4)]
        IN r.ir = Fetched /\ r.COND = UNDEFINED
    BY DEF Clean
  <2>3. /\ ControlStall(RawStall(Fetched), Fetched) \in [Stages -> StallType]
        /\ \A s \in Stages \ {"IF"} :
             ControlStall(RawStall(Fetched), Fetched)[s] = RawStall(Fetched)[s]
    BY <1>5, <1>8, ControlStallIs
  <2>4. /\ stall' \in [Stages -> StallType]
        /\ InStall("MEM")' = InStall("MEM")
        /\ InStall("EXE")' = InStall("EXE")
        /\ InStall("ID")' <=> \E s \in {"EXE", "MEM", "WB"} : Depends(IR(s), Fetched)
    BY <1>7, <2>1, <2>3
  <2> QED
    BY <1>1, <1>3, <2>1, <2>2, <2>4 DEF FetchMove, IR
<1> QED
  BY <1>4, <1>9, <1>10, <1>11

-----------------------------------------------------------------------------
(* The shape of the state *)

Move == \/ WritebackMove \/ MemoryMove \/ ExecuteMove \/ DecodeMove \/ FetchMove

LEMMA StepMoves ==
  ASSUME ProgramsGiven, Shape, Step
  PROVE  Move \/ EndCycle
  BY WritebackMoves, MemoryMoves, ExecuteMoves, DecodeMoves, FetchMoves DEF Step, Move

LEMMA MoveShape ==
  ASSUME ProgramsGiven, Shape, FetchPC \in Int, Move
  PROVE  Shape'
<1>1. /\ DOMAIN latch = Stages
      /\ \A s \in Stages : IR(s) \in Instruction
      /\ stall \in [Stages -> StallType]
      /\ total_instr_count \in Nat /\ pc \in Nat /\ cycles \in Nat
      /\ latency \in Int /\ stalls \in Int /\ total_clock_cycle \in Int
      /\ end \in BOOLEAN /\ pipe_run \in BOOLEAN /\ stall_put \in BOOLEAN
  BY DEF Shape
<1>2. \E s \in Setups : prog' = s.prog /\ data_memory_latency' = s.latency
  <2>1. UNCHANGED Kept
    BY DEF Move, WritebackMove, MemoryMove, ExecuteMove, DecodeMove, FetchMove
  <2> QED
    BY <2>1 DEF Kept, Shape
<1>3. Fetched \in Instruction
  BY InstrIs DEF Fetched
<1>4. phase' \in Phases
  BY DEF Move, WritebackMove, MemoryMove, ExecuteMove, DecodeMove, FetchMove, Phases
<1>5. DOMAIN latch' = Stages /\ \A s \in Stages : IR(s)' \in Instruction
  <2>1. CASE WritebackMove
    BY <1>1, <2>1 DEF WritebackMove, IR
  <2>2. CASE MemoryMove
    <3>1. IR("WB")' \in Instruction
      BY <1>1, <2>2, BlankNop DEF MemoryMove, Stages
    <3>2. \A s \in Stages \ {"WB"} : IR(s)' = IR(s)
      BY <2>2 DEF MemoryMove, IR
    <3> QED
      BY <1>1, <2>2, <3>1, <3>2 DEF MemoryMove
  <2>3. CASE ExecuteMove
    <3>1. IR("MEM")' \in Instruction
      BY <1>1, <2>3 DEF ExecuteMove, Stages
    <3>2. \A s \in Stages \ {"MEM"} : IR(s)' = IR(s)
      BY <2>3 DEF ExecuteMove, IR
    <3> QED
      BY <1>1, <2>3, <3>1, <3>2 DEF ExecuteMove
  <2>4. CASE DecodeMove
    <3>1. IR("EXE")' \in Instruction
      BY <1>1, <2>4, BlankNop DEF DecodeMove, Stages
    <3>2. \A s \in Stages \ {"EXE"} : IR(s)' = IR(s)
      BY <2>4 DEF DecodeMove, IR
    <3> QED
      BY <1>1, <2>4, <3>1, <3>2 DEF DecodeMove
  <2>5. CASE FetchMove
    <3>1. IR("ID")' \in {IR("ID"), Blank("NOP"), Fetched}
      BY <2>5 DEF FetchMove, IR
    <3>2. IR("ID")' \in Instruction
      BY <1>1, <1>3, <3>1, BlankNop DEF Stages
    <3>3. \A s \in Stages \ {"ID"} : IR(s)' = IR(s)
      BY <2>5 DEF FetchMove, IR
    <3> QED
      BY <1>1, <2>5, <3>2, <3>3 DEF FetchMove
  <2> QED
    BY <2>1, <2>2, <2>3, <2>4, <2>5 DEF Move
<1>6. stall' \in [Stages -> StallType]
  BY <1>1 DEF Move, WritebackMove, MemoryMove, ExecuteMove, DecodeMove, FetchMove
<1>7. /\ total_instr_count' \in Nat /\ cycles' \in Nat /\ latency' \in Int
      /\ stalls' \in Int /\ total_clock_cycle' \in Int
  BY <1>1 DEF Move, WritebackMove, MemoryMove, ExecuteMove, DecodeMove, FetchMove, Kept,
     Filled
<1>8. pc' \in Nat
  <2>1. \A n \in Int : Wrap(n) \in Nat
    BY WrapWord DEF Word
  <2>2. Wrap(FetchPC + 4) \in Nat
    BY <2>1
  <2> QED
    BY <1>1, <2>2 DEF Move, WritebackMove, MemoryMove, ExecuteMove, DecodeMove, FetchMove
<1>9. end' \in BOOLEAN /\ pipe_run' \in BOOLEAN /\ stall_put' \in BOOLEAN
  BY <1>1 DEF Move, WritebackMove, MemoryMove, ExecuteMove, DecodeMove, FetchMove
<1> QED
  BY <1>2, <1>4, <1>5, <1>6, <1>7, <1>8, <1>9 DEF Shape

LEMMA EndCycleShape ==
  ASSUME Shape, EndCycle
  PROVE  Shape'
<1>1. \A n \in Int : Counted(n) \in Int
  BY DEF Counted
<1>2. stalls' \in Int /\ total_clock_cycle' \in Int
  BY <1>1 DEF Shape, EndCycle
<1>3. cycles' \in Nat
  BY DEF Shape, EndCycle
<1>4. stall_put' \in BOOLEAN /\ phase' \in Phases
  BY DEF EndCycle, Phases
<1> QED
  BY <1>2, <1>3, <1>4 DEF Shape, EndCycle, chosen, IR

LEMMA RunShape ==
  ASSUME Shape, NEW n \in Calls, Run(n)
  PROVE  Shape'
<1>1. cycles' \in Nat /\ pipe_run' \in BOOLEAN /\ phase' \in Phases
  BY IntPipeAssumption DEF Run, Phases
<1> QED
  BY <1>1 DEF Shape, Run, chosen, clock, IR

LEMMA LoweredIs ==
  ASSUME Shape, stall' = [s \in Stages |-> Lowered(s)]
  PROVE  /\ stall' \in [Stages -> StallType]
         /\ \A s \in Stages : InStall(s)' = FALSE
<1>1. \A s \in Stages : Lowered(s) \in StallType /\ Lowered(s).in_stall = FALSE
  BY StallTypes DEF Lowered, Shape
<1> QED
  BY <1>1 DEF InStall

LEMMA EmptyPipeIs ==
  /\ DOMAIN EmptyPipe = Stages
  /\ \A s \in Stages : EmptyPipe[s].ir = Blank("NOP") /\ EmptyPipe[s].COND = UNDEFINED
  BY CleanIs DEF EmptyPipe, Bubble

LEMMA ResetShape ==
  ASSUME Shape, Reset
  PROVE  Shape'
<1>1. PICK s \in RestartsAt[data_memory_latency] : prog' = s.prog
  BY DEF Reset
<1>2. s \in Setups /\ s.latency = data_memory_latency
  BY <1>1, IntPipeAssumption DEF RestartsAt, Shape
<1>3. \A s_1 \in Stages : IR(s_1)' \in Instruction
  BY EmptyPipeIs, BlankNop DEF Reset, IR
<1>4. DOMAIN latch' = Stages
  BY EmptyPipeIs DEF Reset
<1>5. stall' \in [Stages -> StallType]
  BY LoweredIs DEF Reset
<1>6. /\ data_memory_latency' = data_memory_latency
      /\ total_instr_count' \in Nat /\ pc' \in Nat /\ cycles' \in Nat
      /\ latency' \in Int /\ stalls' \in Int /\ total_clock_cycle' \in Int
      /\ end' \in BOOLEAN /\ pipe_run' \in BOOLEAN /\ stall_put' \in BOOLEAN
      /\ phase' \in Phases
  <2>1. total_clock_cycle' \in Int /\ stalls' \in Int
    BY DEF Reset
  <2>2. total_instr_count' \in Nat /\ pc' \in Nat /\ cycles' \in Nat
    BY DEF Reset, Shape, calls
  <2>3. end' \in BOOLEAN /\ stall_put' \in BOOLEAN
    BY DEF Reset
  <2>4. /\ data_memory_latency' = data_memory_latency
        /\ latency' = latency /\ pipe_run' = pipe_run /\ phase' = phase
    BY DEF Reset, calls
  <2> QED
    BY <2>1, <2>2, <2>3, <2>4 DEF Shape
<1> QED
  BY <1>1, <1>2, <1>3, <1>4, <1>5, <1>6 DEF Shape

LEMMA InitShape == Init => Shape
<1>1. SUFFICES ASSUME Init PROVE Shape
  OBVIOUS
<1>2. /\ DOMAIN latch = Stages
      /\ \A s \in Stages : IR(s) \in Instruction
  BY <1>1, EmptyPipeIs, BlankNop DEF Init, IR
<1>3. stall \in [Stages -> StallType]
  BY <1>1, UndefinedWord DEF Init, NoStall, StallType
<1>4. \E s \in Setups : prog = s.prog /\ data_memory_latency = s.latency
  BY <1>1 DEF Init
<1>5. /\ latency \in Int
      /\ total_instr_count \in Nat /\ pc \in Nat /\ cycles \in Nat
      /\ stalls \in Int /\ total_clock_cycle \in Int
      /\ end \in BOOLEAN /\ pipe_run \in BOOLEAN /\ stall_put \in BOOLEAN
      /\ phase \in Phases
  <2>1. latency \in Int
    BY <1>1, IntPipeAssumption DEF Init
  <2>2. total_clock_cycle \in Int
    BY <1>1 DEF Init
  <2>3. phase \in Phases
    BY <1>1 DEF Init, Phases
  <2>4. total_instr_count \in Nat /\ pc \in Nat /\ cycles \in Nat /\ stalls \in Int
    BY <1>1 DEF Init
  <2>5. end \in BOOLEAN /\ pipe_run \in BOOLEAN /\ stall_put \in BOOLEAN
    BY <1>1 DEF Init
  <2> QED
    BY <2>1, <2>2, <2>3, <2>4, <2>5
<1> QED
  BY <1>2, <1>3, <1>4, <1>5 DEF Shape

-----------------------------------------------------------------------------
(* Stalls of the memory *)

LEMMA StallBool == Shape => \A s \in Stages : InStall(s) \in BOOLEAN
  BY StallTypes DEF Shape, InStall

LEMMA WaitsMove ==
  ASSUME Shape, Waits, Move
  PROVE  Waits'
<1>1. /\ InStall("MEM") \in BOOLEAN /\ InStall("EXE") \in BOOLEAN
      /\ latency \in Int /\ data_memory_latency \in Int
  BY StallBool, LatencyInt DEF Shape, Stages
<1>2. CASE WritebackMove
  <2>1. CASE Idle(IR("WB"))
    <3>1. /\ InStall("MEM")' = InStall("MEM") /\ InStall("EXE")' = InStall("EXE")
          /\ IR("MEM")' = IR("MEM") /\ IR("WB")' = IR("WB")
          /\ latency' = latency /\ data_memory_latency' = data_memory_latency
          /\ phase = "writeback" /\ phase' = "memory"
      BY <1>2, <2>1 DEF WritebackMove, InStall, IR, Kept
    <3> QED
      BY <3>1 DEF Waits, MemoryOp
  <2>2. CASE ~ Idle(IR("WB"))
    <3>1. ~ InStall("MEM") /\ ~ InStall("EXE")
      BY <1>2, <2>2 DEF Waits, WritebackMove, Idle
    <3>2. ~ InStall("MEM")' /\ ~ InStall("EXE")' /\ phase' = "memory"
      BY <1>2, <3>1 DEF WritebackMove
    <3> QED
      BY <3>2 DEF Waits
  <2> QED
    BY <2>1, <2>2
<1>3. CASE MemoryMove
  <2>1. /\ IR("MEM")' = IR("MEM") /\ phase = "memory" /\ phase' = "execute"
        /\ data_memory_latency' = data_memory_latency
        /\ InStall("MEM")' => IR("WB")' = Blank("NOP")
        /\ latency' = MemoryCounter(IR("MEM"))
        /\ InStall("EXE")' <=> latency' # 0 /\ InStall("EXE")
        /\ InStall("MEM")' <=>
             /\ latency' # 0
             /\ InStall("MEM") \/ (MemoryOp(IR("MEM")) /\ ~ InStall("EXE"))
    BY <1>3 DEF MemoryMove, IR, Kept, Stages
  <2>2. MemoryOp(IR("MEM"))' = MemoryOp(IR("MEM"))
    BY <2>1 DEF MemoryOp
  <2>3. IR("WB")' = Blank("NOP") => IR("WB")'.opcode = "NOP"
    BY BlankNop
  <2>4. /\ InStall("MEM") => MemoryOp(IR("MEM"))
        /\ InStall("EXE") => InStall("MEM")
        /\ data_memory_latency = 0 => ~ InStall("MEM")
    BY DEF Waits
  <2>5. data_memory_latency = 0 => ~ InStall("MEM")'
    BY <2>1, <2>4 DEF MemoryCounter
  <2> QED
    BY <2>1, <2>2, <2>3, <2>4, <2>5 DEF Waits
<1>4. CASE ExecuteMove
  <2>1. /\ phase = "execute" /\ phase' = "decode"
        /\ data_memory_latency' = data_memory_latency /\ latency' = latency
        /\ IR("WB")' = IR("WB")
        /\ InStall("EXE")' => IR("MEM")' = IR("MEM")
        /\ InStall("EXE")' <=> latency # 0 /\ (InStall("EXE") \/ MemoryOp(IR("MEM")))
        /\ InStall("MEM")' <=> latency # 0 /\ InStall("MEM")
    BY <1>4 DEF ExecuteMove, IR, Kept, Stages
  <2>2. InStall("EXE")' => MemoryOp(IR("MEM"))' = MemoryOp(IR("MEM"))
    BY <2>1 DEF MemoryOp
  <2> QED
    BY <2>1, <2>2 DEF Waits
<1>5. CASE DecodeMove \/ FetchMove
  <2>1. /\ InStall("MEM")' = InStall("MEM") /\ InStall("EXE")' = InStall("EXE")
        /\ IR("MEM")' = IR("MEM") /\ IR("WB")' = IR("WB")
        /\ latency' = latency /\ data_memory_latency' = data_memory_latency
        /\ phase \in {"decode", "fetch"} /\ phase' \in {"fetch", "end"}
    BY <1>5 DEF DecodeMove, FetchMove, InStall, IR, Kept, Stages
  <2> QED
    BY <2>1 DEF Waits, MemoryOp
<1> QED
  BY <1>2, <1>3, <1>4, <1>5 DEF Move

-----------------------------------------------------------------------------
(* Branches *)

\* What a branch reads in ID does not take it.
LEMMA UntakenBranch ==
  ASSUME NEW op, op \notin {"BNEZ", "BLTZ", "BLEZ", "JUMP"}, NEW x,
         op \in Branches => x = UNDEFINED
  PROVE  Condition(op, x) = UNDEFINED
  BY UntakenWord DEF Condition

LEMMA NotTakenMove ==
  ASSUME ProgramsGiven, AddressesFit, KeepOrder(Setups), Shape, NotTaken, Move
  PROVE  NotTaken'
<1>1. \A n : Straight(Instr(n))
  <2>1. \A n \in DOMAIN prog : prog[n].opcode \notin {"BNEZ", "BLTZ", "BLEZ", "JUMP"}
    BY DEF KeepOrder, StraightLine, Shape
  <2> QED
    BY <2>1, InstrIs, BlankEop DEF Straight
<1>2. Straight(Blank("NOP")) /\ Straight(Fetched)
  BY <1>1, BlankNop DEF Straight, Fetched
<1>3. \A s \in Stages : latch[s].COND = UNDEFINED /\ Straight(IR(s))
  BY DEF NotTaken
<1>4. IR("EXE").opcode \in Branches => latch["EXE"].A = UNDEFINED
  BY DEF NotTaken
<1>5. CASE WritebackMove
  <2>1. latch' = latch
    BY <1>5 DEF WritebackMove
  <2> QED
    BY <1>3, <1>4, <2>1 DEF NotTaken, Straight, IR
<1>6. CASE MemoryMove
  <2>1. \A s \in Stages \ {"WB"} : latch'[s] = latch[s]
    BY <1>6 DEF MemoryMove
  <2>2. IR("WB")' \in {Blank("NOP"), IR("MEM")} /\ latch'["WB"].COND = UNDEFINED
    BY <1>3, <1>6 DEF MemoryMove, Stages
  <2>3. Straight(IR("WB")')
    BY <1>2, <1>3, <2>2 DEF Stages
  <2> QED
    BY <1>3, <1>4, <2>1, <2>2, <2>3 DEF NotTaken, Straight, IR, Stages
<1>7. CASE ExecuteMove
  <2>1. \A s \in Stages \ {"MEM"} : latch'[s] = latch[s]
    BY <1>7 DEF ExecuteMove
  <2>2. Condition(IR("EXE").opcode, latch["EXE"].A) = UNDEFINED
    BY <1>3, <1>4, UntakenBranch DEF Straight, Stages
  <2>3. IR("MEM")' \in {IR("MEM"), IR("EXE")} /\ latch'["MEM"].COND = UNDEFINED
    BY <1>3, <1>7, <2>2 DEF ExecuteMove, Stages
  <2>4. Straight(IR("MEM")')
    BY <1>3, <2>3 DEF Stages
  <2> QED
    BY <1>3, <1>4, <2>1, <2>3, <2>4 DEF NotTaken, Straight, IR, Stages
<1>8. CASE DecodeMove
  <2>1. \A s \in Stages \ {"EXE"} : latch'[s] = latch[s]
    BY <1>8 DEF DecodeMove
  <2>2. /\ IR("EXE")' \in {Blank("NOP"), IR("EXE"), IR("ID")}
        /\ latch'["EXE"].COND = UNDEFINED
    BY <1>3, <1>8 DEF DecodeMove, Stages
  <2>3. Straight(IR("EXE")')
    BY <1>2, <1>3, <2>2 DEF Stages
  <2>4. IR("EXE")'.opcode \in Branches => latch'["EXE"].A = UNDEFINED
    <3>1. CASE InStall("ID")
      <4>1. IR("EXE")'.opcode = "NOP"
        BY <1>8, <3>1, BlankNop DEF DecodeMove
      <4> QED
        BY <4>1 DEF Branches
    <3>2. CASE ~ InStall("ID") /\ InStall("EXE")
      BY <1>4, <1>8, <3>2 DEF DecodeMove
    <3>3. CASE ~ InStall("ID") /\ ~ InStall("EXE")
      BY <1>8, <3>3 DEF DecodeMove
    <3> QED
      BY <3>1, <3>2, <3>3
  <2> QED
    BY <1>3, <2>1, <2>2, <2>3, <2>4 DEF NotTaken, Straight, IR, Stages
<1>9. CASE FetchMove
  <2>1. \A s \in Stages \ {"ID"} : latch'[s] = latch[s]
    BY <1>9 DEF FetchMove
  <2>2. IR("ID")' \in {Blank("NOP"), IR("ID"), Fetched} /\ latch'["ID"].COND = UNDEFINED
    <3>1. IR("ID")' \in {Blank("NOP"), IR("ID"), Fetched}
      BY <1>9 DEF FetchMove, IR
    <3>2. latch'["ID"].COND = UNDEFINED
      BY <1>3, <1>9 DEF FetchMove, Stages
    <3> QED
      BY <3>1, <3>2
  <2>3. Straight(IR("ID")')
    BY <1>2, <1>3, <2>2 DEF Stages
  <2> QED
    BY <1>3, <1>4, <2>1, <2>2, <2>3 DEF NotTaken, Straight, IR, Stages
<1> QED
  BY <1>5, <1>6, <1>7, <1>8, <1>9 DEF Move

\* Fetch goes on at pc.
LEMMA FetchAtPc ==
  ASSUME NotTaken
  PROVE  FetchPC = pc
  BY DEF NotTaken, FetchPC, Stages

-----------------------------------------------------------------------------
(* Program order *)

LEMMA EndSeenMove ==
  ASSUME KeepOrder(Setups), Shape, ProgramsGiven, NotTaken, EndSeen, Move
  PROVE  EndSeen'
<1>1. end \in BOOLEAN /\ "ID" \in Stages
  BY DEF Shape, Stages
<1>2. Blank("NOP").opcode # "EOP"
  BY BlankNop
<1>3. CASE WritebackMove
  BY <1>3 DEF WritebackMove, EndSeen, IR
<1>4. CASE MemoryMove
  <2>1. end' = end /\ \A s \in Stages \ {"WB"} : IR(s)' = IR(s)
    BY <1>4 DEF MemoryMove, IR
  <2>2. IR("WB")' \in {Blank("NOP"), IR("MEM")}
    BY <1>4 DEF MemoryMove
  <2>3. ~ end => IR("WB")'.opcode # "EOP"
    BY <1>2, <2>2 DEF EndSeen, Stages
  <2> QED
    BY <2>1, <2>3 DEF EndSeen, Stages
<1>5. CASE ExecuteMove
  <2>1. end' = end /\ \A s \in Stages \ {"MEM"} : IR(s)' = IR(s)
    BY <1>5 DEF ExecuteMove, IR
  <2>2. IR("MEM")' \in {IR("MEM"), IR("EXE")}
    BY <1>5 DEF ExecuteMove
  <2>3. ~ end => IR("MEM")'.opcode # "EOP"
    BY <2>2 DEF EndSeen, Stages
  <2> QED
    BY <2>1, <2>3 DEF EndSeen, Stages
<1>6. CASE DecodeMove
  <2>1. end' = end /\ \A s \in Stages \ {"EXE"} : IR(s)' = IR(s)
    BY <1>6 DEF DecodeMove, IR
  <2>2. IR("EXE")' \in {Blank("NOP"), IR("EXE"), IR("ID")}
    BY <1>6 DEF DecodeMove
  <2>3. ~ end => IR("EXE")'.opcode # "EOP"
    BY <1>2, <2>2 DEF EndSeen, Stages
  <2> QED
    BY <2>1, <2>3 DEF EndSeen, Stages
<1>7. CASE FetchMove
  <2>1. \A s \in Stages \ {"ID"} : IR(s)' = IR(s)
    BY <1>7 DEF FetchMove, IR
  <2>2. CASE ~ CanFetch
    <3>1. end' = end /\ latch' = latch
      BY <1>7, <2>2 DEF FetchMove
    <3> QED
      BY <3>1 DEF EndSeen, IR
  <2>3. CASE CanFetch
    <3>1. ~ end
      BY <2>3 DEF CanFetch
    <3>2. \/ end' = end /\ IR("ID")' = Blank("NOP")
          \/ end' = TRUE /\ IR("ID")' = Fetched /\ Fetched.opcode = "EOP"
          \/ end' = end /\ IR("ID")' = Fetched /\ Fetched.opcode # "EOP"
      BY <1>7, <2>3 DEF FetchMove
    <3>3. /\ end' => IR("ID")'.opcode = "EOP"
          /\ ~ end' => IR("ID")'.opcode # "EOP"
      BY <1>1, <1>2, <3>1, <3>2
    <3> QED
      BY <2>1, <3>1, <3>3 DEF EndSeen, Stages
  <2> QED
    BY <2>2, <2>3
<1> QED
  BY <1>3, <1>4, <1>5, <1>6, <1>7 DEF Move

LEMMA Places ==
  ASSUME Shape
  PROVE  /\ AtMEM \in Nat /\ AtEXE \in Nat /\ AtID \in Nat /\ AtIF \in Nat
         /\ total_instr_count <= AtMEM /\ AtMEM <= total_instr_count + 1
         /\ AtMEM <= AtEXE /\ AtEXE <= AtMEM + 1
         /\ AtEXE <= AtID /\ AtID <= AtEXE + 1
         /\ AtID <= AtIF /\ AtIF <= AtID + 1
  BY DEF Shape, AtMEM, AtEXE, AtID, AtIF, One

LEMMA InstrKept == prog' = prog => \A n : Instr(n)' = Instr(n)
  BY DEF Instr

LEMMA WritebackOrdered ==
  ASSUME Shape, Ordered, WritebackMove
  PROVE  /\ Ordered'
         /\ AtMEM' = AtMEM /\ AtEXE' = AtEXE /\ AtID' = AtID
<1>1. /\ phase = "writeback" /\ phase' = "memory"
      /\ \A s \in Stages : IR(s)' = IR(s)
      /\ total_instr_count' = total_instr_count + Filled("WB")
      /\ pc' = pc /\ prog' = prog
  BY DEF WritebackMove, IR, Kept
<1>2. ~ Live("WB")' /\ Live("WB")
  BY <1>1 DEF Live
<1>3. \A s \in {"MEM", "EXE", "ID"} : Live(s) /\ Live(s)'
  BY <1>1 DEF Live
<1>4. ~ Busy("WB")' /\ \A s \in {"MEM", "EXE", "ID"} : Busy(s)' <=> Busy(s)
  BY <1>1, <1>2, <1>3 DEF Busy, Idle, Stages
<1>5. total_instr_count' + 0 = AtMEM
  BY <1>1, <1>2 DEF AtMEM, One, Busy, Filled, Shape
<1>6. AtMEM' = AtMEM
  BY <1>4, <1>5, Places DEF AtMEM, One
<1>7. AtEXE' = AtEXE
  BY <1>4, <1>6 DEF AtEXE, One
<1>8. AtID' = AtID
  BY <1>4, <1>7 DEF AtID, One
<1>9. AtIF' = AtIF
  BY <1>4, <1>8 DEF AtIF, One
<1>10. /\ HoldsAt("WB", total_instr_count)'
       /\ HoldsAt("MEM", AtMEM)' /\ HoldsAt("EXE", AtEXE)' /\ HoldsAt("ID", AtID)'
  BY <1>1, <1>4, <1>6, <1>7, <1>8 DEF HoldsAt, Ordered, Stages, Instr
<1> QED
  BY <1>1, <1>6, <1>7, <1>8, <1>9, <1>10 DEF Ordered

LEMMA MemoryOrdered ==
  ASSUME Shape, Ordered, MemoryMove
  PROVE  /\ Ordered'
         /\ AtEXE' = AtEXE /\ AtID' = AtID
         /\ InStall("MEM")' => AtMEM' = AtMEM
<1>1. /\ phase = "memory" /\ phase' = "execute"
      /\ \A s \in {"MEM", "EXE", "ID"} : IR(s)' = IR(s)
      /\ IR("WB")' = IF InStall("MEM")' THEN Blank("NOP") ELSE IR("MEM")
      /\ total_instr_count' = total_instr_count /\ pc' = pc /\ prog' = prog
  BY DEF MemoryMove, IR, Kept, Stages
<1>2. /\ ~ Live("WB") /\ Live("MEM") /\ Live("EXE") /\ Live("ID")
      /\ Live("WB")' /\ Live("EXE")' /\ Live("ID")'
      /\ Live("MEM")' <=> InStall("MEM")'
  BY <1>1 DEF Live
<1>3. /\ ~ Busy("WB")
      /\ Busy("EXE")' <=> Busy("EXE")
      /\ Busy("ID")' <=> Busy("ID")
  BY <1>1, <1>2 DEF Busy, Idle
<1>4. AtMEM = total_instr_count
  BY <1>3 DEF AtMEM, One, Shape
<1>5. CASE InStall("MEM")'
  <2>1. ~ Busy("WB")' /\ (Busy("MEM")' <=> Busy("MEM"))
    BY <1>1, <1>2, <1>5, BlankNop DEF Busy, Idle
  <2>2. AtMEM' = AtMEM
    BY <1>1, <1>4, <2>1 DEF AtMEM, One, Shape
  <2>3. AtEXE' = AtEXE
    BY <2>1, <2>2 DEF AtEXE, One
  <2>4. AtID' = AtID
    BY <1>3, <2>3 DEF AtID, One
  <2>5. AtIF' = AtIF
    BY <1>3, <2>4 DEF AtIF, One
  <2>6. /\ HoldsAt("WB", total_instr_count)'
        /\ HoldsAt("MEM", AtMEM)' /\ HoldsAt("EXE", AtEXE)' /\ HoldsAt("ID", AtID)'
    BY <1>1, <1>3, <2>1, <2>2, <2>3, <2>4 DEF HoldsAt, Ordered, Instr
  <2> QED
    BY <1>1, <2>2, <2>3, <2>4, <2>5, <2>6 DEF Ordered
<1>6. CASE ~ InStall("MEM")'
  <2>1. ~ Busy("MEM")' /\ (Busy("WB")' <=> Busy("MEM"))
    BY <1>1, <1>2, <1>6 DEF Busy, Idle
  <2>2. AtMEM' = AtEXE
    BY <1>1, <1>4, <2>1 DEF AtMEM, AtEXE, One, Shape
  <2>3. AtEXE' = AtEXE
    BY <2>1, <2>2, Places DEF AtEXE, One
  <2>4. AtID' = AtID
    BY <1>3, <2>3 DEF AtID, One
  <2>5. AtIF' = AtIF
    BY <1>3, <2>4 DEF AtIF, One
  <2>6. /\ HoldsAt("WB", total_instr_count)'
        /\ HoldsAt("MEM", AtMEM)' /\ HoldsAt("EXE", AtEXE)' /\ HoldsAt("ID", AtID)'
    BY <1>1, <1>3, <1>4, <1>6, <2>1, <2>3, <2>4 DEF HoldsAt, Ordered, Instr
  <2> QED
    BY <1>1, <1>6, <2>3, <2>4, <2>5, <2>6 DEF Ordered
<1> QED
  BY <1>5, <1>6

LEMMA ExecuteOrdered ==
  ASSUME Shape, Ordered, Waits, ExecuteMove
  PROVE  /\ Ordered'
         /\ AtMEM' = AtMEM /\ AtID' = AtID
         /\ InStall("EXE")' => /\ AtEXE' = AtEXE
                               /\ InStall("MEM")
<1>1. /\ phase = "execute" /\ phase' = "decode"
      /\ \A s \in {"WB", "EXE", "ID"} : IR(s)' = IR(s)
      /\ IR("MEM")' = IF InStall("EXE")' THEN IR("MEM") ELSE IR("EXE")
      /\ total_instr_count' = total_instr_count /\ pc' = pc /\ prog' = prog
      /\ InStall("EXE")' <=> latency # 0 /\ (InStall("EXE") \/ MemoryOp(IR("MEM")))
  BY DEF ExecuteMove, IR, Kept, Stages
<1>2. InStall("EXE")' <=> InStall("MEM")
  BY <1>1 DEF Waits
<1>3. /\ Live("WB") /\ Live("EXE") /\ Live("ID")
      /\ Live("MEM") <=> InStall("MEM")
      /\ Live("WB")' /\ Live("MEM")' /\ Live("ID")'
      /\ Live("EXE")' <=> InStall("EXE")'
  BY <1>1 DEF Live
<1>4. /\ Busy("WB")' <=> Busy("WB")
      /\ Busy("ID")' <=> Busy("ID")
  BY <1>1, <1>3 DEF Busy, Idle
<1>5. AtMEM' = AtMEM
  BY <1>1, <1>4 DEF AtMEM, One
<1>6. CASE InStall("EXE")'
  <2>1. (Busy("MEM")' <=> Busy("MEM")) /\ (Busy("EXE")' <=> Busy("EXE"))
    BY <1>1, <1>2, <1>3, <1>6 DEF Busy, Idle
  <2>2. AtEXE' = AtEXE
    BY <1>5, <2>1 DEF AtEXE, One
  <2>3. AtID' = AtID
    BY <2>1, <2>2 DEF AtID, One
  <2>4. AtIF' = AtIF
    BY <1>4, <2>3 DEF AtIF, One
  <2>5. /\ HoldsAt("WB", total_instr_count)'
        /\ HoldsAt("MEM", AtMEM)' /\ HoldsAt("EXE", AtEXE)' /\ HoldsAt("ID", AtID)'
    BY <1>1, <1>4, <1>5, <1>6, <2>1, <2>2, <2>3 DEF HoldsAt, Ordered, Instr
  <2> QED
    BY <1>1, <1>2, <1>5, <1>6, <2>2, <2>3, <2>4, <2>5 DEF Ordered
<1>7. CASE ~ InStall("EXE")'
  <2>1. /\ ~ Busy("MEM") /\ ~ Busy("EXE")'
        /\ Busy("MEM")' <=> Busy("EXE")
    BY <1>1, <1>2, <1>3, <1>7 DEF Busy, Idle
  <2>2. AtEXE = AtMEM /\ AtEXE' = AtID
    BY <1>5, <2>1, Places DEF AtEXE, AtID, One
  <2>3. AtID' = AtID
    BY <2>1, <2>2, Places DEF AtID, One
  <2>4. AtIF' = AtIF
    BY <1>4, <2>3 DEF AtIF, One
  <2>5. /\ HoldsAt("WB", total_instr_count)'
        /\ HoldsAt("MEM", AtMEM)' /\ HoldsAt("EXE", AtEXE)' /\ HoldsAt("ID", AtID)'
    BY <1>1, <1>4, <1>5, <1>7, <2>1, <2>2, <2>3 DEF HoldsAt, Ordered, Instr
  <2> QED
    BY <1>1, <1>5, <1>7, <2>3, <2>4, <2>5 DEF Ordered
<1> QED
  BY <1>6, <1>7

LEMMA DecodeOrdered ==
  ASSUME Shape, Ordered, NoClash, DecodeMove
  PROVE  /\ Ordered'
         /\ AtMEM' = AtMEM /\ AtEXE' = AtEXE
         /\ InStall("ID") => AtID' = AtID
<1>1. /\ phase = "decode" /\ phase' = "fetch"
      /\ \A s \in {"WB", "MEM", "ID"} : IR(s)' = IR(s)
      /\ IR("EXE")' = IF InStall("ID") THEN Blank("NOP")
                      ELSE IF InStall("EXE") THEN IR("EXE") ELSE IR("ID")
      /\ total_instr_count' = total_instr_count /\ pc' = pc /\ prog' = prog
      /\ InStall("ID")' = InStall("ID") /\ InStall("EXE")' = InStall("EXE")
  BY DEF DecodeMove, IR, Kept, Stages, InStall
<1>2. /\ Live("WB") /\ Live("MEM") /\ Live("ID")
      /\ Live("EXE") <=> InStall("EXE")
      /\ Live("WB")' /\ Live("MEM")' /\ Live("EXE")'
      /\ Live("ID")' <=> (InStall("ID") \/ InStall("EXE"))
  BY <1>1 DEF Live
<1>3. /\ Busy("WB")' <=> Busy("WB")
      /\ Busy("MEM")' <=> Busy("MEM")
  BY <1>1, <1>2 DEF Busy, Idle
<1>4. AtMEM' = AtMEM
  BY <1>1, <1>3 DEF AtMEM, One
<1>5. AtEXE' = AtEXE
  BY <1>3, <1>4 DEF AtEXE, One
<1>6. CASE InStall("ID") \/ InStall("EXE")
  <2>1. (Busy("EXE")' <=> Busy("EXE")) /\ (Busy("ID")' <=> Busy("ID"))
    <3>1. CASE InStall("ID")
      <4>1. ~ Busy("EXE")'
        BY <1>1, <3>1, BlankNop DEF Busy, Idle
      <4>2. ~ Busy("EXE")
        BY <1>1, <1>2, <3>1 DEF Busy, Idle, NoClash
      <4> QED
        BY <1>1, <1>2, <3>1, <4>1, <4>2 DEF Busy, Idle
    <3>2. CASE ~ InStall("ID")
      BY <1>1, <1>2, <1>6, <3>2 DEF Busy, Idle
    <3> QED
      BY <3>1, <3>2
  <2>2. Busy("EXE")' => IR("EXE")' = IR("EXE")
    BY <1>1, <1>6, BlankNop DEF Busy, Idle
  <2>3. AtID' = AtID
    BY <1>5, <2>1 DEF AtID, One
  <2>4. AtIF' = AtIF
    BY <2>1, <2>3 DEF AtIF, One
  <2>5. /\ HoldsAt("WB", total_instr_count)'
        /\ HoldsAt("MEM", AtMEM)' /\ HoldsAt("EXE", AtEXE)' /\ HoldsAt("ID", AtID)'
    BY <1>1, <1>3, <1>4, <1>5, <2>1, <2>2, <2>3 DEF HoldsAt, Ordered, Instr
  <2> QED
    BY <1>1, <1>4, <1>5, <2>3, <2>4, <2>5 DEF Ordered
<1>7. CASE ~ InStall("ID") /\ ~ InStall("EXE")
  <2>1. /\ ~ Busy("EXE") /\ ~ Busy("ID")'
        /\ Busy("EXE")' <=> Busy("ID")
        /\ IR("EXE")' = IR("ID")
    BY <1>1, <1>2, <1>7 DEF Busy, Idle
  <2>2. AtID = AtEXE /\ AtID' = AtIF
    BY <1>5, <2>1, Places DEF AtID, AtIF, One
  <2>3. AtIF' = AtIF
    BY <2>1, <2>2, Places DEF AtIF, One
  <2>4. /\ HoldsAt("WB", total_instr_count)'
        /\ HoldsAt("MEM", AtMEM)' /\ HoldsAt("EXE", AtEXE)' /\ HoldsAt("ID", AtID)'
    BY <1>1, <1>3, <1>4, <1>5, <2>1, <2>2 DEF HoldsAt, Ordered, Instr
  <2> QED
    BY <1>1, <1>4, <1>5, <1>7, <2>3, <2>4 DEF Ordered
<1> QED
  BY <1>6, <1>7

LEMMA FetchedIs ==
  ASSUME ProgramsGiven, Shape, Ordered, NotTaken, phase = "fetch", CanFetch
  PROVE  /\ Fetched = Instr(AtID) /\ AtIF = AtID /\ ~ Busy("ID")
         /\ ~ InStall("ID") /\ ~ InStall("EXE") /\ ~ end
<1>1. ~ InStall("ID") /\ ~ InStall("EXE") /\ ~ end
  BY DEF CanFetch
<1>2. ~ Busy("ID")
  BY <1>1 DEF Busy, Live
<1>3. AtIF = AtID
  BY <1>2, Places DEF AtIF, One
<1>4. \A n \in Nat : (4 * n) \div 4 = n
  OBVIOUS
<1>5. FetchPC \div 4 = AtID
  BY <1>3, <1>4, FetchAtPc, Places DEF Ordered
<1> QED
  BY <1>1, <1>2, <1>3, <1>5 DEF Fetched

LEMMA FetchOrdered ==
  ASSUME ProgramsGiven, AddressesFit, KeepOrder(Setups), Shape, Ordered, NotTaken, EndSeen,
         FetchMove
  PROVE  /\ Ordered'
         /\ AtMEM' = AtMEM /\ AtEXE' = AtEXE /\ AtID' = AtID
<1>1. /\ phase = "fetch" /\ phase' = "end"
      /\ \A s \in {"WB", "MEM", "EXE"} : IR(s)' = IR(s)
      /\ total_instr_count' = total_instr_count /\ prog' = prog
  BY DEF FetchMove, IR, Kept, Stages
<1>2. /\ Live("WB") /\ Live("MEM") /\ Live("EXE")
      /\ Live("ID") <=> (InStall("ID") \/ InStall("EXE"))
      /\ Live("WB")' /\ Live("MEM")' /\ Live("EXE")' /\ Live("ID")'
  BY <1>1 DEF Live
<1>3. /\ Busy("WB")' <=> Busy("WB")
      /\ Busy("MEM")' <=> Busy("MEM")
      /\ Busy("EXE")' <=> Busy("EXE")
  BY <1>1, <1>2 DEF Busy, Idle
<1>4. AtMEM' = AtMEM
  BY <1>1, <1>3 DEF AtMEM, One
<1>5. AtEXE' = AtEXE
  BY <1>3, <1>4 DEF AtEXE, One
<1>6. AtID' = AtID
  BY <1>3, <1>5 DEF AtID, One
<1>7. /\ HoldsAt("WB", total_instr_count)'
      /\ HoldsAt("MEM", AtMEM)' /\ HoldsAt("EXE", AtEXE)'
  BY <1>1, <1>3, <1>4, <1>5 DEF HoldsAt, Ordered, Instr
<1>8. HoldsAt("ID", AtID)' /\ pc' = 4 * AtIF' /\ AtIF' <= PROGRAM_SIZE
  <2>1. CASE ~ CanFetch
    <3>1. IR("ID")' = IR("ID") /\ pc' = pc
      BY <2>1 DEF FetchMove, IR
    <3>2. Live("ID") \/ Idle(IR("ID"))
      <4>1. \A n \in Nat : (4 * n) \div 4 = n
        OBVIOUS
      <4>2. FetchPC \div 4 <= PROGRAM_SIZE
        BY <4>1, FetchAtPc, Places DEF Ordered
      <4>3. end => Idle(IR("ID"))
        BY DEF EndSeen, Idle
      <4> QED
        BY <1>2, <2>1, <4>2, <4>3 DEF CanFetch
    <3>3. Busy("ID")' <=> Busy("ID")
      BY <1>2, <3>1, <3>2 DEF Busy, Idle
    <3>4. AtIF' = AtIF
      BY <1>6, <3>3 DEF AtIF, One
    <3> QED
      BY <1>1, <1>6, <3>1, <3>3, <3>4 DEF HoldsAt, Ordered, Instr
  <2>2. CASE CanFetch
    <3>1. Fetched = Instr(AtID) /\ AtIF = AtID /\ ~ Busy("ID")
      BY <1>1, <2>2, FetchedIs
    <3>2. CASE IR("ID")' = Blank("NOP") /\ pc' = pc
      <4>1. ~ Busy("ID")'
        BY <3>2, BlankNop DEF Busy, Idle
      <4>2. AtIF' = AtIF
        BY <1>6, <3>1, <4>1, Places DEF AtIF, One
      <4> QED
        BY <3>2, <4>1, <4>2 DEF HoldsAt, Ordered
    <3>3. CASE IR("ID")' = Fetched /\ Fetched.opcode = "EOP" /\ pc' = pc
      <4>1. ~ Busy("ID")'
        BY <3>3 DEF Busy, Idle
      <4>2. AtIF' = AtIF
        BY <1>6, <3>1, <4>1, Places DEF AtIF, One
      <4> QED
        BY <3>3, <4>1, <4>2 DEF HoldsAt, Ordered
    <3>4. CASE IR("ID")' = Fetched /\ Fetched.opcode # "EOP" /\ pc' = Wrap(FetchPC + 4)
      <4>1. AtID \in DOMAIN prog /\ Fetched = prog[AtID]
        BY <3>1, <3>4, InstrIs, BlankEop
      <4>2. AtID <= PROGRAM_SIZE - 1 /\ ~ Idle(Fetched)
        BY <4>1 DEF KeepOrder, StraightLine, Shape, Idle
      <4>3. Busy("ID")' /\ AtIF' = AtID + 1
        <5>1. Busy("ID")'
          BY <1>2, <3>4, <4>2 DEF Busy, Idle
        <5> QED
          BY <1>6, <5>1 DEF AtIF, One
      <4>4. FetchPC = 4 * AtID /\ AtID \in Nat
        BY <3>1, FetchAtPc, Places DEF Ordered
      <4>5. pc' = 4 * (AtID + 1)
        <5>1. FetchPC + 4 = 4 * (AtID + 1) /\ FetchPC + 4 \in Nat /\ FetchPC + 4 < WordSize
          BY <4>2, <4>4, SizeGiven DEF AddressesFit, PROGRAM_SIZE
        <5> QED
          BY <3>4, <5>1, SmallWraps
      <4>6. AtIF' <= PROGRAM_SIZE
        BY <4>2, <4>3, <4>4 DEF PROGRAM_SIZE
      <4>7. HoldsAt("ID", AtID)'
        BY <1>1, <1>6, <3>1, <3>4 DEF HoldsAt, Instr
      <4> QED
        BY <4>3, <4>5, <4>6, <4>7
    <3> QED
      BY <2>2, <3>2, <3>3, <3>4 DEF FetchMove
  <2> QED
    BY <2>1, <2>2
<1> QED
  BY <1>4, <1>5, <1>6, <1>7, <1>8 DEF Ordered

-----------------------------------------------------------------------------
(* Waiting for an operand *)

\* A busy stage holds an instruction of the program.
LEMMA BusyIs ==
  ASSUME ProgramsGiven, Shape, NEW s, NEW n, Busy(s), HoldsAt(s, n)
  PROVE  n \in DOMAIN prog /\ IR(s) = prog[n] /\ ~ Idle(prog[n])
<1>1. IR(s) = Instr(n) /\ ~ Idle(Instr(n))
  BY DEF HoldsAt, Busy
<1>2. n \in DOMAIN prog
  BY <1>1, InstrIs, BlankEop
<1> QED
  BY <1>1, <1>2, InstrIs

\* The one that writes back is not followed by another writer of what it reads.
LEMMA NotOverwritten ==
  ASSUME ProgramsGiven, Shape, Ordered, NoOverwrite(prog), phase = "writeback",
         ~ Idle(IR("WB")), NEW s \in {"EXE", "MEM"}, IR(s).dest = IR("WB").dest
  PROVE  ~ Depends(IR(s), IR("WB"))
<1> SUFFICES ASSUME Depends(IR(s), IR("WB")) PROVE FALSE
  OBVIOUS
<1>1. Busy("WB") /\ Busy(s)
  BY DEF Busy, Live, Depends
<1>2. /\ total_instr_count \in DOMAIN prog
      /\ IR("WB") = prog[total_instr_count]
  BY <1>1, BusyIs DEF Ordered
<1>3. PICK n : /\ HoldsAt(s, n) /\ n \in Nat
               /\ total_instr_count < n /\ n - total_instr_count <= 2
  <2>1. AtMEM = total_instr_count + 1
    BY <1>1 DEF AtMEM, One
  <2>2. total_instr_count < AtEXE /\ AtEXE - total_instr_count <= 2
    BY <2>1, Places DEF Shape
  <2> QED
    BY <2>1, <2>2, Places DEF Ordered, Shape
<1>4. n \in DOMAIN prog /\ IR(s) = prog[n]
  BY <1>1, <1>3, BusyIs
<1>5. Depends(IR("WB"), IR("WB"))
  BY DEF Depends
<1> QED
  BY <1>2, <1>3, <1>4, <1>5 DEF NoOverwrite

\* The place of what a stage holds in program order.
Number(s) == CASE s = "WB" -> total_instr_count [] s = "MEM" -> AtMEM [] s = "EXE" -> AtEXE

LEMMA Numbered ==
  ASSUME Shape, Ordered, NEW s \in {"EXE", "MEM", "WB"}, Busy(s)
  PROVE  HoldsAt(s, Number(s)) /\ Number(s) < AtID /\ AtID - Number(s) <= 3
<1>1. CASE s = "WB"
  <2>1. AtMEM = total_instr_count + 1
    BY <1>1 DEF AtMEM, One
  <2>2. total_instr_count < AtID /\ AtID - total_instr_count <= 3
    BY <2>1, Places DEF Shape
  <2> QED
    BY <1>1, <2>2 DEF Ordered, Number
<1>2. CASE s = "MEM"
  <2>1. AtEXE = AtMEM + 1
    BY <1>2 DEF AtEXE, One
  <2>2. AtMEM < AtID /\ AtID - AtMEM <= 3
    BY <2>1, Places
  <2> QED
    BY <1>2, <2>2 DEF Ordered, Number
<1>3. CASE s = "EXE"
  <2>1. AtID = AtEXE + 1
    BY <1>3 DEF AtID, One
  <2>2. AtEXE < AtID /\ AtID - AtEXE <= 3
    BY <2>1, Places
  <2> QED
    BY <1>3, <2>2 DEF Ordered, Number
<1> QED
  BY <1>1, <1>2, <1>3

LEMMA IdStallKept ==
  ASSUME IdStall, InStall("ID")' => InStall("ID"), AtID' = AtID, prog' = prog, end' = end
  PROVE  IdStall'
<1>1. InStall("ID")' => /\ AtID' \in DOMAIN prog'
                        /\ Producers(prog, AtID) # {} /\ ~ end'
  BY DEF IdStall
<1>2. Producers(prog', AtID') = Producers(prog, AtID)
  OBVIOUS
<1> QED
  BY <1>1, <1>2 DEF IdStall

LEMMA IdStallMove ==
  ASSUME ProgramsGiven, AddressesFit, KeepOrder(Setups), NoOverwrite(prog),
         Shape, FlowInv, Move
  PROVE  IdStall'
<1>1. /\ Ordered /\ Waits /\ NotTaken /\ EndSeen /\ IdStall /\ NoClash
  BY DEF FlowInv
<1>2. CASE WritebackMove
  <2>1. AtID' = AtID /\ prog' = prog /\ end' = end
    BY <1>1, <1>2, WritebackOrdered DEF WritebackMove, Kept
  <2>2. InStall("ID")' => InStall("ID")
    BY <1>1, <1>2, NotOverwritten DEF WritebackMove
  <2> QED
    BY <1>1, <2>1, <2>2, IdStallKept
<1>3. CASE MemoryMove
  <2>1. AtID' = AtID /\ prog' = prog /\ end' = end /\ InStall("ID")' = InStall("ID")
    BY <1>1, <1>3, MemoryOrdered DEF MemoryMove, Kept
  <2> QED
    BY <1>1, <2>1, IdStallKept
<1>4. CASE ExecuteMove
  <2>1. AtID' = AtID /\ prog' = prog /\ end' = end /\ InStall("ID")' = InStall("ID")
    BY <1>1, <1>4, ExecuteOrdered DEF ExecuteMove, Kept
  <2> QED
    BY <1>1, <2>1, IdStallKept
<1>5. CASE DecodeMove
  <2>1. prog' = prog /\ end' = end /\ InStall("ID")' = InStall("ID")
    BY <1>5 DEF DecodeMove, Kept, InStall
  <2>2. CASE InStall("ID")
    <3>1. AtID' = AtID
      BY <1>1, <1>5, <2>2, DecodeOrdered
    <3> QED
      BY <1>1, <2>1, <3>1, IdStallKept
  <2>3. CASE ~ InStall("ID")
    BY <2>1, <2>3 DEF IdStall
  <2> QED
    BY <2>2, <2>3
<1>6. CASE FetchMove
  <2>1. AtID' = AtID /\ prog' = prog /\ phase = "fetch"
    BY <1>1, <1>6, FetchOrdered DEF FetchMove, Kept
  <2>2. CASE ~ CanFetch
    <3>1. InStall("ID")' = InStall("ID") /\ end' = end
      BY <1>6, <2>2 DEF FetchMove, InStall
    <3> QED
      BY <1>1, <2>1, <3>1, IdStallKept
  <2>3. CASE CanFetch
    <3>1. Fetched = Instr(AtID) /\ ~ end
      BY <1>1, <2>1, <2>3, FetchedIs
    <3>2. SUFFICES ASSUME InStall("ID")'
                   PROVE  AtID \in DOMAIN prog /\ Producers(prog, AtID) # {} /\ ~ end'
      BY <2>1 DEF IdStall
    <3>3. PICK s \in {"EXE", "MEM", "WB"} : Depends(IR(s), Fetched)
      BY <1>6, <2>3, <3>2 DEF FetchMove
    <3>4. ~ Idle(IR(s)) /\ ~ Idle(Fetched)
      BY <3>3 DEF Depends
    <3>5. Busy(s)
      BY <2>1, <3>4 DEF Busy, Live
    <3>6. AtID \in DOMAIN prog /\ Fetched = prog[AtID]
      BY <3>1, <3>4, InstrIs, BlankEop
    <3>7. PICK n : /\ HoldsAt(s, n) /\ n < AtID /\ AtID - n <= 3
      BY <1>1, <3>5, Numbered
    <3>8. n \in DOMAIN prog /\ IR(s) = prog[n]
      BY <3>5, <3>7, BusyIs
    <3>9. n \in Producers(prog, AtID)
      BY <3>3, <3>6, <3>7, <3>8 DEF Producers
    <3>10. ~ end'
      <4>1. end' = end \/ Fetched.opcode = "EOP"
        BY <1>6, <2>3 DEF FetchMove
      <4> QED
        BY <3>1, <3>4, <4>1 DEF Idle
    <3> QED
      BY <3>6, <3>9, <3>10
  <2> QED
    BY <2>2, <2>3
<1> QED
  BY <1>2, <1>3, <1>4, <1>5, <1>6 DEF Move

LEMMA NoClashMove ==
  ASSUME ProgramsGiven, KeepOrder(Setups), Shape, FlowInv, Move
  PROVE  NoClash'
<1>1. /\ Ordered /\ Waits /\ EndSeen
      /\ NoOverwrite(prog) => IdStall
  BY DEF FlowInv
<1>2. CASE ~ ExecuteMove
  <2>1. phase' # "decode"
    BY <1>2 DEF Move, WritebackMove, MemoryMove, DecodeMove, FetchMove
  <2> QED
    BY <2>1 DEF NoClash
<1>3. CASE ExecuteMove
  <2>1. SUFFICES ASSUME InStall("ID")', InStall("EXE")'
                 PROVE  IR("EXE")'.opcode = "NOP"
    BY DEF NoClash
  <2>2. InStall("ID") /\ IR("EXE")' = IR("EXE") /\ phase = "execute"
    BY <1>3, <2>1 DEF ExecuteMove, IR, Stages
  <2>3. InStall("MEM") /\ latency # 0
    BY <1>1, <1>3, <2>1, ExecuteOrdered DEF Waits
  <2>4. MemoryOp(IR("MEM")) /\ data_memory_latency # 0
    BY <1>1, <2>3 DEF Waits
  <2>5. QuietAccess(prog) /\ NoOverwrite(prog)
    BY <2>4 DEF Shape, KeepOrder
  <2>6. AtID \in DOMAIN prog /\ Producers(prog, AtID) # {} /\ ~ end
    BY <1>1, <2>2, <2>5 DEF IdStall
  <2>7. Busy("MEM")
    BY <2>2, <2>3, <2>4 DEF Busy, Live, MemoryOp, Idle
  <2>8. AtMEM \in DOMAIN prog /\ IR("MEM") = prog[AtMEM]
    BY <1>1, <2>7, BusyIs DEF Ordered
  <2>9. ~ Busy("EXE")
    <3>1. SUFFICES ASSUME Busy("EXE") PROVE FALSE
      OBVIOUS
    <3>2. AtID = AtMEM + 2
      BY <2>7, <3>1, Places DEF AtEXE, AtID, One
    <3> QED
      BY <2>4, <2>5, <2>6, <2>8, <3>2 DEF QuietAccess
  <2>10. Live("EXE") /\ IR("EXE").opcode # "EOP"
    BY <1>1, <2>2, <2>6 DEF Live, EndSeen, Stages
  <2> QED
    BY <2>2, <2>9, <2>10 DEF Busy, Idle
<1> QED
  BY <1>2, <1>3

LEMMA FlowMove ==
  ASSUME ProgramsGiven, AddressesFit, KeepOrder(Setups), Shape, FlowInv, Move
  PROVE  FlowInv'
<1>1. Ordered /\ Waits /\ NotTaken /\ EndSeen /\ NoClash
  BY DEF FlowInv
<1>2. Ordered'
  BY <1>1, WritebackOrdered, MemoryOrdered, ExecuteOrdered, DecodeOrdered, FetchOrdered
     DEF Move
<1>3. Waits' /\ NotTaken' /\ EndSeen' /\ NoClash'
  BY <1>1, WaitsMove, NotTakenMove, EndSeenMove, NoClashMove
<1>4. NoOverwrite(prog)' => IdStall'
  <2>1. prog' = prog
    BY DEF Move, WritebackMove, MemoryMove, ExecuteMove, DecodeMove, FetchMove, Kept
  <2>2. NoOverwrite(prog') => NoOverwrite(prog)
    BY <2>1
  <2> QED
    BY <2>2, IdStallMove
<1> QED
  BY <1>2, <1>3, <1>4 DEF FlowInv

\* Between two cycles everything is in flight.
LEMMA FlowBetween ==
  ASSUME Shape, FlowInv,
         UNCHANGED <<prog, data_memory_latency, total_instr_count, pc, latch, stall,
                     latency, end>>,
         phase \in {"idle", "writeback", "end"}, phase' \in {"idle", "writeback", "end"}
  PROVE  FlowInv'
<1>1. /\ prog' = prog /\ data_memory_latency' = data_memory_latency
      /\ total_instr_count' = total_instr_count /\ pc' = pc /\ latch' = latch
      /\ stall' = stall /\ latency' = latency /\ end' = end
  OBVIOUS
<1>2. \A s : IR(s)' = IR(s) /\ InStall(s)' = InStall(s)
  BY <1>1 DEF IR, InStall
<1>3. \A s \in {"WB", "MEM", "EXE", "ID"} : Busy(s)' <=> Busy(s)
  BY <1>2 DEF Busy, Live, Idle
<1>4. AtMEM' = AtMEM
  BY <1>1, <1>3 DEF AtMEM, One
<1>5. AtEXE' = AtEXE
  BY <1>3, <1>4 DEF AtEXE, One
<1>6. AtID' = AtID
  BY <1>3, <1>5 DEF AtID, One
<1>7. AtIF' = AtIF
  BY <1>3, <1>6 DEF AtIF, One
<1>8. Ordered'
  BY <1>1, <1>2, <1>3, <1>4, <1>5, <1>6, <1>7 DEF FlowInv, Ordered, HoldsAt, Instr
<1>9. Waits'
  BY <1>1, <1>2 DEF FlowInv, Waits, MemoryOp
<1>10. NotTaken' /\ EndSeen'
  BY <1>1, <1>2 DEF FlowInv, NotTaken, EndSeen, Straight
<1>11. NoOverwrite(prog)' => IdStall'
  <2>1. NoOverwrite(prog') => NoOverwrite(prog)
    BY <1>1
  <2>2. InStall("ID")' => InStall("ID")
    BY <1>2
  <2> QED
    BY <1>1, <1>6, <2>1, <2>2, IdStallKept DEF FlowInv
<1>12. NoClash'
  BY DEF NoClash
<1> QED
  BY <1>8, <1>9, <1>10, <1>11, <1>12 DEF FlowInv

LEMMA EmptyFlow ==
  ASSUME latch = EmptyPipe, \A s \in Stages : ~ InStall(s),
         total_instr_count = 0, pc = 0, end = FALSE
  PROVE  FlowInv
<1>1. \A s \in Stages : IR(s) = Blank("NOP") /\ latch[s].COND = UNDEFINED
  BY EmptyPipeIs DEF IR
<1>2. \A s \in Stages : ~ Busy(s) /\ IR(s).opcode = "NOP"
  BY <1>1, BlankNop DEF Busy
<1>3. AtMEM = 0 /\ AtEXE = 0 /\ AtID = 0 /\ AtIF = 0
  BY <1>2 DEF AtMEM, AtEXE, AtID, AtIF, One, Stages
<1>4. Ordered
  BY <1>2, <1>3 DEF Ordered, HoldsAt, PROGRAM_SIZE, Stages
<1>5. Waits /\ EndSeen /\ IdStall /\ NoClash
  BY <1>2 DEF Waits, MemoryOp, EndSeen, IdStall, NoClash, Stages
<1>6. NotTaken
  BY <1>1, <1>2 DEF NotTaken, Straight, Branches, Stages
<1> QED
  BY <1>4, <1>5, <1>6 DEF FlowInv

LEMMA InitFlow == Init => FlowInv
<1>1. SUFFICES ASSUME Init PROVE FlowInv
  OBVIOUS
<1>2. \A s \in Stages : ~ InStall(s)
  BY <1>1 DEF Init, NoStall, InStall
<1> QED
  BY <1>1, <1>2, EmptyFlow DEF Init

LEMMA ResetFlow ==
  ASSUME Shape, Reset
  PROVE  FlowInv'
<1>1. /\ latch' = EmptyPipe /\ total_instr_count' = 0 /\ pc' = 0 /\ end' = FALSE
  BY DEF Reset
<1>2. \A s \in Stages : InStall(s)' = FALSE
  BY LoweredIs DEF Reset
<1>3. \A s \in Stages : IR(s)' = Blank("NOP") /\ latch'[s].COND = UNDEFINED
  BY <1>1, EmptyPipeIs DEF IR
<1>4. \A s \in Stages : ~ Busy(s)' /\ IR(s)'.opcode = "NOP"
  BY <1>3, BlankNop DEF Busy
<1>5. AtMEM' = 0 /\ AtEXE' = 0 /\ AtID' = 0 /\ AtIF' = 0
  BY <1>1, <1>4 DEF AtMEM, AtEXE, AtID, AtIF, One, Stages
<1>6. Ordered'
  BY <1>1, <1>4, <1>5 DEF Ordered, HoldsAt, PROGRAM_SIZE, Stages
<1>7. Waits' /\ EndSeen' /\ IdStall' /\ NoClash'
  BY <1>1, <1>2, <1>4 DEF Waits, MemoryOp, EndSeen, IdStall, NoClash, Stages
<1>8. NotTaken'
  BY <1>3, <1>4 DEF NotTaken, Straight, Branches, Stages
<1> QED
  BY <1>6, <1>7, <1>8 DEF FlowInv

OrderInv == Shape /\ FlowInv

LEMMA StepOrder ==
  ASSUME ProgramsGiven, AddressesFit, KeepOrder(Setups), OrderInv, [Next]_vars
  PROVE  OrderInv'
<1>1. Shape /\ FlowInv
  BY DEF OrderInv
<1>2. CASE Step
  <2>1. Move \/ EndCycle
    BY <1>1, <1>2, StepMoves
  <2>2. CASE Move
    <3>1. FetchPC \in Int
      BY <1>1, FetchAtPc DEF FlowInv, Shape
    <3> QED
      BY <1>1, <2>2, <3>1, MoveShape, FlowMove DEF OrderInv
  <2>3. CASE EndCycle
    <3>1. FlowInv'
      BY <1>1, <2>3, FlowBetween DEF EndCycle, chosen
    <3> QED
      BY <1>1, <2>3, <3>1, EndCycleShape DEF OrderInv
  <2> QED
    BY <2>1, <2>2, <2>3
<1>3. ASSUME NEW n \in Calls, Run(n) PROVE OrderInv'
  <2>1. FlowInv'
    BY <1>1, <1>3, FlowBetween DEF Run, chosen
  <2> QED
    BY <1>1, <1>3, <2>1, RunShape DEF OrderInv
<1>4. CASE Reset
  BY <1>1, <1>4, ResetShape, ResetFlow DEF OrderInv
<1>5. CASE UNCHANGED vars
  <2>1. Shape'
    BY <1>1, <1>5 DEF Shape, vars, chosen, clock, calls, IR
  <2>2. FlowInv'
    <3>1. /\ prog' = prog /\ data_memory_latency' = data_memory_latency
          /\ total_instr_count' = total_instr_count /\ pc' = pc /\ latch' = latch
          /\ stall' = stall /\ latency' = latency /\ end' = end /\ phase' = phase
      BY <1>5 DEF vars, chosen
    <3> QED
      BY <1>1, <3>1 DEF FlowInv, Ordered, Waits, NotTaken, EndSeen, IdStall, NoClash, HoldsAt,
         AtMEM, AtEXE, AtID, AtIF, Busy, Live, IR, InStall, Instr
  <2> QED
    BY <2>1, <2>2 DEF OrderInv
<1> QED
  BY <1>2, <1>3, <1>4, <1>5 DEF Next

LEMMA PlacesBetween ==
  ASSUME Boundary
  PROVE  /\ \A s \in {"WB", "MEM", "EXE", "ID"} :
              One(Busy(s)) = Filled(s) /\ (Busy(s) <=> ~ Idle(IR(s)))
         /\ AtMEM = PlaceMEM /\ AtEXE = PlaceEXE /\ AtID = PlaceID /\ AtIF = PlaceIF
<1>1. \A s \in {"WB", "MEM", "EXE", "ID"} :
        One(Busy(s)) = Filled(s) /\ (Busy(s) <=> ~ Idle(IR(s)))
  BY DEF Boundary, One, Busy, Live, Filled
<1> QED
  BY <1>1 DEF AtMEM, AtEXE, AtID, AtIF, PlaceMEM, PlaceEXE, PlaceID, PlaceIF

LEMMA FlowInOrder == OrderInv => PipeInOrder
<1>1. SUFFICES ASSUME OrderInv, Boundary
               PROVE  /\ InPlace("WB", total_instr_count) /\ InPlace("MEM", PlaceMEM)
                      /\ InPlace("EXE", PlaceEXE) /\ InPlace("ID", PlaceID)
                      /\ pc = 4 * PlaceIF
  BY DEF PipeInOrder
<1>2. Ordered
  BY <1>1 DEF OrderInv, FlowInv
<1> QED
  BY <1>1, <1>2, PlacesBetween DEF Ordered, HoldsAt, InPlace

\* The stages of the pipeline hold consecutive instructions between two cycles and
\* fetch goes on behind them, for every straight-line program whose loads and
\* stores leave nothing waiting for an operand in ID.
THEOREM OrderCorrect ==
  ProgramsGiven /\ AddressesFit /\ KeepOrder(Setups) => (Spec => []PipeInOrder)
<1> SUFFICES ASSUME ProgramsGiven /\ AddressesFit /\ KeepOrder(Setups)
             PROVE  Spec => []PipeInOrder
  OBVIOUS
<1>1. Init => OrderInv
  BY InitShape, InitFlow DEF OrderInv
<1>2. OrderInv /\ [Next]_vars => OrderInv'
  BY StepOrder
<1>3. OrderInv => PipeInOrder
  BY FlowInOrder
<1> QED
  BY <1>1, <1>2, <1>3, PTL DEF Spec

-----------------------------------------------------------------------------
(* Counting cycles *)

LEMMA Counts ==
  ASSUME Shape
  PROVE  /\ total_clock_cycle \in Int /\ stalls \in Int /\ total_instr_count \in Nat
         /\ cycles \in Nat /\ pipe_run \in BOOLEAN /\ stall_put \in BOOLEAN
  BY DEF Shape

LEMMA WritebackCount ==
  ASSUME Shape, FlowInv, CountInv, StopsAtEnd, WritebackMove
  PROVE  CountInv'
<1>1. /\ phase = "writeback" /\ phase' = "memory"
      /\ \A s : IR(s)' = IR(s)
      /\ total_instr_count' = total_instr_count + Filled("WB")
      /\ pipe_run' = (pipe_run /\ IR("WB").opcode # "EOP")
      /\ total_clock_cycle' = total_clock_cycle /\ stalls' = stalls /\ cycles' = cycles
      /\ stall_put' = stall_put
  BY DEF WritebackMove, IR, Kept
<1>2. /\ ~ Nop("WB")' /\ ~ Eop("WB")' /\ ~ Live("WB")'
      /\ \A s \in {"MEM", "EXE", "ID"} : /\ Nop(s)' <=> Nop(s)
                                         /\ Eop(s)' <=> Eop(s)
                                         /\ Live(s) /\ Live(s)'
      /\ Live("WB")
  BY <1>1 DEF Nop, Eop, Live
<1>3. Tail' /\ Put'
  BY <1>1, <1>2 DEF CountInv, Tail, Put
<1>4. ~ Over /\ (pipe_run => cycles = 0)
  BY <1>1 DEF CountInv, Found
<1>5. pipe_run \in BOOLEAN /\ cycles \in Nat /\ total_instr_count \in Nat
      /\ total_clock_cycle \in Int /\ stalls \in Int
  BY Counts
<1>6. CASE IR("WB").opcode = "EOP"
  <2>1. pipe_run
    BY <1>1, <1>6 DEF StopsAtEnd
  <2>2. Over'
    BY <1>1, <1>4, <1>6, <2>1 DEF Over
  <2>3. \A s \in {"MEM", "EXE", "ID"} : Eop(s)
    BY <1>2, <1>6 DEF CountInv, Tail, Eop
  <2>4. Found'
    BY <1>1, <1>2, <1>4, <1>6, <2>3 DEF Found
  <2> QED
    BY <1>3, <2>2, <2>4 DEF CountInv, Accounted
<1>7. CASE IR("WB").opcode # "EOP"
  <2>1. pipe_run' = pipe_run
    BY <1>1, <1>5, <1>7
  <2>2. ~ Over'
    BY <1>1, <1>4, <2>1 DEF Over
  <2>3. Found'
    BY <1>1, <1>4, <2>1, <2>2 DEF Found
  <2>4. One(Nop("WB")) + Filled("WB") = 1
    BY <1>2, <1>7 DEF One, Nop, Filled, Idle
  <2>5. One(Nop("WB")') = 0
    BY <1>2 DEF One
  <2>6. Bubbles' + One(Nop("WB")) = Bubbles
    BY <1>2, <2>5 DEF Bubbles, One
  <2>7. /\ One(Nop("WB")) \in Nat /\ Bubbles \in Nat /\ Bubbles' \in Nat
        /\ One(stall_put) \in Nat /\ Filled("WB") \in Nat
    BY DEF One, Bubbles, Filled
  <2>8. total_clock_cycle + 1 + Bubbles = total_instr_count + stalls + One(stall_put) + 4
    BY <1>1, <1>4 DEF CountInv, Accounted
  <2>9. total_clock_cycle + 1 + Bubbles'
          = total_instr_count' + stalls + One(stall_put) + 3
    <3>1. \A t, s \in Int, i, p, b, c, n, f \in Nat :
            n + f = 1 /\ c + n = b /\ t + 1 + b = i + s + p + 4
              => t + 1 + c = (i + f) + s + p + 3
      OBVIOUS
    <3>2. total_clock_cycle + 1 + Bubbles'
            = (total_instr_count + Filled("WB")) + stalls + One(stall_put) + 3
      BY <1>5, <2>4, <2>6, <2>7, <2>8, <3>1
    <3>3. total_instr_count' = total_instr_count + Filled("WB")
      BY <1>1
    <3> QED
      BY <3>2, <3>3
  <2>10. Accounted'
    BY <1>1, <2>9 DEF Accounted
  <2> QED
    BY <1>3, <2>3, <2>10 DEF CountInv
<1> QED
  BY <1>6, <1>7

\* A stage that is not retiring keeps the balance when it marks the cycle for each
\* bubble it puts in.
LEMMA StillAccounted ==
  ASSUME Shape, Accounted, Over => Over', phase \in {"memory", "execute", "decode", "fetch"},
         phase' \in {"execute", "decode", "fetch", "end"},
         UNCHANGED <<total_clock_cycle, stalls, total_instr_count>>,
         stall_put' \in BOOLEAN,
         Bubbles' + One(stall_put) = Bubbles + One(stall_put)'
  PROVE  Accounted'
<1>1. /\ One(stall_put) \in Nat /\ One(stall_put)' \in Nat
      /\ Bubbles \in Nat /\ Bubbles' \in Nat
  BY DEF One, Bubbles
<1>2. SUFFICES ASSUME ~ Over'
               PROVE  total_clock_cycle + 1 + Bubbles'
                        = total_instr_count + stalls + One(stall_put)' + 3
  BY DEF Accounted
<1>3. total_clock_cycle + 1 + Bubbles = total_instr_count + stalls + One(stall_put) + 3
  BY <1>2 DEF Accounted
<1> QED
  BY <1>1, <1>3, Counts

LEMMA MemoryCount ==
  ASSUME Shape, FlowInv, CountInv, MemoryMove
  PROVE  CountInv'
<1>1. /\ phase = "memory" /\ phase' = "execute"
      /\ \A s \in {"MEM", "EXE", "ID"} : IR(s)' = IR(s)
      /\ IR("WB")' = IF InStall("MEM")' THEN Blank("NOP") ELSE IR("MEM")
      /\ stall_put' = (stall_put \/ InStall("MEM")')
      /\ total_clock_cycle' = total_clock_cycle /\ stalls' = stalls /\ cycles' = cycles
      /\ total_instr_count' = total_instr_count /\ pipe_run' = pipe_run
      /\ InStall("MEM")' => MemoryOp(IR("MEM"))
  BY DEF MemoryMove, IR, Kept, Stages, FlowInv, Waits
<1>2. /\ ~ Live("WB") /\ Live("MEM") /\ Live("EXE") /\ Live("ID")
      /\ Live("WB")' /\ Live("EXE")' /\ Live("ID")'
      /\ Live("MEM")' <=> InStall("MEM")'
  BY <1>1 DEF Live
<1>3. ~ stall_put /\ stall_put \in BOOLEAN
  BY <1>1, Counts DEF CountInv, Put
<1>4. /\ ~ Nop("WB") /\ ~ Eop("WB")
      /\ Nop("EXE")' <=> Nop("EXE")
      /\ Eop("EXE")' <=> Eop("EXE")
      /\ Nop("ID")' <=> Nop("ID")
      /\ Eop("ID")' <=> Eop("ID")
  BY <1>1, <1>2 DEF Nop, Eop
<1>5. Over' <=> Over
  BY <1>1 DEF Over
<1>6. stall_put' <=> InStall("MEM")'
  BY <1>1, <1>3
<1>7. InStall("MEM")' \in BOOLEAN
  BY StallTypes DEF MemoryMove, InStall, Stages
<1>8. stall_put' \in BOOLEAN
  BY <1>1, <1>3, <1>7
<1>9. Put'
  BY <1>1, <1>6 DEF Put
<1>10. CASE InStall("MEM")'
  <2>1. /\ Nop("WB")' /\ ~ Eop("WB")'
        /\ Nop("MEM")' <=> Nop("MEM")
        /\ Eop("MEM")' <=> Eop("MEM")
    BY <1>1, <1>2, <1>10, BlankNop DEF Nop, Eop
  <2>2. ~ Eop("MEM")
    BY <1>1, <1>10 DEF Eop, MemoryOp
  <2>3. Tail'
    BY <1>2, <1>4, <2>1, <2>2 DEF CountInv, Tail
  <2>4. ~ Over
    BY <1>1, <1>2, <2>2 DEF CountInv, Found
  <2>5. Found'
    BY <1>1, <1>5, <2>4 DEF CountInv, Found
  <2>6. Bubbles' = Bubbles + 1
    BY <1>4, <2>1 DEF Bubbles, One
  <2>7. One(stall_put)' = 1 /\ One(stall_put) = 0 /\ Bubbles \in Nat
    BY <1>3, <1>6, <1>10 DEF One, Bubbles
  <2>8. Accounted'
    BY <1>1, <1>5, <1>8, <2>6, <2>7, StillAccounted DEF CountInv
  <2> QED
    BY <1>9, <2>3, <2>5, <2>8 DEF CountInv
<1>11. CASE ~ InStall("MEM")'
  <2>1. /\ Nop("WB")' <=> Nop("MEM")
        /\ Eop("WB")' <=> Eop("MEM")
        /\ ~ Nop("MEM")' /\ ~ Eop("MEM")' /\ ~ Live("MEM")'
    BY <1>1, <1>2, <1>11 DEF Nop, Eop
  <2>2. Tail'
    BY <1>2, <1>4, <2>1 DEF CountInv, Tail
  <2>3. Found'
    BY <1>1, <1>2, <1>4, <1>5, <2>1 DEF CountInv, Found
  <2>4. Bubbles' = Bubbles
    BY <1>4, <2>1 DEF Bubbles, One
  <2>5. One(stall_put)' = 0 /\ One(stall_put) = 0 /\ Bubbles \in Nat
    BY <1>3, <1>6, <1>11 DEF One, Bubbles
  <2>6. Accounted'
    BY <1>1, <1>5, <1>8, <2>4, <2>5, StillAccounted DEF CountInv
  <2> QED
    BY <1>9, <2>2, <2>3, <2>6 DEF CountInv
<1> QED
  BY <1>10, <1>11

LEMMA ExecuteCount ==
  ASSUME Shape, FlowInv, CountInv, ExecuteMove
  PROVE  CountInv'
<1>1. /\ phase = "execute" /\ phase' = "decode"
      /\ \A s \in {"WB", "EXE", "ID"} : IR(s)' = IR(s)
      /\ IR("MEM")' = IF InStall("EXE")' THEN IR("MEM") ELSE IR("EXE")
      /\ total_clock_cycle' = total_clock_cycle /\ stalls' = stalls /\ cycles' = cycles
      /\ total_instr_count' = total_instr_count /\ pipe_run' = pipe_run
      /\ stall_put' = stall_put
      /\ InStall("EXE")' <=> latency # 0 /\ (InStall("EXE") \/ MemoryOp(IR("MEM")))
      /\ InStall("MEM")' <=> latency # 0 /\ InStall("MEM")
  BY DEF ExecuteMove, IR, Kept, Stages
<1>2. /\ InStall("EXE")' <=> InStall("MEM")
      /\ InStall("MEM")' <=> InStall("MEM")
  BY <1>1 DEF FlowInv, Waits
<1>3. /\ Live("WB") /\ Live("EXE") /\ Live("ID")
      /\ Live("MEM") <=> InStall("MEM")
      /\ Live("WB")' /\ Live("MEM")' /\ Live("ID")'
      /\ Live("EXE")' <=> InStall("EXE")'
  BY <1>1 DEF Live
<1>4. /\ Nop("WB")' <=> Nop("WB")
      /\ Eop("WB")' <=> Eop("WB")
      /\ Nop("ID")' <=> Nop("ID")
      /\ Eop("ID")' <=> Eop("ID")
  BY <1>1, <1>3 DEF Nop, Eop
<1>5. Over' <=> Over
  BY <1>1 DEF Over
<1>6. Put'
  BY <1>1, <1>2 DEF CountInv, Put
<1>7. CASE InStall("EXE")'
  <2>1. /\ Nop("MEM")' <=> Nop("MEM")
        /\ Eop("MEM")' <=> Eop("MEM")
        /\ Nop("EXE")' <=> Nop("EXE")
        /\ Eop("EXE")' <=> Eop("EXE")
    BY <1>1, <1>2, <1>3, <1>7 DEF Nop, Eop
  <2>2. Live("MEM")
    BY <1>2, <1>3, <1>7
  <2>3. Tail'
    BY <1>3, <1>4, <2>1, <2>2 DEF CountInv, Tail
  <2>4. Found'
    BY <1>1, <1>3, <1>4, <1>5, <2>1, <2>2 DEF CountInv, Found
  <2>5. Bubbles' = Bubbles
    BY <1>4, <2>1 DEF Bubbles, One
  <2>6. Accounted'
    BY <1>1, <1>5, <2>5, StillAccounted, Counts DEF CountInv
  <2> QED
    BY <1>6, <2>3, <2>4, <2>6 DEF CountInv
<1>8. CASE ~ InStall("EXE")'
  <2>1. /\ ~ Nop("MEM") /\ ~ Eop("MEM")
        /\ Nop("MEM")' <=> Nop("EXE")
        /\ Eop("MEM")' <=> Eop("EXE")
        /\ ~ Nop("EXE")' /\ ~ Eop("EXE")' /\ ~ Live("EXE")'
    BY <1>1, <1>2, <1>3, <1>8 DEF Nop, Eop
  <2>2. Tail'
    BY <1>3, <1>4, <2>1 DEF CountInv, Tail
  <2>3. Found'
    BY <1>1, <1>3, <1>4, <1>5, <2>1 DEF CountInv, Found
  <2>4. Bubbles' = Bubbles
    BY <1>4, <2>1 DEF Bubbles, One
  <2>5. Accounted'
    BY <1>1, <1>5, <2>4, StillAccounted, Counts DEF CountInv
  <2> QED
    BY <1>6, <2>2, <2>3, <2>5 DEF CountInv
<1> QED
  BY <1>7, <1>8

LEMMA DecodeCount ==
  ASSUME Shape, FlowInv, CountInv, NoOverwrite(prog), DecodeMove
  PROVE  CountInv'
<1>1. /\ phase = "decode" /\ phase' = "fetch"
      /\ \A s \in {"WB", "MEM", "ID"} : IR(s)' = IR(s)
      /\ IR("EXE")' = IF InStall("ID") THEN Blank("NOP")
                      ELSE IF InStall("EXE") THEN IR("EXE") ELSE IR("ID")
      /\ total_clock_cycle' = total_clock_cycle /\ stalls' = stalls /\ cycles' = cycles
      /\ total_instr_count' = total_instr_count /\ pipe_run' = pipe_run
      /\ stall_put' = (stall_put \/ InStall("ID"))
      /\ InStall("ID")' = InStall("ID") /\ InStall("EXE")' = InStall("EXE")
  BY DEF DecodeMove, IR, Kept, Stages, InStall
<1>2. /\ Live("WB") /\ Live("MEM") /\ Live("ID")
      /\ Live("EXE") <=> InStall("EXE")
      /\ Live("WB")' /\ Live("MEM")' /\ Live("EXE")'
      /\ Live("ID")' <=> (InStall("ID") \/ InStall("EXE"))
  BY <1>1 DEF Live
<1>3. /\ Nop("WB")' <=> Nop("WB")
      /\ Eop("WB")' <=> Eop("WB")
      /\ Nop("MEM")' <=> Nop("MEM")
      /\ Eop("MEM")' <=> Eop("MEM")
  BY <1>1, <1>2 DEF Nop, Eop
<1>4. Over' <=> Over
  BY <1>1 DEF Over
<1>5. stall_put <=> InStall("EXE")
  BY <1>1 DEF CountInv, Put, FlowInv, Waits
<1>6. stall_put' <=> (InStall("EXE") \/ InStall("ID"))
  BY <1>1, <1>5
<1>7. stall_put \in BOOLEAN /\ InStall("ID") \in BOOLEAN
  BY Counts, StallBool DEF Stages
<1>8. stall_put' \in BOOLEAN
  BY <1>1, <1>7
<1>9. Put'
  BY <1>1, <1>6 DEF Put
<1>10. CASE InStall("ID")
  <2>1. ~ end
    BY <1>10 DEF FlowInv, IdStall
  <2>2. \A s \in Stages : IR(s).opcode # "EOP"
    BY <2>1 DEF FlowInv, EndSeen
  <2>3. /\ ~ Eop("WB") /\ ~ Eop("MEM") /\ ~ Eop("EXE") /\ ~ Eop("ID")
        /\ ~ Eop("EXE")' /\ Nop("EXE")'
        /\ Nop("ID")' <=> Nop("ID")
    BY <1>1, <1>2, <1>10, <2>2, BlankNop DEF Eop, Nop, Stages
  <2>4. Tail'
    BY <1>3, <2>3 DEF Tail
  <2>5. ~ Over
    BY <1>1, <1>2, <2>3 DEF CountInv, Found
  <2>6. Found'
    BY <1>1, <1>4, <2>5 DEF CountInv, Found
  <2>7. Accounted'
    <3>1. One(stall_put)' = 1
      BY <1>6, <1>10 DEF One
    <3>2. CASE InStall("EXE")
      <4>1. Nop("EXE")
        BY <1>1, <1>2, <1>10, <3>2 DEF FlowInv, NoClash, Nop
      <4>2. Bubbles' = Bubbles
        BY <1>3, <2>3, <4>1 DEF Bubbles, One
      <4>3. One(stall_put) = 1
        BY <1>5, <3>2 DEF One
      <4> QED
        BY <1>1, <1>4, <1>8, <3>1, <4>2, <4>3, StillAccounted DEF CountInv
    <3>3. CASE ~ InStall("EXE")
      <4>1. ~ Nop("EXE")
        BY <1>2, <3>3 DEF Nop
      <4>2. Bubbles' = Bubbles + 1
        BY <1>3, <2>3, <4>1 DEF Bubbles, One
      <4>3. One(stall_put) = 0 /\ Bubbles \in Nat
        BY <1>5, <3>3 DEF One, Bubbles
      <4> QED
        BY <1>1, <1>4, <1>8, <3>1, <4>2, <4>3, StillAccounted DEF CountInv
    <3> QED
      BY <3>2, <3>3
  <2> QED
    BY <1>9, <2>4, <2>6, <2>7 DEF CountInv
<1>11. CASE ~ InStall("ID")
  <2>1. stall_put' = stall_put
    BY <1>1, <1>7, <1>11
  <2>2. CASE InStall("EXE")
    <3>1. /\ Nop("EXE")' <=> Nop("EXE")
          /\ Eop("EXE")' <=> Eop("EXE")
          /\ Nop("ID")' <=> Nop("ID")
          /\ Eop("ID")' <=> Eop("ID")
      BY <1>1, <1>2, <1>11, <2>2 DEF Nop, Eop
    <3>2. Live("EXE") /\ Live("ID")'
      BY <1>2, <2>2
    <3>3. Tail'
      BY <1>2, <1>3, <3>1, <3>2 DEF CountInv, Tail
    <3>4. Found'
      BY <1>1, <1>2, <1>3, <1>4, <3>1, <3>2 DEF CountInv, Found
    <3>5. Bubbles' = Bubbles
      BY <1>3, <3>1 DEF Bubbles, One
    <3>6. Accounted'
      BY <1>1, <1>4, <1>8, <2>1, <3>5, StillAccounted DEF CountInv
    <3> QED
      BY <1>9, <3>3, <3>4, <3>6 DEF CountInv
  <2>3. CASE ~ InStall("EXE")
    <3>1. /\ ~ Nop("EXE") /\ ~ Eop("EXE")
          /\ Nop("EXE")' <=> Nop("ID")
          /\ Eop("EXE")' <=> Eop("ID")
          /\ ~ Nop("ID")' /\ ~ Eop("ID")' /\ ~ Live("ID")'
      BY <1>1, <1>2, <1>11, <2>3 DEF Nop, Eop
    <3>2. Tail'
      BY <1>2, <1>3, <3>1 DEF CountInv, Tail
    <3>3. Found'
      BY <1>1, <1>2, <1>3, <1>4, <3>1 DEF CountInv, Found
    <3>4. Bubbles' = Bubbles
      BY <1>3, <3>1 DEF Bubbles, One
    <3>5. Accounted'
      BY <1>1, <1>4, <1>8, <2>1, <3>4, StillAccounted DEF CountInv
    <3> QED
      BY <1>9, <3>2, <3>3, <3>5 DEF CountInv
  <2> QED
    BY <2>2, <2>3
<1> QED
  BY <1>10, <1>11

LEMMA FetchCount ==
  ASSUME ProgramsGiven, AddressesFit, KeepOrder(Setups), Shape, FlowInv, CountInv, FetchMove
  PROVE  CountInv'
<1>1. /\ phase = "fetch" /\ phase' = "end"
      /\ \A s \in {"WB", "MEM", "EXE"} : IR(s)' = IR(s)
      /\ total_clock_cycle' = total_clock_cycle /\ stalls' = stalls /\ cycles' = cycles
      /\ total_instr_count' = total_instr_count /\ pipe_run' = pipe_run
  BY DEF FetchMove, IR, Kept, Stages
<1>2. /\ Live("WB") /\ Live("MEM") /\ Live("EXE")
      /\ Live("ID") <=> (InStall("ID") \/ InStall("EXE"))
      /\ Live("WB")' /\ Live("MEM")' /\ Live("EXE")' /\ Live("ID")'
  BY <1>1 DEF Live
<1>3. \A s \in {"WB", "MEM", "EXE"} : /\ Nop(s)' <=> Nop(s)
                                      /\ Eop(s)' <=> Eop(s)
  BY <1>1, <1>2 DEF Nop, Eop
<1>4. Over' <=> Over
  BY <1>1 DEF Over
<1>5. Put'
  BY <1>1 DEF Put
<1>6. /\ NotTaken /\ EndSeen /\ Ordered
      /\ stall_put <=> (InStall("EXE") \/ InStall("ID"))
  BY <1>1 DEF CountInv, Put, FlowInv
<1>7. CASE ~ CanFetch
  <2>1. IR("ID")' = IR("ID") /\ stall_put' = stall_put
    BY <1>7 DEF FetchMove, IR
  <2>2. Live("ID") \/ IR("ID").opcode = "EOP"
    <3>1. \A n \in Nat : (4 * n) \div 4 = n
      OBVIOUS
    <3>2. FetchPC \div 4 <= PROGRAM_SIZE
      BY <1>6, <3>1, FetchAtPc, Places DEF Ordered
    <3> QED
      BY <1>2, <1>6, <1>7, <3>2 DEF CanFetch, EndSeen
  <2>3. Nop("ID")' <=> Nop("ID")
    BY <1>2, <2>1, <2>2 DEF Nop
  <2>4. Eop("ID") => Eop("ID")'
    BY <1>2, <2>1 DEF Eop
  <2>5. Live("ID") \/ Eop("ID")'
    BY <1>2, <2>1, <2>2 DEF Eop
  <2>6. Tail'
    BY <1>2, <1>3, <2>4, <2>5 DEF CountInv, Tail
  <2>7. Found'
    BY <1>1, <1>2, <1>3, <1>4, <2>4, <2>5 DEF CountInv, Found
  <2>8. Bubbles' = Bubbles
    BY <1>3, <2>3 DEF Bubbles, One
  <2>9. Accounted'
    BY <1>1, <1>4, <2>1, <2>8, Counts, StillAccounted DEF CountInv
  <2> QED
    BY <1>5, <2>6, <2>7, <2>9 DEF CountInv
<1>8. CASE CanFetch
  <2>1. ~ InStall("ID") /\ ~ InStall("EXE") /\ ~ end
    BY <1>8 DEF CanFetch
  <2>2. ~ Eop("WB") /\ ~ Eop("MEM") /\ ~ Eop("EXE") /\ ~ Nop("ID")
    BY <1>2, <1>6, <2>1 DEF EndSeen, Eop, Nop, Stages
  <2>3. Tail'
    BY <1>3, <2>2 DEF Tail
  <2>4. ~ Over
    BY <1>1, <1>2, <2>2 DEF CountInv, Found
  <2>5. Found'
    BY <1>1, <1>4, <2>4 DEF CountInv, Found
  <2>6. ~ stall_put
    BY <1>6, <2>1
  <2>7. Accounted'
    <3>1. Bubbles \in Nat /\ One(stall_put) = 0
      BY <2>6 DEF Bubbles, One
    <3>2. CASE IR("ID")' = Blank("NOP") /\ stall_put' = TRUE
      <4>1. Nop("ID")'
        BY <1>2, <3>2, BlankNop DEF Nop
      <4>2. Bubbles' = Bubbles + 1
        BY <1>3, <2>2, <4>1 DEF Bubbles, One
      <4>3. One(stall_put)' = 1 /\ stall_put' \in BOOLEAN
        BY <3>2 DEF One
      <4> QED
        BY <1>1, <1>4, <3>1, <4>2, <4>3, StillAccounted DEF CountInv
    <3>3. CASE IR("ID")' = Fetched /\ stall_put' = stall_put
      <4>1. ~ Nop("ID")'
        <5>1. Fetched = Instr(AtID)
          BY <1>1, <1>6, <1>8, FetchedIs
        <5>2. \A n \in DOMAIN prog : prog[n].opcode # "NOP"
          BY DEF KeepOrder, StraightLine, Shape
        <5>3. Fetched.opcode # "NOP"
          BY <5>1, <5>2, InstrIs, BlankEop
        <5> QED
          BY <3>3, <5>3 DEF Nop
      <4>2. Bubbles' = Bubbles
        BY <1>3, <2>2, <4>1 DEF Bubbles, One
      <4> QED
        BY <1>1, <1>4, <3>3, <4>2, Counts, StillAccounted DEF CountInv
    <3> QED
      BY <1>8, <3>2, <3>3 DEF FetchMove
  <2> QED
    BY <1>5, <2>3, <2>5, <2>7 DEF CountInv
<1> QED
  BY <1>7, <1>8

LEMMA EndCycleCount ==
  ASSUME Shape, CountInv, Uncapped, EndCycle
  PROVE  CountInv'
<1>1. /\ phase = "end" /\ latch' = latch /\ stall' = stall
      /\ total_instr_count' = total_instr_count /\ pipe_run' = pipe_run
      /\ stall_put' = FALSE
      /\ total_clock_cycle' = total_clock_cycle + 1
      /\ stalls' = stalls + One(stall_put)
      /\ cycles' = IF ~ pipe_run /\ cycles > 0 THEN cycles - 1 ELSE cycles
      /\ phase' = IF pipe_run \/ cycles' # 0 THEN "writeback" ELSE "idle"
  <2>1. total_clock_cycle < MaxCycles /\ stalls < MaxCycles
    BY DEF Uncapped
  <2>2. stalls' = stalls + One(stall_put)
    BY <2>1, Counts DEF EndCycle, Counted, One
  <2> QED
    BY <2>1, <2>2 DEF EndCycle, Counted
<1>2. \A s \in {"WB", "MEM", "EXE", "ID"} : /\ Nop(s)' <=> Nop(s)
                                            /\ Eop(s)' <=> Eop(s)
                                            /\ Live(s) /\ Live(s)'
  BY <1>1 DEF Nop, Eop, Live, IR
<1>3. Tail' /\ Put'
  BY <1>1, <1>2 DEF CountInv, Tail, Put
<1>4. pipe_run => cycles = 0
  BY DEF CountInv, Found
<1>5. cycles \in Nat /\ pipe_run \in BOOLEAN
  BY Counts
<1>6. pipe_run' => cycles' = 0
  BY <1>1, <1>4, <1>5
<1>7. phase' = "idle" => ~ pipe_run' /\ cycles' = 0
  BY <1>1
<1>8. phase' = "writeback" => ~ Over'
  BY <1>1, <1>5 DEF Over
<1>9. Found'
  BY <1>1, <1>6, <1>7, <1>8 DEF Found
<1>10. Over => Over'
  <2>1. SUFFICES ASSUME Over PROVE Over'
    OBVIOUS
  <2>2. ~ pipe_run /\ cycles = 0 /\ Eop("WB")
    BY <1>1, <1>2, <2>1 DEF Over, CountInv, Found
  <2>3. phase' = "idle" /\ IR("WB")'.opcode = "EOP"
    BY <1>1, <2>2 DEF Eop, IR
  <2> QED
    BY <2>3 DEF Over
<1>11. Accounted'
  <2>1. SUFFICES ASSUME ~ Over'
                 PROVE  total_clock_cycle' + 1 + Bubbles'
                          = total_instr_count' + stalls' + One(stall_put)' + 4
    BY <1>1 DEF Accounted
  <2>2. total_clock_cycle + 1 + Bubbles = total_instr_count + stalls + One(stall_put) + 3
    BY <1>1, <1>10, <2>1 DEF CountInv, Accounted
  <2>3. Bubbles' = Bubbles /\ Bubbles \in Nat
    BY <1>2 DEF Bubbles, One
  <2>4. One(stall_put)' = 0
    BY <1>1 DEF One
  <2>5. \A t, s \in Int, i, p, b \in Nat :
          t + 1 + b = i + s + p + 3 => (t + 1) + 1 + b = i + (s + p) + 0 + 4
    OBVIOUS
  <2>6. (total_clock_cycle + 1) + 1 + Bubbles
          = total_instr_count + (stalls + One(stall_put)) + 0 + 4
    <3>1. One(stall_put) \in Nat
      BY DEF One
    <3>2. total_clock_cycle \in Int /\ stalls \in Int /\ total_instr_count \in Nat
      BY Counts
    <3> QED
      BY <2>2, <2>3, <2>5, <3>1, <3>2
  <2>7. /\ total_clock_cycle' = total_clock_cycle + 1
        /\ stalls' = stalls + One(stall_put) /\ total_instr_count' = total_instr_count
    BY <1>1
  <2> QED
    BY <2>3, <2>4, <2>6, <2>7
<1> QED
  BY <1>3, <1>9, <1>11 DEF CountInv

LEMMA RunCount ==
  ASSUME Shape, CountInv, NEW n \in Calls, Run(n)
  PROVE  CountInv'
<1>1. /\ phase = "idle" /\ phase' = "writeback" /\ ~ Ended
      /\ pipe_run' = (n = 0) /\ cycles' = n
      /\ latch' = latch /\ stall' = stall /\ stall_put' = stall_put
      /\ total_instr_count' = total_instr_count /\ stalls' = stalls
      /\ total_clock_cycle' = total_clock_cycle
  BY DEF Run, clock
<1>2. \A s \in {"WB", "MEM", "EXE", "ID"} : /\ Nop(s)' <=> Nop(s)
                                            /\ Eop(s)' <=> Eop(s)
                                            /\ Live(s) /\ Live(s)'
  BY <1>1 DEF Nop, Eop, Live, IR
<1>3. Tail' /\ Put'
  BY <1>1, <1>2 DEF CountInv, Tail, Put
<1>4. ~ Over' /\ ~ Over
  <2>1. ~ (~ pipe_run' /\ cycles' = 0)
    BY <1>1
  <2> QED
    BY <1>1, <2>1 DEF Over, Ended
<1>5. Found'
  BY <1>1, <1>4 DEF Found
<1>6. Bubbles' = Bubbles
  BY <1>2 DEF Bubbles, One
<1>7. Accounted'
  BY <1>1, <1>4, <1>6 DEF CountInv, Accounted, One
<1> QED
  BY <1>3, <1>5, <1>7 DEF CountInv

LEMMA ResetCount ==
  ASSUME Shape, CountInv, Reset
  PROVE  CountInv'
<1>1. /\ phase = "idle" /\ phase' = "idle"
      /\ latch' = EmptyPipe /\ total_instr_count' = 0 /\ stall_put' = FALSE
      /\ stalls' = 0 /\ total_clock_cycle' = -1
      /\ pipe_run' = pipe_run /\ cycles' = cycles
  BY DEF Reset, calls
<1>2. \A s \in {"WB", "MEM", "EXE", "ID"} : IR(s)'.opcode = "NOP"
  BY <1>1, EmptyPipeIs, BlankNop DEF IR, Stages
<1>3. \A s \in {"WB", "MEM", "EXE", "ID"} : Nop(s)' /\ ~ Eop(s)'
  BY <1>1, <1>2 DEF Nop, Eop, Live
<1>4. Bubbles' = 4
  BY <1>3 DEF Bubbles, One
<1>5. Accounted'
  BY <1>1, <1>4 DEF Accounted, One
<1>6. Tail' /\ Put'
  BY <1>1, <1>3 DEF Tail, Put
<1>7. Found'
  BY <1>1 DEF CountInv, Found
<1> QED
  BY <1>5, <1>6, <1>7 DEF CountInv

LEMMA InitCount == Init => CountInv
<1>1. SUFFICES ASSUME Init PROVE CountInv
  OBVIOUS
<1>2. /\ phase = "idle" /\ latch = EmptyPipe /\ total_instr_count = 0 /\ stall_put = FALSE
      /\ stalls = 0 /\ total_clock_cycle = -1 /\ pipe_run = FALSE /\ cycles = 0
  BY <1>1 DEF Init
<1>3. \A s \in {"WB", "MEM", "EXE", "ID"} : IR(s).opcode = "NOP"
  BY <1>2, EmptyPipeIs, BlankNop DEF IR, Stages
<1>4. \A s \in {"WB", "MEM", "EXE", "ID"} : Nop(s) /\ ~ Eop(s)
  BY <1>2, <1>3 DEF Nop, Eop, Live
<1>5. Bubbles = 4
  BY <1>4 DEF Bubbles, One
<1>6. Accounted
  BY <1>2, <1>5 DEF Accounted, One
<1>7. Tail /\ Put
  BY <1>2, <1>4 DEF Tail, Put
<1>8. Found
  BY <1>2 DEF Found
<1> QED
  BY <1>6, <1>7, <1>8 DEF CountInv

LEMMA StepCount ==
  ASSUME ProgramsGiven, AddressesFit, KeepOrder(Setups), OverwriteNothing(Setups),
         OrderInv, CountInv, Uncapped, StopsAtEnd, [Next]_vars
  PROVE  CountInv'
<1>1. Shape /\ FlowInv /\ NoOverwrite(prog)
  BY DEF OrderInv, Shape, OverwriteNothing
<1>2. CASE Step
  <2>1. Move \/ EndCycle
    BY <1>1, <1>2, StepMoves
  <2> QED
    BY <1>1, <2>1, WritebackCount, MemoryCount, ExecuteCount, DecodeCount, FetchCount,
       EndCycleCount DEF Move
<1>3. ASSUME NEW n \in Calls, Run(n) PROVE CountInv'
  BY <1>1, <1>3, RunCount
<1>4. CASE Reset
  BY <1>1, <1>4, ResetCount
<1>5. CASE UNCHANGED vars
  <2>1. /\ phase' = phase /\ latch' = latch /\ stall' = stall /\ stall_put' = stall_put
        /\ total_instr_count' = total_instr_count /\ stalls' = stalls
        /\ total_clock_cycle' = total_clock_cycle
        /\ pipe_run' = pipe_run /\ cycles' = cycles
    BY <1>5 DEF vars, clock, calls
  <2> QED
    BY <2>1 DEF CountInv, Tail, Found, Put, Accounted, Bubbles, Over, Nop, Eop, Live, IR,
       InStall, One
<1> QED
  BY <1>2, <1>3, <1>4, <1>5 DEF Next

LEMMA CountAccounts == Shape /\ CountInv => StallsAccounted
<1>1. SUFFICES ASSUME Shape, CountInv, phase = "writeback", IR("WB").opcode = "EOP"
               PROVE  total_clock_cycle = total_instr_count + stalls + 3
  BY DEF StallsAccounted
<1>2. ~ Over /\ ~ stall_put
  BY <1>1 DEF CountInv, Found, Put
<1>3. \A s \in {"WB", "MEM", "EXE", "ID"} : Live(s)
  BY <1>1 DEF Live
<1>4. \A s \in {"WB", "MEM", "EXE", "ID"} : IR(s).opcode = "EOP"
  BY <1>1, <1>3 DEF CountInv, Tail, Eop
<1>5. Bubbles = 0
  BY <1>4 DEF Bubbles, One, Nop
<1>6. total_clock_cycle + 1 + 0 = total_instr_count + stalls + 0 + 4
  BY <1>1, <1>2, <1>5 DEF CountInv, Accounted, One
<1>7. \A t, s \in Int, i \in Nat : t + 1 + 0 = i + s + 0 + 4 => t = i + s + 3
  OBVIOUS
<1> QED
  BY <1>1, <1>6, <1>7, Counts

\* Every cycle but the four that fill the pipeline has retired an instruction or is
\* counted as a stall, as long as the driver does not run past the end of the
\* program.
THEOREM CyclesAccounted ==
  ProgramsGiven /\ AddressesFit /\ KeepOrder(Setups) /\ OverwriteNothing(Setups) =>
    (Spec /\ [](Uncapped /\ StopsAtEnd) => []StallsAccounted)
<1> SUFFICES ASSUME ProgramsGiven /\ AddressesFit /\ KeepOrder(Setups)
                      /\ OverwriteNothing(Setups)
             PROVE  Spec /\ [](Uncapped /\ StopsAtEnd) => []StallsAccounted
  OBVIOUS
<1>1. Init => OrderInv /\ CountInv
  BY InitShape, InitFlow, InitCount DEF OrderInv
<1>2. OrderInv /\ CountInv /\ (Uncapped /\ StopsAtEnd) /\ [Next]_vars
        => OrderInv' /\ CountInv'
  BY StepOrder, StepCount
<1>3. OrderInv /\ CountInv => StallsAccounted
  BY CountAccounts DEF OrderInv
<1> QED
  BY <1>1, <1>2, <1>3, PTL DEF Spec
-----------------------------------------------------------------------------
(* Types *)

LatchRecord == [ir : Instruction, NPC : Word, A : Word, B : Word, IMM : Word,
                COND : Word, ALU_OUTPUT : Word, LMD : Word]

TypeInv ==
  /\ Shape
  /\ latch \in [Stages -> LatchRecord]
  /\ pc \in Word
  /\ \A r \in DOMAIN gp_int : gp_int[r] \in Word
  /\ \A a \in DOMAIN data_memory : data_memory[a] \in Word
  /\ total_clock_cycle \in Nat \cup {-1} /\ stalls \in Nat

\* A latch with other words.
LEMMA LatchFields ==
  /\ \A i \in Instruction : Clean(i) \in LatchRecord
  /\ \A r \in LatchRecord : \A v \in Word :
       /\ [r EXCEPT !.NPC = v] \in LatchRecord
       /\ [r EXCEPT !.A = v] \in LatchRecord
       /\ [r EXCEPT !.B = v] \in LatchRecord
       /\ [r EXCEPT !.IMM = v] \in LatchRecord
       /\ [r EXCEPT !.COND = v] \in LatchRecord
       /\ [r EXCEPT !.ALU_OUTPUT = v] \in LatchRecord
       /\ [r EXCEPT !.LMD = v] \in LatchRecord
<1>1. \A i \in Instruction : Clean(i) \in LatchRecord
  BY UndefinedWord DEF Clean, LatchRecord
<1>2. \A r \in LatchRecord : \A v \in Word :
        /\ [r EXCEPT !.NPC = v] \in LatchRecord
        /\ [r EXCEPT !.A = v] \in LatchRecord
        /\ [r EXCEPT !.B = v] \in LatchRecord
  BY DEF LatchRecord
<1>3. \A r \in LatchRecord : \A v \in Word :
        /\ [r EXCEPT !.IMM = v] \in LatchRecord
        /\ [r EXCEPT !.COND = v] \in LatchRecord
  BY DEF LatchRecord
<1>4. \A r \in LatchRecord : \A v \in Word :
        /\ [r EXCEPT !.ALU_OUTPUT = v] \in LatchRecord
        /\ [r EXCEPT !.LMD = v] \in LatchRecord
  BY DEF LatchRecord
<1> QED
  BY <1>1, <1>2, <1>3, <1>4

LEMMA LatchWords ==
  ASSUME TypeInv, NEW s \in Stages
  PROVE  /\ latch[s] \in LatchRecord
         /\ latch[s].ir \in Instruction
         /\ latch[s].NPC \in Word /\ latch[s].A \in Word /\ latch[s].B \in Word
         /\ latch[s].IMM \in Word /\ latch[s].COND \in Word
         /\ latch[s].ALU_OUTPUT \in Word /\ latch[s].LMD \in Word
<1>1. latch[s] \in LatchRecord
  BY DEF TypeInv
<1> QED
  BY <1>1 DEF LatchRecord

LEMMA FetchPCWord == TypeInv => FetchPC \in Word /\ FetchPC \in Int
<1>1. SUFFICES ASSUME TypeInv PROVE FetchPC \in Word
  BY SizeGiven DEF Word
<1> QED
  BY <1>1, LatchWords DEF FetchPC, TypeInv, Stages

LEMMA PipeAluWord ==
  ASSUME BitwiseGivesWords, NEW op, NEW a \in Word, NEW b \in Word, NEW imm \in Word,
         NEW npc \in Word
  PROVE  alu(op, a, b, imm, npc) \in Word
<1>1. a \in Nat /\ imm \in Nat /\ npc \in Nat
  BY SizeGiven DEF Word
<1>2. a + imm \in Int /\ npc + imm \in Int
  BY <1>1
<1>3. Wrap(a + imm) \in Word /\ Wrap(npc + imm) \in Word
  BY <1>2, WrapWord
<1>4. Alu(op, a, b, imm, npc) \in Word
  BY AluWord
<1> QED
  BY <1>3, <1>4, Zenon DEF alu

LEMMA ReadWords ==
  ASSUME TypeInv
  PROVE  /\ \A r : Register(r) \in Word
         /\ \A a : Loaded(a) \in Word
         /\ \A i \in Instruction : LET read == Operands(i)
              IN read.A \in Word /\ read.B \in Word /\ read.IMM \in Word
<1>1. \A r : Register(r) \in Word
  BY UndefinedWord DEF TypeInv, Register
<1>2. \A a : Loaded(a) \in Word
  BY UndefinedWord DEF TypeInv, Loaded
<1>3. ASSUME NEW i \in Instruction
      PROVE  LET read == Operands(i)
             IN read.A \in Word /\ read.B \in Word /\ read.IMM \in Word
  <2>1. i.immediate \in Word
    BY DEF Instruction
  <2> HIDE DEF Register
  <2> QED
    BY <1>1, <2>1, UndefinedWord DEF Operands
<1> QED
  BY <1>1, <1>2, <1>3

LEMMA MemoryLatch ==
  ASSUME TypeInv, MemoryWait \/ MemoryPass \/ MemoryAccess
  PROVE  /\ latch' \in [Stages -> LatchRecord]
         /\ \A a \in DOMAIN data_memory' : data_memory'[a] \in Word
<1>1. latch \in [Stages -> LatchRecord] /\ \A a \in DOMAIN data_memory : data_memory[a] \in Word
  BY DEF TypeInv
<1>2. IR("MEM") \in Instruction
  BY LatchWords DEF IR, Stages
<1>3. CASE MemoryWait
  <2>1. Bubble \in LatchRecord
    BY LatchFields, BlankNop DEF Bubble
  <2>2. latch' = [latch EXCEPT !["WB"] = Bubble] /\ data_memory' = data_memory
    BY <1>3 DEF MemoryWait
  <2> QED
    BY <1>1, <2>1, <2>2
<1>4. CASE MemoryPass
  <2>1. Clean(IR("MEM")) \in LatchRecord
    BY <1>2, LatchFields
  <2>2. latch' = [latch EXCEPT !["WB"] = Clean(IR("MEM"))] /\ data_memory' = data_memory
    BY <1>4 DEF MemoryPass
  <2> QED
    BY <1>1, <2>1, <2>2
<1>5. CASE MemoryAccess
  <2> DEFINE m == latch["MEM"]
             out == IF m.ir.opcode = "LW" THEN Loaded(m.ALU_OUTPUT) ELSE UNDEFINED
             new == [Clean(m.ir) EXCEPT !.ALU_OUTPUT = m.ALU_OUTPUT, !.COND = m.COND,
                                        !.LMD = out]
  <2>1. /\ latch' = [latch EXCEPT !["WB"] = new]
        /\ data_memory' = IF m.ir.opcode = "SW" /\ m.ALU_OUTPUT \in DOMAIN data_memory
                          THEN [data_memory EXCEPT ![m.ALU_OUTPUT] = m.B]
                          ELSE data_memory
    BY <1>5 DEF MemoryAccess
  <2>2. /\ m.ir \in Instruction
        /\ m.ALU_OUTPUT \in Word /\ m.COND \in Word /\ m.B \in Word
    BY LatchWords DEF Stages
  <2>3. out \in Word
    BY ReadWords, UndefinedWord
  <2> HIDE DEF m, out
  <2>4. Clean(m.ir) \in LatchRecord
    BY <2>2, LatchFields
  <2>5. new \in LatchRecord
    BY <2>2, <2>3, <2>4 DEF LatchRecord
  <2>6. latch' \in [Stages -> LatchRecord]
    BY <1>1, <2>1, <2>5
  <2>7. \A a \in DOMAIN data_memory' : data_memory'[a] \in Word
    BY <1>1, <2>1, <2>2
  <2> QED
    BY <2>6, <2>7
<1> QED
  BY <1>3, <1>4, <1>5

LEMMA ExecuteLatch ==
  ASSUME WordsGiven, TypeInv, ExecuteWait \/ ExecutePass \/ Execute
  PROVE  latch' \in [Stages -> LatchRecord]
<1>1. latch \in [Stages -> LatchRecord]
  BY DEF TypeInv
<1>2. CASE ExecuteWait
  BY <1>1, <1>2 DEF ExecuteWait
<1>3. CASE ExecutePass
  <2>1. Clean(IR("EXE")) \in LatchRecord
    BY LatchWords, LatchFields DEF IR, Stages
  <2> QED
    BY <1>1, <1>3, <2>1 DEF ExecutePass
<1>4. CASE Execute
  <2> DEFINE e == latch["EXE"]
             out == alu(e.ir.opcode, e.A, e.B, e.IMM, e.NPC)
             cond == Condition(e.ir.opcode, e.A)
             new == [Clean(e.ir) EXCEPT !.ALU_OUTPUT = out, !.B = e.B, !.COND = cond]
  <2>1. latch' = [latch EXCEPT !["MEM"] = new]
    BY <1>4 DEF Execute
  <2>2. /\ e.ir \in Instruction /\ e.A \in Word /\ e.B \in Word /\ e.IMM \in Word
        /\ e.NPC \in Word
    BY LatchWords DEF Stages
  <2>3. out \in Word
    BY <2>2, PipeAluWord DEF WordsGiven
  <2>4. cond \in Word
    <3>1. 1 \in Word
      BY OneWord
    <3> QED
      BY <3>1, UndefinedWord DEF Condition
  <2> HIDE DEF e, out, cond
  <2>5. Clean(e.ir) \in LatchRecord
    BY <2>2, LatchFields
  <2>6. new \in LatchRecord
    BY <2>2, <2>3, <2>4, <2>5 DEF LatchRecord
  <2> QED
    BY <1>1, <2>1, <2>6
<1> QED
  BY <1>2, <1>3, <1>4

LEMMA DecodeLatch ==
  ASSUME TypeInv, DecodeStall \/ DecodeBlocked \/ DecodePass \/ Decode
  PROVE  latch' \in [Stages -> LatchRecord]
<1>1. latch \in [Stages -> LatchRecord]
  BY DEF TypeInv
<1>2. IR("ID") \in Instruction /\ latch["ID"].NPC \in Word
  BY LatchWords DEF IR, Stages
<1>3. Clean(IR("ID")) \in LatchRecord
  BY <1>2, LatchFields
<1>4. CASE DecodeStall
  <2>1. Bubble \in LatchRecord
    BY LatchFields, BlankNop DEF Bubble
  <2> QED
    BY <1>1, <1>4, <2>1 DEF DecodeStall
<1>5. CASE DecodeBlocked
  BY <1>1, <1>5 DEF DecodeBlocked
<1>6. CASE DecodePass
  <2>1. PICK x \in Word : latch' = [latch EXCEPT !["EXE"] = [Clean(IR("ID")) EXCEPT !.NPC = x]]
    BY <1>2, <1>6, UndefinedWord DEF DecodePass
  <2> QED
    BY <1>1, <1>3, <2>1, LatchFields
<1>7. CASE Decode
  <2> DEFINE read == Operands(IR("ID"))
             new == [Clean(IR("ID")) EXCEPT !.NPC = latch["ID"].NPC, !.A = read.A,
                                            !.B = read.B, !.IMM = read.IMM]
  <2>1. latch' = [latch EXCEPT !["EXE"] = new]
    BY <1>7 DEF Decode
  <2>2. read.A \in Word /\ read.B \in Word /\ read.IMM \in Word
    BY <1>2, ReadWords
  <2> HIDE DEF read
  <2>3. new \in LatchRecord
    BY <1>2, <1>3, <2>2 DEF LatchRecord
  <2> QED
    BY <1>1, <2>1, <2>3
<1> QED
  BY <1>4, <1>5, <1>6, <1>7

LEMMA FetchLatch ==
  ASSUME ProgramsGiven, TypeInv, FetchNothing \/ FetchStall \/ FetchEnd \/ Fetch
  PROVE  latch' \in [Stages -> LatchRecord] /\ pc' \in Word
<1>1. latch \in [Stages -> LatchRecord] /\ pc \in Word /\ Shape
  BY DEF TypeInv
<1>2. FetchPC \in Word /\ FetchPC + 4 \in Int
  BY FetchPCWord
<1>3. Wrap(FetchPC + 4) \in Word
  BY <1>2, WrapWord
<1>4. Clean(Fetched) \in LatchRecord
  BY <1>1, InstrIs, LatchFields DEF Fetched
<1> HIDE DEF FetchPC, Fetched
<1>5. CASE FetchNothing
  BY <1>1, <1>5 DEF FetchNothing
<1>6. CASE FetchStall
  <2>1. Bubble \in LatchRecord
    BY LatchFields, BlankNop DEF Bubble
  <2> QED
    BY <1>1, <1>6, <2>1 DEF FetchStall
<1>7. CASE FetchEnd
  <2>1. [Clean(Fetched) EXCEPT !.NPC = FetchPC] \in LatchRecord
    BY <1>2, <1>4, LatchFields
  <2> QED
    BY <1>1, <1>7, <2>1 DEF FetchEnd
<1>8. CASE Fetch
  <2>1. [Clean(Fetched) EXCEPT !.NPC = Wrap(FetchPC + 4)] \in LatchRecord
    BY <1>3, <1>4, LatchFields
  <2> QED
    BY <1>1, <1>3, <1>8, <2>1 DEF Fetch
<1> QED
  BY <1>5, <1>6, <1>7, <1>8

\* A stage keeps the latches, pc, the files and the counters typed.
LEMMA StepTypes ==
  ASSUME ProgramsGiven, WordsGiven, TypeInv, Step
  PROVE  TypeInv'
<1>1. /\ Shape /\ latch \in [Stages -> LatchRecord] /\ pc \in Word
      /\ \A r \in DOMAIN gp_int : gp_int[r] \in Word
      /\ \A a \in DOMAIN data_memory : data_memory[a] \in Word
      /\ total_clock_cycle \in Nat \cup {-1} /\ stalls \in Nat
  BY DEF TypeInv
<1>2. Shape'
  BY <1>1, StepMoves, MoveShape, EndCycleShape, FetchPCWord
<1>3. CASE WritebackNothing \/ WritebackEnd \/ Writeback
  <2>1. /\ latch' = latch /\ pc' = pc /\ data_memory' = data_memory
        /\ total_clock_cycle' = total_clock_cycle /\ stalls' = stalls
    BY <1>3 DEF WritebackNothing, WritebackEnd, Writeback, clock
  <2>2. \A r \in DOMAIN gp_int' : gp_int'[r] \in Word
    <3>1. latch["WB"].LMD \in Word /\ latch["WB"].ALU_OUTPUT \in Word
      BY LatchWords DEF Stages
    <3>2. ASSUME NEW r, NEW v \in Word, SetRegister(r, v)
          PROVE  \A r_1 \in DOMAIN gp_int' : gp_int'[r_1] \in Word
      BY <1>1, <3>2 DEF SetRegister
    <3>3. \/ gp_int' = gp_int
          \/ SetRegister(IR("WB").dest, latch["WB"].LMD)
          \/ SetRegister(IR("WB").dest, latch["WB"].ALU_OUTPUT)
      BY <1>3 DEF WritebackNothing, WritebackEnd, Writeback
    <3> QED
      BY <1>1, <3>1, <3>2, <3>3
  <2> QED
    BY <1>1, <1>2, <2>1, <2>2 DEF TypeInv
<1>4. CASE MemoryWait \/ MemoryPass \/ MemoryAccess
  <2>1. /\ pc' = pc /\ gp_int' = gp_int
        /\ total_clock_cycle' = total_clock_cycle /\ stalls' = stalls
    BY <1>4 DEF MemoryWait, MemoryPass, MemoryAccess, CheckMemory, clock
  <2> QED
    BY <1>1, <1>2, <1>4, <2>1, MemoryLatch DEF TypeInv
<1>5. CASE ExecuteWait \/ ExecutePass \/ Execute
  <2>1. /\ pc' = pc /\ gp_int' = gp_int /\ data_memory' = data_memory
        /\ total_clock_cycle' = total_clock_cycle /\ stalls' = stalls
    BY <1>5 DEF ExecuteWait, ExecutePass, Execute, CheckExecute, clock
  <2> QED
    BY <1>1, <1>2, <1>5, <2>1, ExecuteLatch DEF TypeInv
<1>6. CASE DecodeStall \/ DecodeBlocked \/ DecodePass \/ Decode
  <2>1. /\ pc' = pc /\ gp_int' = gp_int /\ data_memory' = data_memory
        /\ total_clock_cycle' = total_clock_cycle /\ stalls' = stalls
    BY <1>6 DEF DecodeStall, DecodeBlocked, DecodePass, Decode, Decoding, clock
  <2> QED
    BY <1>1, <1>2, <1>6, <2>1, DecodeLatch DEF TypeInv
<1>7. CASE FetchNothing \/ FetchStall \/ FetchEnd \/ Fetch
  <2>1. /\ gp_int' = gp_int /\ data_memory' = data_memory
        /\ total_clock_cycle' = total_clock_cycle /\ stalls' = stalls
    BY <1>7 DEF FetchNothing, FetchStall, FetchEnd, Fetch, Fetching, clock
  <2> QED
    BY <1>1, <1>2, <1>7, <2>1, FetchLatch DEF TypeInv
<1>8. CASE EndCycle
  <2>1. /\ latch' = latch /\ pc' = pc /\ gp_int' = gp_int /\ data_memory' = data_memory
        /\ stalls' \in {stalls, Counted(stalls)}
        /\ total_clock_cycle' = Counted(total_clock_cycle)
    BY <1>8 DEF EndCycle
  <2>2. stalls' \in Nat /\ total_clock_cycle' \in Nat \cup {-1}
    <3>1. (\A n \in Nat : Counted(n) \in Nat) /\ Counted(-1) \in Nat \cup {-1}
      BY DEF Counted
    <3> QED
      BY <1>1, <2>1, <3>1
  <2> QED
    BY <1>1, <1>2, <2>1, <2>2 DEF TypeInv
<1> QED
  BY <1>3, <1>4, <1>5, <1>6, <1>7, <1>8 DEF Step

LEMMA ResetTypes ==
  ASSUME WordsGiven, TypeInv, Reset
  PROVE  TypeInv'
<1>1. Shape'
  BY ResetShape DEF TypeInv
<1>2. PICK s \in RestartsAt[data_memory_latency] :
        gp_int' = s.gp_int /\ data_memory' = s.data_memory
  BY DEF Reset
<1>3. s \in Setups
  BY <1>2, IntPipeAssumption DEF RestartsAt, TypeInv, Shape
<1>4. Bubble \in LatchRecord
  BY LatchFields, BlankNop DEF Bubble
<1>5. latch' \in [Stages -> LatchRecord]
  BY <1>4 DEF Reset, EmptyPipe
<1>6. pc' \in Word /\ total_clock_cycle' = -1 /\ stalls' = 0
  BY OneWord DEF Reset
<1> QED
  BY <1>1, <1>2, <1>3, <1>5, <1>6 DEF TypeInv, WordsGiven

LEMMA InitTypes == WordsGiven => (Init => TypeInv)
<1>1. SUFFICES ASSUME WordsGiven, Init PROVE TypeInv
  OBVIOUS
<1>2. Bubble \in LatchRecord
  BY LatchFields, BlankNop DEF Bubble
<1>3. latch \in [Stages -> LatchRecord]
  BY <1>1, <1>2 DEF Init, EmptyPipe
<1>4. pc \in Word /\ total_clock_cycle = -1 /\ stalls = 0
  BY <1>1, OneWord DEF Init
<1>5. PICK s \in Setups : gp_int = s.gp_int /\ data_memory = s.data_memory
  BY <1>1 DEF Init
<1> QED
  BY <1>1, <1>3, <1>4, <1>5, InitShape DEF TypeInv, WordsGiven

LEMMA NextTypes ==
  ASSUME ProgramsGiven, WordsGiven, TypeInv, [Next]_vars
  PROVE  TypeInv'
<1>1. CASE Step
  BY <1>1, StepTypes
<1>2. ASSUME NEW n \in Calls, Run(n) PROVE TypeInv'
  BY <1>2, RunShape DEF TypeInv, Run, clock
<1>3. CASE Reset
  BY <1>3, ResetTypes
<1>4. CASE UNCHANGED vars
  BY <1>4 DEF TypeInv, Shape, vars, chosen, clock, calls, IR
<1> QED
  BY <1>1, <1>2, <1>3, <1>4 DEF Next

LEMMA TypesHold == TypeInv => TypeOK
<1>1. SUFFICES ASSUME TypeInv PROVE TypeOK
  OBVIOUS
<1>2. LatchType
  <2>1. SUFFICES ASSUME NEW s \in Stages
                 PROVE  /\ Holds(IR(s))
                        /\ {latch[s].NPC, latch[s].A, latch[s].B, latch[s].IMM,
                            latch[s].COND, latch[s].ALU_OUTPUT, latch[s].LMD} \subseteq Word
    BY DEF LatchType
  <2>2. IR(s) \in Instruction
    BY <1>1, LatchWords DEF IR
  <2>3. Holds(IR(s))
    BY <2>2 DEF Holds, Instruction
  <2>4. /\ latch[s].NPC \in Word /\ latch[s].A \in Word /\ latch[s].B \in Word
        /\ latch[s].IMM \in Word /\ latch[s].COND \in Word
        /\ latch[s].ALU_OUTPUT \in Word /\ latch[s].LMD \in Word
    BY <1>1, LatchWords
  <2> QED
    BY <2>3, <2>4
<1>3. stall \in [Stages -> StallType] /\ latency \in Int
  BY <1>1 DEF TypeInv, Shape
<1>4. {end, pipe_run, stall_put} \subseteq BOOLEAN
  BY <1>1 DEF TypeInv, Shape
<1>5. {total_instr_count, stalls, cycles} \subseteq Nat
  BY <1>1 DEF TypeInv, Shape
<1>6. phase \in {"idle", "writeback", "memory", "execute", "decode", "fetch", "end"}
  BY <1>1 DEF TypeInv, Shape, Phases
<1>7. /\ pc \in Word /\ total_clock_cycle \in Nat \cup {-1}
      /\ \A r \in DOMAIN gp_int : gp_int[r] \in Word
      /\ \A a \in DOMAIN data_memory : data_memory[a] \in Word
  BY <1>1 DEF TypeInv
<1> QED
  BY <1>2, <1>3, <1>4, <1>5, <1>6, <1>7 DEF TypeOK

\* Latches, registers and memory hold words, also when branches are taken, and the
\* stages, stalls and counters stay in their ranges.
THEOREM TypesCorrect == ProgramsGiven /\ WordsGiven => (Spec => []TypeOK)
<1> SUFFICES ASSUME ProgramsGiven /\ WordsGiven
             PROVE  Spec => []TypeOK
  OBVIOUS
<1>1. Init => TypeInv
  BY InitTypes
<1>2. TypeInv /\ [Next]_vars => TypeInv'
  BY NextTypes
<1>3. TypeInv => TypeOK
  BY TypesHold
<1> QED
  BY <1>1, <1>2, <1>3, PTL DEF Spec

-----------------------------------------------------------------------------
(* The values *)

\* What an instruction reads from given registers, and what it computes of that.
Reg(file, r) == IF r \in DOMAIN file THEN file[r] ELSE UNDEFINED

Read(file, i) ==
  [A   |-> IF i.opcode \in Branches THEN UNDEFINED
           ELSE Reg(file, IF i.opcode = "SW" THEN i.src2 ELSE i.src1),
   B   |-> IF i.opcode \in RegisterOps THEN Reg(file, i.src2)
           ELSE IF i.opcode = "SW" THEN Reg(file, i.src1) ELSE UNDEFINED,
   IMM |-> IF i.opcode \in RegisterOps \cup Branches THEN UNDEFINED ELSE i.immediate]

Computes(file, i) ==
  alu(i.opcode, Read(file, i).A, Read(file, i).B, Read(file, i).IMM, 0)

Cell(memory, a) == IF a \in DOMAIN memory THEN memory[a] ELSE UNDEFINED

Clear(older, s) == Busy(older) /\ Busy(s) => ~ Depends(IR(older), IR(s))

\* ID waits for the instruction in flight that writes its operand,
Awaiting ==
  \A older \in {"EXE", "MEM", "WB"} :
    Busy("ID") /\ Busy(older) /\ Depends(IR(older), IR("ID")) =>
      InStall("ID") /\ stall["ID"].reg = IR(older).dest

\* and no instruction that has left it needs what another one in flight will write,
Ready == Clear("MEM", "EXE") /\ Clear("WB", "EXE") /\ Clear("WB", "MEM")

\* so that the latches hold what comes of the registers as they are now.
OperandsRead ==
  Busy("EXE") => /\ latch["EXE"].A = Read(gp_int, IR("EXE")).A
                 /\ latch["EXE"].B = Read(gp_int, IR("EXE")).B
                 /\ latch["EXE"].IMM = Read(gp_int, IR("EXE")).IMM

Computed ==
  Busy("MEM") => /\ IR("MEM").opcode \notin Branches =>
                      latch["MEM"].ALU_OUTPUT = Computes(gp_int, IR("MEM"))
                 /\ latch["MEM"].B = Read(gp_int, IR("MEM")).B

Obtained ==
  Busy("WB") =>
    /\ IR("WB").opcode \in RegisterOps \cup ImmediateOps =>
         latch["WB"].ALU_OUTPUT = Computes(gp_int, IR("WB"))
    /\ IR("WB").opcode = "LW" =>
         latch["WB"].LMD = Cell(data_memory, Computes(gp_int, IR("WB")))

Files ==
  /\ gp_int = [r \in DOMAIN gp_int |-> gp_int[r]]
  /\ data_memory = [a \in DOMAIN data_memory |-> data_memory[a]]
  /\ \E s \in Setups : prog = s.prog /\ DOMAIN gp_int = DOMAIN s.gp_int

ValuesInv == Awaiting /\ Ready /\ OperandsRead /\ Computed /\ Obtained /\ Files

LEMMA ReadsAre ==
  /\ \A r : Register(r) = Reg(gp_int, r)
  /\ \A i : /\ Operands(i).A = Read(gp_int, i).A
            /\ Operands(i).B = Read(gp_int, i).B
            /\ Operands(i).IMM = Read(gp_int, i).IMM
  /\ \A a : Loaded(a) = Cell(data_memory, a)
<1>1. \A r : Register(r) = Reg(gp_int, r)
  BY DEF Register, Reg
<1>2. ASSUME NEW i
      PROVE  /\ Operands(i).A = Read(gp_int, i).A
             /\ Operands(i).B = Read(gp_int, i).B
             /\ Operands(i).IMM = Read(gp_int, i).IMM
  <2>1. /\ "SW" \notin Branches /\ "SW" \notin RegisterOps
        /\ i.opcode \in Branches => i.opcode \notin RegisterOps /\ i.opcode # "SW"
    BY DEF Branches, RegisterOps
  <2> QED
    BY <1>1, <2>1 DEF Operands, Read
<1>3. \A a : Loaded(a) = Cell(data_memory, a)
  BY DEF Loaded, Cell
<1> QED
  BY <1>1, <1>2, <1>3

\* Registers other than those an instruction names do not matter to it.
LEMMA ReadKept ==
  ASSUME NEW old, NEW new, NEW i, Reg(new, i.src1) = Reg(old, i.src1),
         Reg(new, i.src2) = Reg(old, i.src2)
  PROVE  /\ Read(new, i) = Read(old, i)
         /\ Computes(new, i) = Computes(old, i)
<1>1. Read(new, i) = Read(old, i)
  BY DEF Read
<1> QED
  BY <1>1 DEF Computes

\* Only the address a branch goes on at depends on where the branch is.
LEMMA NoAddress ==
  ASSUME NEW i, i.opcode \in RegisterOps \cup ImmediateOps \cup {"LW", "SW"},
         NEW a, NEW b, NEW imm, NEW npc
  PROVE  alu(i.opcode, a, b, imm, npc) = alu(i.opcode, a, b, imm, 0)
  BY DEF alu, Alu, RegisterOps, ImmediateOps, Branches

\* What is in flight moves with the instructions.
LEMMA WritebackBusy ==
  ASSUME WritebackMove
  PROVE  /\ \A s : IR(s)' = IR(s)
         /\ Busy("WB") <=> ~ Idle(IR("WB"))
         /\ ~ Busy("WB")'
         /\ \A s \in {"MEM", "EXE", "ID"} : Busy(s)' <=> Busy(s)
<1>1. /\ phase = "writeback" /\ phase' = "memory"
      /\ \A s : IR(s)' = IR(s)
  BY DEF WritebackMove, IR
<1> QED
  BY <1>1 DEF Busy, Live

LEMMA MemoryBusy ==
  ASSUME Shape, MemoryMove
  PROVE  /\ \A s \in {"MEM", "EXE", "ID"} : IR(s)' = IR(s)
         /\ ~ Busy("WB")
         /\ \A s \in {"EXE", "ID"} : Busy(s)' <=> Busy(s)
         /\ InStall("MEM")' => ~ Busy("WB")' /\ (Busy("MEM")' <=> Busy("MEM"))
         /\ ~ InStall("MEM")' =>
              IR("WB")' = IR("MEM") /\ ~ Busy("MEM")' /\ (Busy("WB")' <=> Busy("MEM"))
<1>1. /\ phase = "memory" /\ phase' = "execute"
      /\ \A s \in {"MEM", "EXE", "ID"} : IR(s)' = IR(s)
      /\ IR("WB")' = IF InStall("MEM")' THEN Blank("NOP") ELSE IR("MEM")
  BY DEF MemoryMove, IR, Stages
<1>2. Live("WB")' /\ (Live("MEM")' <=> InStall("MEM")')
  BY <1>1 DEF Live
<1>3. ~ Live("WB") /\ Live("MEM")
  BY <1>1 DEF Live
<1>4. \A s \in {"EXE", "ID"} : Live(s)' /\ Live(s)
  BY <1>1 DEF Live
<1>5. \A s \in {"EXE", "ID"} : Busy(s)' <=> Busy(s)
  BY <1>1, <1>4 DEF Busy
<1>6. ASSUME InStall("MEM")' PROVE ~ Busy("WB")' /\ (Busy("MEM")' <=> Busy("MEM"))
  BY <1>1, <1>2, <1>3, <1>6, BlankNop DEF Busy
<1>7. ASSUME ~ InStall("MEM")'
      PROVE  IR("WB")' = IR("MEM") /\ ~ Busy("MEM")' /\ (Busy("WB")' <=> Busy("MEM"))
  BY <1>1, <1>2, <1>3, <1>7 DEF Busy
<1> QED
  BY <1>1, <1>3, <1>5, <1>6, <1>7 DEF Busy

LEMMA ExecuteBusy ==
  ASSUME Shape, Waits, ExecuteMove
  PROVE  /\ \A s \in {"WB", "EXE", "ID"} : IR(s)' = IR(s)
         /\ \A s \in {"WB", "ID"} : Busy(s)' <=> Busy(s)
         /\ InStall("EXE")' => /\ IR("MEM")' = IR("MEM")
                               /\ Busy("MEM")' <=> Busy("MEM")
                               /\ Busy("EXE")' <=> Busy("EXE")
         /\ ~ InStall("EXE")' => /\ IR("MEM")' = IR("EXE") /\ ~ Busy("MEM")
                                 /\ Busy("MEM")' <=> Busy("EXE")
                                 /\ ~ Busy("EXE")'
<1>1. /\ phase = "execute" /\ phase' = "decode"
      /\ \A s \in {"WB", "EXE", "ID"} : IR(s)' = IR(s)
      /\ IR("MEM")' = IF InStall("EXE")' THEN IR("MEM") ELSE IR("EXE")
      /\ InStall("EXE")' <=> latency # 0 /\ (InStall("EXE") \/ MemoryOp(IR("MEM")))
  BY DEF ExecuteMove, IR, Stages
<1>2. /\ \A s \in {"WB", "EXE", "ID"} : Live(s)
      /\ Live("MEM") <=> InStall("MEM")
  BY <1>1 DEF Live
<1>3. /\ \A s \in {"WB", "MEM", "ID"} : Live(s)'
      /\ Live("EXE")' <=> InStall("EXE")'
  BY <1>1 DEF Live
<1>4. InStall("EXE")' <=> InStall("MEM")
  BY <1>1 DEF Waits
<1>5. \A s \in {"WB", "ID"} : Busy(s)' <=> Busy(s)
  BY <1>1, <1>2, <1>3 DEF Busy
<1>6. ASSUME InStall("EXE")'
      PROVE  /\ IR("MEM")' = IR("MEM")
             /\ Busy("MEM")' <=> Busy("MEM")
             /\ Busy("EXE")' <=> Busy("EXE")
  BY <1>1, <1>2, <1>3, <1>4, <1>6 DEF Busy
<1>7. ASSUME ~ InStall("EXE")'
      PROVE  /\ IR("MEM")' = IR("EXE") /\ ~ Busy("MEM")
             /\ Busy("MEM")' <=> Busy("EXE")
             /\ ~ Busy("EXE")'
  BY <1>1, <1>2, <1>3, <1>4, <1>7 DEF Busy
<1> QED
  BY <1>1, <1>5, <1>6, <1>7

LEMMA DecodeBusy ==
  ASSUME Shape, NoClash, DecodeMove
  PROVE  /\ \A s \in {"WB", "MEM", "ID"} : IR(s)' = IR(s)
         /\ stall' = stall
         /\ \A s \in {"WB", "MEM"} : Busy(s)' <=> Busy(s)
         /\ InStall("ID") => /\ ~ Busy("EXE") /\ ~ Busy("EXE")'
                             /\ Busy("ID")' <=> Busy("ID")
         /\ ~ InStall("ID") /\ InStall("EXE") => /\ IR("EXE")' = IR("EXE")
                                                 /\ Busy("EXE")' <=> Busy("EXE")
                                                 /\ Busy("ID")' <=> Busy("ID")
         /\ ~ InStall("ID") /\ ~ InStall("EXE") => /\ IR("EXE")' = IR("ID")
                                                   /\ Busy("EXE")' <=> Busy("ID")
                                                   /\ ~ Busy("EXE") /\ ~ Busy("ID")'
<1>1. /\ phase = "decode" /\ phase' = "fetch"
      /\ \A s \in {"WB", "MEM", "ID"} : IR(s)' = IR(s)
      /\ IR("EXE")' = IF InStall("ID") THEN Blank("NOP")
                      ELSE IF InStall("EXE") THEN IR("EXE") ELSE IR("ID")
      /\ stall' = stall
  BY DEF DecodeMove, IR, Stages
<1>2. /\ \A s \in {"WB", "MEM", "ID"} : Live(s)
      /\ Live("EXE") <=> InStall("EXE")
  BY <1>1 DEF Live
<1>3. InStall("ID")' = InStall("ID") /\ InStall("EXE")' = InStall("EXE")
  BY <1>1 DEF InStall
<1>4. /\ \A s \in {"WB", "MEM", "EXE"} : Live(s)'
      /\ Live("ID")' <=> (InStall("ID") \/ InStall("EXE"))
  BY <1>1, <1>3 DEF Live
<1>5. \A s \in {"WB", "MEM"} : Busy(s)' <=> Busy(s)
  BY <1>1, <1>2, <1>4 DEF Busy
<1>6. ASSUME InStall("ID")
      PROVE  ~ Busy("EXE") /\ ~ Busy("EXE")' /\ (Busy("ID")' <=> Busy("ID"))
  <2>1. InStall("EXE") => Idle(IR("EXE"))
    BY <1>1, <1>6 DEF NoClash, Idle
  <2> QED
    BY <1>1, <1>2, <1>4, <1>6, <2>1, BlankNop DEF Busy
<1>7. ASSUME ~ InStall("ID"), InStall("EXE")
      PROVE  /\ IR("EXE")' = IR("EXE")
             /\ Busy("EXE")' <=> Busy("EXE")
             /\ Busy("ID")' <=> Busy("ID")
  BY <1>1, <1>2, <1>4, <1>7 DEF Busy
<1>8. ASSUME ~ InStall("ID"), ~ InStall("EXE")
      PROVE  /\ IR("EXE")' = IR("ID")
             /\ Busy("EXE")' <=> Busy("ID")
             /\ ~ Busy("EXE") /\ ~ Busy("ID")'
  BY <1>1, <1>2, <1>4, <1>8 DEF Busy
<1> QED
  BY <1>1, <1>5, <1>6, <1>7, <1>8

LEMMA FetchBusy ==
  ASSUME FetchMove
  PROVE  /\ \A s \in {"WB", "MEM", "EXE"} : /\ IR(s)' = IR(s)
                                            /\ Busy(s)' <=> Busy(s)
                                            /\ Busy(s) <=> ~ Idle(IR(s))
         /\ Busy("ID")' <=> ~ Idle(IR("ID"))'
<1>1. /\ phase = "fetch" /\ phase' = "end"
      /\ \A s \in {"WB", "MEM", "EXE"} : IR(s)' = IR(s)
  BY DEF FetchMove, IR, Stages
<1>2. /\ \A s \in {"WB", "MEM", "EXE"} : Live(s) /\ Live(s)'
      /\ Live("ID")'
  BY <1>1 DEF Live
<1> QED
  BY <1>1, <1>2 DEF Busy, Idle

LEMMA NumbersDiffer ==
  ASSUME Shape, NEW s \in {"EXE", "MEM", "WB"}, NEW t \in {"EXE", "MEM", "WB"},
         Busy(s), Busy(t), Number(s) = Number(t)
  PROVE  s = t
<1>1. /\ Busy("WB") => AtMEM = total_instr_count + 1
      /\ Busy("MEM") => AtEXE = AtMEM + 1
  BY DEF AtMEM, AtEXE, One
<1>2. /\ total_instr_count \in Nat /\ AtMEM \in Nat /\ AtEXE \in Nat
      /\ total_instr_count <= AtMEM /\ AtMEM <= AtEXE
  BY Places DEF Shape
<1>3. Number("WB") = total_instr_count /\ Number("MEM") = AtMEM /\ Number("EXE") = AtEXE
  BY DEF Number
<1>4. /\ Busy("WB") => Number("WB") < Number("MEM") /\ Number("WB") < Number("EXE")
      /\ Busy("MEM") => Number("MEM") < Number("EXE")
  BY <1>1, <1>2, <1>3
<1>5. /\ Busy("WB") => Number("WB") # Number("MEM") /\ Number("WB") # Number("EXE")
      /\ Busy("MEM") => Number("MEM") # Number("EXE")
  BY <1>2, <1>3, <1>4
<1> QED
  BY <1>5

\* An instruction depends on one of those in flight before it.
LEMMA OnlyOne ==
  ASSUME ProgramsGiven, Shape, Ordered, OneProducer(prog), AtID \in DOMAIN prog,
         NEW s \in {"EXE", "MEM", "WB"}, NEW t \in {"EXE", "MEM", "WB"}, Busy(s), Busy(t),
         Depends(IR(s), prog[AtID]), Depends(IR(t), prog[AtID])
  PROVE  s = t
<1>1. ASSUME NEW q \in {"EXE", "MEM", "WB"}, Busy(q), Depends(IR(q), prog[AtID])
      PROVE  Number(q) \in Producers(prog, AtID)
  <2>1. HoldsAt(q, Number(q)) /\ Number(q) < AtID /\ AtID - Number(q) <= 3
    BY <1>1, Numbered
  <2>2. Number(q) \in DOMAIN prog /\ IR(q) = prog[Number(q)]
    BY <1>1, <2>1, BusyIs
  <2> QED
    BY <1>1, <2>1, <2>2 DEF Producers
<1>2. Number(s) = Number(t)
  BY <1>1 DEF OneProducer
<1> QED
  BY <1>2, NumbersDiffer

\* Writing back lowers a stall for its register only.
LEMMA WritebackKeepsWait ==
  ASSUME Shape, NEW i \in Instruction, stall["ID"].reg # i.dest,
         \A s \in {"EXE", "MEM"} : IR(s).dest = i.dest => ~ Depends(IR(s), i)
  PROVE  WritebackStall(i)["ID"] = stall["ID"]
  BY DEF WritebackStall, Stages

\* Only the register that is written changes.
LEMMA WritebackFiles ==
  ASSUME Shape, Files, RegistersRead, WritebackNothing \/ WritebackEnd \/ Writeback
  PROVE  /\ Files' /\ data_memory' = data_memory
         /\ \A r : \/ Reg(gp_int', r) = Reg(gp_int, r)
                   \/ ~ Idle(IR("WB")) /\ r = IR("WB").dest /\ r # UNDEFINED
<1>1. prog' = prog /\ data_memory' = data_memory
  BY DEF WritebackNothing, WritebackEnd, Writeback, chosen
<1>2. PICK s \in Setups : prog = s.prog /\ DOMAIN gp_int = DOMAIN s.gp_int
  BY DEF Files
<1>3. UNDEFINED \notin DOMAIN gp_int
  BY <1>2 DEF RegistersRead
<1>4. CASE gp_int' = gp_int
  BY <1>1, <1>4 DEF Files
<1>5. CASE gp_int' # gp_int
  <2>1. /\ ~ Idle(IR("WB"))
        /\ \E v : SetRegister(IR("WB").dest, v)
    BY <1>5 DEF WritebackNothing, WritebackEnd, Writeback
  <2>2. PICK v : /\ IR("WB").dest \in DOMAIN gp_int
                 /\ gp_int' = [gp_int EXCEPT ![IR("WB").dest] = v]
    BY <1>5, <2>1 DEF SetRegister
  <2>3. DOMAIN gp_int' = DOMAIN gp_int /\ gp_int' = [r \in DOMAIN gp_int' |-> gp_int'[r]]
    BY <2>2
  <2>4. \A r : r # IR("WB").dest => Reg(gp_int', r) = Reg(gp_int, r)
    BY <2>2, <2>3 DEF Reg
  <2>5. Files'
    BY <1>1, <1>2, <2>3 DEF Files
  <2> QED
    BY <1>1, <1>3, <2>1, <2>2, <2>4, <2>5
<1> QED
  BY <1>4, <1>5

LEMMA WritebackValues ==
  ASSUME ProgramsGiven, RegistersRead, OneProducer(prog), NoOverwrite(prog),
         Shape, FlowInv, ValuesInv, WritebackNothing \/ WritebackEnd \/ Writeback
  PROVE  ValuesInv'
<1>1. /\ Ordered /\ Awaiting /\ Ready /\ OperandsRead /\ Computed /\ Files
  BY DEF FlowInv, ValuesInv
<1>2. WritebackMove
  BY WritebackMoves
<1>3. /\ \A s : IR(s)' = IR(s)
      /\ Busy("WB") <=> ~ Idle(IR("WB"))
      /\ ~ Busy("WB")'
      /\ \A s \in {"MEM", "EXE", "ID"} : Busy(s)' <=> Busy(s)
      /\ latch' = latch /\ phase = "writeback"
  BY <1>2, WritebackBusy DEF WritebackMove
<1>4. /\ Files' /\ data_memory' = data_memory
      /\ \A r : \/ Reg(gp_int', r) = Reg(gp_int, r)
                \/ Busy("WB") /\ r = IR("WB").dest /\ r # UNDEFINED
  BY <1>1, <1>3, WritebackFiles
<1>5. ASSUME NEW s \in {"MEM", "EXE"}, Busy(s)
      PROVE  /\ Read(gp_int', IR(s)) = Read(gp_int, IR(s))
             /\ Computes(gp_int', IR(s)) = Computes(gp_int, IR(s))
  <2>1. Busy("WB") => ~ Depends(IR("WB"), IR(s))
    BY <1>1, <1>5 DEF Ready, Clear
  <2>2. \A r \in {IR(s).src1, IR(s).src2} : Reg(gp_int', r) = Reg(gp_int, r)
    BY <1>4, <1>5, <2>1 DEF Depends, Busy
  <2> QED
    BY <2>2, ReadKept
<1>6. OperandsRead' /\ Computed'
  <2>1. OperandsRead'
    BY <1>1, <1>3, <1>5 DEF OperandsRead
  <2>2. Computed'
    BY <1>1, <1>3, <1>5 DEF Computed
  <2> QED
    BY <2>1, <2>2
<1>7. Ready' /\ Obtained'
  <2>1. Clear("MEM", "EXE")'
    BY <1>1, <1>3 DEF Ready, Clear
  <2> QED
    BY <1>3, <2>1 DEF Ready, Clear, Obtained
<1>8. Awaiting'
  <2>1. SUFFICES ASSUME NEW older \in {"EXE", "MEM"}, Busy("ID"), Busy(older),
                        Depends(IR(older), IR("ID"))
                 PROVE  stall'["ID"] = stall["ID"]
    <3>1. ASSUME NEW older \in {"EXE", "MEM"}, Busy("ID"), Busy(older),
                 Depends(IR(older), IR("ID")), stall'["ID"] = stall["ID"]
          PROVE  InStall("ID")' /\ stall'["ID"].reg = IR(older).dest
      BY <1>1, <3>1 DEF Awaiting, InStall
    <3> QED
      BY <1>3, <2>1, <3>1 DEF Awaiting
  <2>2. CASE Idle(IR("WB"))
    BY <1>2, <2>2 DEF WritebackMove
  <2>3. CASE ~ Idle(IR("WB"))
    <3>1. stall' = WritebackStall(IR("WB")) /\ IR("WB") \in Instruction
      BY <2>3 DEF WritebackNothing, WritebackEnd, Writeback, Idle, Shape, Stages
    <3>2. stall["ID"].reg = IR(older).dest
      BY <1>1, <2>1 DEF Awaiting
    <3>3. stall["ID"].reg # IR("WB").dest
      <4>1. SUFFICES ASSUME IR("WB").dest = IR(older).dest PROVE FALSE
        BY <3>2
      <4>2. Depends(IR("WB"), IR("ID"))
        BY <2>1, <2>3, <4>1 DEF Depends
      <4>3. AtID \in DOMAIN prog /\ IR("ID") = prog[AtID]
        BY <1>1, <2>1, BusyIs DEF Ordered
      <4>4. "WB" = older
        BY <1>1, <1>3, <2>1, <2>3, <4>2, <4>3, OnlyOne
      <4> QED
        BY <4>4
    <3>4. \A s \in {"EXE", "MEM"} : IR(s).dest = IR("WB").dest => ~ Depends(IR(s), IR("WB"))
      BY <1>1, <1>3, <2>3, NotOverwritten
    <3> QED
      BY <3>1, <3>3, <3>4, WritebackKeepsWait
  <2> QED
    BY <2>2, <2>3
<1> QED
  BY <1>4, <1>6, <1>7, <1>8 DEF ValuesInv

\* Only integer instructions are in flight.
LEMMA BusyCode ==
  ASSUME ProgramsGiven, RegistersRead, Shape, Files, NEW s, NEW n, Busy(s), HoldsAt(s, n)
  PROVE  /\ IR(s).opcode \in RegisterOps \cup ImmediateOps \cup Branches \cup {"LW", "SW"}
         /\ IR(s).src1 \in DOMAIN gp_int
         /\ IR(s).opcode \in RegisterOps \cup {"SW"} => IR(s).src2 \in DOMAIN gp_int
<1>1. n \in DOMAIN prog /\ IR(s) = prog[n]
  BY BusyIs
<1>2. PICK m \in Setups : prog = m.prog /\ DOMAIN gp_int = DOMAIN m.gp_int
  BY DEF Files
<1> QED
  BY <1>1, <1>2 DEF RegistersRead

LEMMA MemoryValues ==
  ASSUME Shape, FlowInv, ValuesInv, MemoryWait \/ MemoryPass \/ MemoryAccess
  PROVE  ValuesInv'
<1>1. /\ Awaiting /\ Ready /\ OperandsRead /\ Computed /\ Files
  BY DEF ValuesInv
<1>2. MemoryMove
  BY MemoryMoves
<1>3. /\ \A s \in {"MEM", "EXE", "ID"} : IR(s)' = IR(s)
      /\ \A s \in {"EXE", "ID"} : Busy(s)' <=> Busy(s)
      /\ InStall("MEM")' => ~ Busy("WB")' /\ (Busy("MEM")' <=> Busy("MEM"))
      /\ ~ InStall("MEM")' =>
           IR("WB")' = IR("MEM") /\ ~ Busy("MEM")' /\ (Busy("WB")' <=> Busy("MEM"))
  BY <1>2, MemoryBusy
<1>4. /\ gp_int' = gp_int /\ prog' = prog
      /\ \A s \in {"EXE", "MEM"} : latch'[s] = latch[s]
  BY <1>2 DEF MemoryMove, MemoryWait, MemoryPass, MemoryAccess, CheckMemory, chosen, Stages
<1>5. stall'["ID"] = stall["ID"]
  <2>1. IR("MEM") \in Instruction /\ stall' = MemoryStall(IR("MEM"))
    BY DEF Shape, Stages, MemoryWait, MemoryPass, MemoryAccess, CheckMemory
  <2> QED
    BY <2>1, MemoryStallIs, LatencyInt
<1>6. Awaiting'
  <2>1. SUFFICES ASSUME NEW older \in {"EXE", "MEM", "WB"}, Busy("ID")', Busy(older)',
                        Depends(IR(older)', IR("ID")')
                 PROVE  InStall("ID")' /\ stall'["ID"].reg = IR(older)'.dest
    BY DEF Awaiting
  <2>2. PICK q \in {"EXE", "MEM"} : Busy(q) /\ IR(older)' = IR(q)
    BY <1>3, <2>1
  <2> QED
    BY <1>1, <1>3, <1>5, <2>1, <2>2 DEF Awaiting, InStall
<1>7. Ready'
  BY <1>1, <1>3 DEF Ready, Clear
<1>8. OperandsRead' /\ Computed'
  BY <1>1, <1>3, <1>4 DEF OperandsRead, Computed
<1>9. Files'
  <2>1. data_memory' = [a \in DOMAIN data_memory' |-> data_memory'[a]]
    <3>1. \/ data_memory' = data_memory
          \/ \E a, v : data_memory' = [data_memory EXCEPT ![a] = v]
      BY DEF MemoryWait, MemoryPass, MemoryAccess
    <3> QED
      BY <1>1, <3>1 DEF Files
  <2> QED
    BY <1>1, <1>4, <2>1 DEF Files
<1>10. Obtained'
  <2>1. SUFFICES ASSUME Busy("WB")'
                 PROVE  /\ IR("WB")'.opcode \in RegisterOps \cup ImmediateOps =>
                             latch'["WB"].ALU_OUTPUT = Computes(gp_int, IR("MEM"))
                        /\ IR("WB")'.opcode = "LW" =>
                             latch'["WB"].LMD = Cell(data_memory', Computes(gp_int, IR("MEM")))
    BY <1>3, <1>4 DEF Obtained
  <2>2. Busy("MEM") /\ ~ Idle(IR("MEM")) /\ IR("WB")' = IR("MEM") /\ ~ InStall("MEM")'
    BY <1>3, <2>1 DEF Busy
  <2>3. MemoryAccess
    BY <2>2 DEF MemoryWait, MemoryPass, CheckMemory, InStall
  <2>4. /\ latch'["WB"].ALU_OUTPUT = latch["MEM"].ALU_OUTPUT
        /\ IR("MEM").opcode = "LW" =>
             latch'["WB"].LMD = Loaded(latch["MEM"].ALU_OUTPUT) /\ data_memory' = data_memory
    <3>1. PICK x : /\ latch' = [latch EXCEPT !["WB"] =
                        [Clean(IR("MEM")) EXCEPT !.ALU_OUTPUT = latch["MEM"].ALU_OUTPUT,
                           !.COND = latch["MEM"].COND, !.LMD = x]]
                   /\ IR("MEM").opcode = "LW" => x = Loaded(latch["MEM"].ALU_OUTPUT)
      BY <2>3 DEF MemoryAccess, IR
    <3>2. LET r == [Clean(IR("MEM")) EXCEPT !.ALU_OUTPUT = latch["MEM"].ALU_OUTPUT,
                      !.COND = latch["MEM"].COND, !.LMD = x]
          IN r.ALU_OUTPUT = latch["MEM"].ALU_OUTPUT /\ r.LMD = x
      BY DEF Clean
    <3>3. "WB" \in DOMAIN latch
      BY DEF Shape, Stages
    <3>4. IR("MEM").opcode = "LW" => data_memory' = data_memory
      BY <2>3 DEF MemoryAccess, IR
    <3> QED
      BY <3>1, <3>2, <3>3, <3>4
  <2>5. IR("MEM").opcode \in RegisterOps \cup ImmediateOps \cup {"LW"} =>
          latch["MEM"].ALU_OUTPUT = Computes(gp_int, IR("MEM"))
    BY <1>1, <2>2 DEF Computed, RegisterOps, ImmediateOps, Branches
  <2> QED
    BY <2>2, <2>4, <2>5, ReadsAre
<1> QED
  BY <1>6, <1>7, <1>8, <1>9, <1>10 DEF ValuesInv

LEMMA ExecuteValues ==
  ASSUME ProgramsGiven, RegistersRead, Shape, FlowInv, ValuesInv,
         ExecuteWait \/ ExecutePass \/ Execute
  PROVE  ValuesInv'
<1>1. /\ Ordered /\ Waits /\ Awaiting /\ Ready /\ OperandsRead /\ Computed /\ Obtained
      /\ Files
  BY DEF ValuesInv, FlowInv
<1>2. ExecuteMove
  BY ExecuteMoves
<1>3. /\ \A s \in {"WB", "EXE", "ID"} : IR(s)' = IR(s)
      /\ \A s \in {"WB", "ID"} : Busy(s)' <=> Busy(s)
      /\ InStall("EXE")' => /\ IR("MEM")' = IR("MEM")
                            /\ Busy("MEM")' <=> Busy("MEM")
                            /\ Busy("EXE")' <=> Busy("EXE")
      /\ ~ InStall("EXE")' => /\ IR("MEM")' = IR("EXE")
                              /\ Busy("MEM")' <=> Busy("EXE")
                              /\ ~ Busy("EXE")'
  BY <1>1, <1>2, ExecuteBusy
<1>4. /\ gp_int' = gp_int /\ prog' = prog /\ data_memory' = data_memory
      /\ \A s \in {"EXE", "WB"} : latch'[s] = latch[s]
  BY <1>2 DEF ExecuteMove, ExecuteWait, ExecutePass, Execute, CheckExecute, chosen, Stages
<1>5. stall'["ID"] = stall["ID"]
  BY ExecuteStallIs DEF ExecuteWait, ExecutePass, Execute, CheckExecute
<1>6. Awaiting'
  <2>1. SUFFICES ASSUME NEW older \in {"EXE", "MEM", "WB"}, Busy("ID")', Busy(older)',
                        Depends(IR(older)', IR("ID")')
                 PROVE  InStall("ID")' /\ stall'["ID"].reg = IR(older)'.dest
    BY DEF Awaiting
  <2>2. PICK q \in {"EXE", "MEM", "WB"} : Busy(q) /\ IR(older)' = IR(q)
    BY <1>3, <2>1
  <2> QED
    BY <1>1, <1>3, <1>5, <2>1, <2>2 DEF Awaiting, InStall
<1>7. Ready'
  BY <1>1, <1>3 DEF Ready, Clear
<1>8. OperandsRead' /\ Obtained' /\ Files'
  BY <1>1, <1>3, <1>4 DEF OperandsRead, Obtained, Files
<1>9. Computed'
  <2>1. CASE InStall("EXE")'
    <3>1. latch' = latch
      BY <2>1 DEF ExecuteWait, ExecutePass, Execute, CheckExecute, InStall
    <3> QED
      BY <1>1, <1>3, <1>4, <2>1, <3>1 DEF Computed
  <2>2. CASE ~ InStall("EXE")' /\ Busy("MEM")'
    <3>1. Busy("EXE") /\ ~ Idle(IR("EXE")) /\ IR("MEM")' = IR("EXE")
      BY <1>3, <2>2 DEF Busy
    <3>2. Execute
      BY <2>2, <3>1 DEF ExecuteWait, ExecutePass, CheckExecute, InStall
    <3>3. /\ latch'["MEM"].ALU_OUTPUT =
               alu(IR("EXE").opcode, latch["EXE"].A, latch["EXE"].B, latch["EXE"].IMM,
                   latch["EXE"].NPC)
          /\ latch'["MEM"].B = latch["EXE"].B
      <4>1. PICK x, c :
              /\ latch' = [latch EXCEPT !["MEM"] =
                   [Clean(IR("EXE")) EXCEPT !.ALU_OUTPUT = x, !.B = latch["EXE"].B,
                                            !.COND = c]]
              /\ x = alu(IR("EXE").opcode, latch["EXE"].A, latch["EXE"].B,
                         latch["EXE"].IMM, latch["EXE"].NPC)
        BY <3>2 DEF Execute, IR
      <4>2. LET r == [Clean(IR("EXE")) EXCEPT !.ALU_OUTPUT = x, !.B = latch["EXE"].B,
                                              !.COND = c]
            IN r.ALU_OUTPUT = x /\ r.B = latch["EXE"].B
        BY DEF Clean
      <4>3. "MEM" \in DOMAIN latch
        BY DEF Shape, Stages
      <4> QED
        BY <4>1, <4>2, <4>3
    <3>4. /\ latch["EXE"].A = Read(gp_int, IR("EXE")).A
          /\ latch["EXE"].B = Read(gp_int, IR("EXE")).B
          /\ latch["EXE"].IMM = Read(gp_int, IR("EXE")).IMM
      BY <1>1, <3>1 DEF OperandsRead
    <3>5. IR("EXE").opcode \notin Branches =>
            IR("EXE").opcode \in RegisterOps \cup ImmediateOps \cup {"LW", "SW"}
      BY <1>1, <3>1, BusyCode DEF Ordered
    <3>6. IR("EXE").opcode \notin Branches =>
            latch'["MEM"].ALU_OUTPUT = Computes(gp_int, IR("EXE"))
      BY <3>3, <3>4, <3>5, NoAddress DEF Computes
    <3> QED
      BY <1>4, <3>1, <3>3, <3>4, <3>6 DEF Computed
  <2>3. CASE ~ Busy("MEM")'
    BY <2>3 DEF Computed
  <2> QED
    BY <2>1, <2>2, <2>3
<1> QED
  BY <1>6, <1>7, <1>8, <1>9 DEF ValuesInv

LEMMA DecodeValues ==
  ASSUME Shape, FlowInv, ValuesInv, DecodeStall \/ DecodeBlocked \/ DecodePass \/ Decode
  PROVE  ValuesInv'
<1>1. /\ NoClash /\ Awaiting /\ Ready /\ OperandsRead /\ Computed /\ Obtained /\ Files
  BY DEF ValuesInv, FlowInv
<1>2. DecodeMove
  BY DecodeMoves
<1>3. /\ \A s \in {"WB", "MEM", "ID"} : IR(s)' = IR(s)
      /\ stall' = stall
      /\ \A s \in {"WB", "MEM"} : Busy(s)' <=> Busy(s)
      /\ InStall("ID") => ~ Busy("EXE")' /\ (Busy("ID")' <=> Busy("ID"))
      /\ ~ InStall("ID") /\ InStall("EXE") => /\ IR("EXE")' = IR("EXE")
                                              /\ Busy("EXE")' <=> Busy("EXE")
                                              /\ Busy("ID")' <=> Busy("ID")
      /\ ~ InStall("ID") /\ ~ InStall("EXE") => /\ IR("EXE")' = IR("ID")
                                                /\ Busy("EXE")' <=> Busy("ID")
                                                /\ ~ Busy("ID")'
  BY <1>1, <1>2, DecodeBusy
<1>4. /\ gp_int' = gp_int /\ prog' = prog /\ data_memory' = data_memory
      /\ \A s \in {"MEM", "WB"} : latch'[s] = latch[s]
  BY <1>2 DEF DecodeMove, DecodeStall, DecodeBlocked, DecodePass, Decode, Decoding, chosen,
     Stages
<1>5. Awaiting'
  <2>1. SUFFICES ASSUME NEW older \in {"EXE", "MEM", "WB"}, Busy("ID")', Busy(older)',
                        Depends(IR(older)', IR("ID")')
                 PROVE  InStall("ID")' /\ stall'["ID"].reg = IR(older)'.dest
    BY DEF Awaiting
  <2>2. Busy("ID") /\ Busy(older) /\ IR(older)' = IR(older)
    BY <1>3, <2>1
  <2> QED
    BY <1>1, <1>3, <2>1, <2>2 DEF Awaiting, InStall
<1>6. Ready'
  <2>1. ASSUME NEW older \in {"MEM", "WB"}, Busy(older)', Busy("EXE")'
        PROVE  ~ Depends(IR(older)', IR("EXE")')
    <3>1. Busy(older) /\ IR(older)' = IR(older) /\ ~ InStall("ID")
      BY <1>3, <2>1
    <3>2. CASE InStall("EXE")
      BY <1>1, <1>3, <2>1, <3>1, <3>2 DEF Ready, Clear
    <3>3. CASE ~ InStall("EXE")
      BY <1>1, <1>3, <2>1, <3>1, <3>3 DEF Awaiting
    <3> QED
      BY <3>2, <3>3
  <2> QED
    BY <1>1, <1>3, <2>1 DEF Ready, Clear
<1>7. Computed' /\ Obtained' /\ Files'
  BY <1>1, <1>3, <1>4 DEF Computed, Obtained, Files
<1>8. OperandsRead'
  <2>1. SUFFICES ASSUME Busy("EXE")' PROVE OperandsRead'
    BY DEF OperandsRead
  <2>2. ~ InStall("ID") /\ ~ Idle(IR("EXE")')
    BY <1>3, <2>1 DEF Busy, Idle
  <2>3. CASE InStall("EXE")
    <3>1. latch' = latch
      BY <2>2, <2>3 DEF DecodeStall, DecodeBlocked, DecodePass, Decode
    <3> QED
      BY <1>1, <1>3, <1>4, <2>2, <2>3, <3>1 DEF OperandsRead
  <2>4. CASE ~ InStall("EXE")
    <3>1. Decode /\ IR("EXE")' = IR("ID")
      BY <1>3, <2>2, <2>4 DEF DecodeStall, DecodeBlocked, DecodePass
    <3> DEFINE read == Operands(IR("ID"))
    <3>2. latch' = [latch EXCEPT !["EXE"] =
             [Clean(IR("ID")) EXCEPT !.NPC = latch["ID"].NPC, !.A = read.A, !.B = read.B,
                                     !.IMM = read.IMM]]
      BY <3>1 DEF Decode
    <3>3. /\ read.A = Read(gp_int, IR("ID")).A
          /\ read.B = Read(gp_int, IR("ID")).B
          /\ read.IMM = Read(gp_int, IR("ID")).IMM
      BY ReadsAre
    <3> HIDE DEF read
    <3>4. LET r == [Clean(IR("ID")) EXCEPT !.NPC = latch["ID"].NPC, !.A = read.A,
                                           !.B = read.B, !.IMM = read.IMM]
          IN r.A = read.A /\ r.B = read.B /\ r.IMM = read.IMM
      BY DEF Clean
    <3>5. "EXE" \in DOMAIN latch
      BY DEF Shape, Stages
    <3>6. /\ latch'["EXE"].A = read.A /\ latch'["EXE"].B = read.B
          /\ latch'["EXE"].IMM = read.IMM
      BY <3>2, <3>4, <3>5
    <3> QED
      BY <1>4, <3>1, <3>3, <3>6 DEF OperandsRead
  <2> QED
    BY <2>3, <2>4
<1> QED
  BY <1>5, <1>6, <1>7, <1>8 DEF ValuesInv

\* The stall remembers an instruction it waits for.
LEMMA RawStallReg ==
  ASSUME Shape, NEW i, \E s \in {"EXE", "MEM", "WB"} : Depends(IR(s), i)
  PROVE  \E s \in {"EXE", "MEM", "WB"} :
           /\ Depends(IR(s), i)
           /\ RawStall(i)["ID"].in_stall /\ RawStall(i)["ID"].reg = IR(s).dest
<1> DEFINE producers == {s \in {"EXE", "MEM", "WB"} : Depends(IR(s), i)}
           kept == IF "WB" \in producers THEN "WB"
                   ELSE IF "MEM" \in producers THEN "MEM" ELSE "EXE"
<1>1. kept \in producers
  OBVIOUS
<1>2. RawStall(i) = [stall EXCEPT !["ID"] = Raised("RAW", IR(kept).dest)]
  BY <1>1 DEF RawStall
<1>3. RawStall(i)["ID"] = Raised("RAW", IR(kept).dest)
  BY <1>2 DEF Shape, Stages
<1> HIDE DEF kept
<1>4. RawStall(i)["ID"].in_stall /\ RawStall(i)["ID"].reg = IR(kept).dest
  BY <1>3 DEF Raised
<1> QED
  BY <1>1, <1>4

LEMMA FetchValues ==
  ASSUME ProgramsGiven, AddressesFit, KeepOrder(Setups), OneProducer(prog), Shape, FlowInv,
         ValuesInv, FetchNothing \/ FetchStall \/ FetchEnd \/ Fetch
  PROVE  ValuesInv'
<1>1. /\ Ordered /\ NotTaken /\ EndSeen
      /\ Awaiting /\ Ready /\ OperandsRead /\ Computed /\ Obtained /\ Files
  BY DEF ValuesInv, FlowInv
<1>2. FetchMove
  BY FetchMoves
<1>3. /\ \A s \in {"WB", "MEM", "EXE"} : /\ IR(s)' = IR(s)
                                         /\ Busy(s)' <=> Busy(s)
                                         /\ Busy(s) <=> ~ Idle(IR(s))
      /\ Busy("ID")' <=> ~ Idle(IR("ID"))'
      /\ phase = "fetch"
  BY <1>2, FetchBusy DEF FetchMove
<1>4. /\ gp_int' = gp_int /\ prog' = prog /\ data_memory' = data_memory
      /\ \A s \in {"EXE", "MEM", "WB"} : latch'[s] = latch[s]
  BY <1>2 DEF FetchMove, FetchNothing, FetchStall, FetchEnd, Fetch, Fetching, chosen, Stages
<1>5. Ready' /\ OperandsRead' /\ Computed' /\ Obtained' /\ Files'
  BY <1>1, <1>3, <1>4 DEF Ready, Clear, OperandsRead, Computed, Obtained, Files
<1>6. Awaiting'
  <2>1. SUFFICES ASSUME NEW older \in {"EXE", "MEM", "WB"}, Busy("ID")', Busy(older),
                        Depends(IR(older), IR("ID")')
                 PROVE  InStall("ID")' /\ stall'["ID"].reg = IR(older).dest
    BY <1>3 DEF Awaiting
  <2>2. CASE ~ CanFetch
    <3>1. IR("ID")' = IR("ID") /\ stall' = stall
      BY <1>2, <2>2 DEF FetchMove, IR
    <3>2. Live("ID")
      <4>1. \A n \in Nat : (4 * n) \div 4 = n
        OBVIOUS
      <4>2. FetchPC \div 4 <= PROGRAM_SIZE
        BY <1>1, <4>1, FetchAtPc, Places DEF Ordered
      <4>3. ~ end
        BY <1>1, <1>3, <2>1, <3>1 DEF EndSeen, Idle
      <4> QED
        BY <2>2, <4>2, <4>3 DEF CanFetch, Live
    <3>3. Busy("ID")
      BY <1>3, <2>1, <3>1, <3>2 DEF Busy, Idle
    <3> QED
      BY <1>1, <2>1, <3>1, <3>3 DEF Awaiting, InStall
  <2>3. CASE CanFetch
    <3>1. IR("ID")' = Fetched /\ ~ Idle(Fetched) /\ Fetched = Instr(AtID)
      BY <1>1, <1>2, <1>3, <2>1, <2>3, FetchedIs, BlankNop DEF FetchMove, Idle
    <3>2. AtID \in DOMAIN prog /\ Fetched = prog[AtID]
      BY <3>1, InstrIs, BlankEop
    <3>3. Fetch
      <4>1. DOMAIN latch = Stages /\ "ID" \in Stages
        BY DEF Shape, Stages
      <4>2. ASSUME FetchStall PROVE FALSE
        <5>1. latch'["ID"] = Clean(Blank("NOP"))
          BY <4>1, <4>2 DEF FetchStall, Bubble
        <5> QED
          BY <1>3, <2>1, <5>1, CleanIs, BlankNop DEF IR
      <4>3. ~ FetchEnd
        BY <3>1 DEF FetchEnd, Idle
      <4> QED
        BY <2>3, <4>2, <4>3 DEF FetchNothing
    <3>4. stall'["ID"] = RawStall(Fetched)["ID"]
      <4>1. stall' = ControlStall(RawStall(Fetched), Fetched)
        BY <3>3 DEF Fetch
      <4>2. Fetched \in Instruction
        BY InstrIs DEF Fetched
      <4> QED
        BY <4>1, <4>2, RawStallIs, ControlStallIs DEF Stages
    <3>5. PICK s \in {"EXE", "MEM", "WB"} :
            /\ Depends(IR(s), Fetched)
            /\ stall'["ID"].in_stall /\ stall'["ID"].reg = IR(s).dest
      BY <2>1, <3>1, <3>4, RawStallReg
    <3>6. Busy(s)
      BY <1>3, <3>5 DEF Depends
    <3>7. s = older
      BY <1>1, <2>1, <3>1, <3>2, <3>5, <3>6, OnlyOne
    <3> QED
      BY <3>5, <3>7 DEF InStall
  <2> QED
    BY <2>2, <2>3
<1> QED
  BY <1>5, <1>6 DEF ValuesInv

LEMMA ValuesBetween ==
  ASSUME ValuesInv,
         UNCHANGED <<prog, gp_int, data_memory, latch, stall>>,
         phase \in {"idle", "writeback", "end"}, phase' \in {"idle", "writeback", "end"}
  PROVE  ValuesInv'
<1>1. /\ prog' = prog /\ gp_int' = gp_int /\ data_memory' = data_memory
      /\ latch' = latch /\ stall' = stall
  OBVIOUS
<1>2. \A s : IR(s)' = IR(s) /\ InStall(s)' = InStall(s)
  BY <1>1 DEF IR, InStall
<1>3. \A s \in {"WB", "MEM", "EXE", "ID"} : Busy(s)' <=> Busy(s)
  BY <1>2 DEF Busy, Live, Idle
<1>4. Awaiting'
  BY <1>1, <1>2, <1>3 DEF ValuesInv, Awaiting
<1>5. Ready'
  BY <1>2, <1>3 DEF ValuesInv, Ready, Clear
<1>6. OperandsRead' /\ Computed' /\ Obtained'
  BY <1>1, <1>2, <1>3 DEF ValuesInv, OperandsRead, Computed, Obtained
<1>7. Files'
  BY <1>1 DEF ValuesInv, Files
<1> QED
  BY <1>4, <1>5, <1>6, <1>7 DEF ValuesInv

LEMMA EmptyValues ==
  ASSUME RegistersRead, latch = EmptyPipe, NEW s \in Setups,
         prog = s.prog, gp_int = s.gp_int, data_memory = s.data_memory
  PROVE  ValuesInv
<1>1. \A t \in Stages : ~ Busy(t)
  BY EmptyPipeIs, BlankNop DEF Busy, IR
<1>2. Awaiting /\ Ready /\ OperandsRead /\ Computed /\ Obtained
  BY <1>1 DEF Awaiting, Ready, Clear, OperandsRead, Computed, Obtained, Stages
<1>3. Files
  BY DEF Files, RegistersRead
<1> QED
  BY <1>2, <1>3 DEF ValuesInv

LEMMA ResetValues ==
  ASSUME RegistersRead, Shape, Reset
  PROVE  ValuesInv'
<1>1. PICK s \in RestartsAt[data_memory_latency] :
        prog' = s.prog /\ gp_int' = s.gp_int /\ data_memory' = s.data_memory
  BY DEF Reset
<1>2. s \in Setups
  BY <1>1, IntPipeAssumption DEF RestartsAt, Shape
<1>3. \A t \in Stages : ~ Busy(t)'
  BY EmptyPipeIs, BlankNop DEF Reset, Busy, IR
<1>4. Awaiting' /\ Ready' /\ OperandsRead' /\ Computed' /\ Obtained'
  BY <1>3 DEF Awaiting, Ready, Clear, OperandsRead, Computed, Obtained, Stages
<1>5. Files'
  BY <1>1, <1>2 DEF Files, RegistersRead
<1> QED
  BY <1>4, <1>5 DEF ValuesInv

LEMMA InitValues == RegistersRead => (Init => ValuesInv)
<1>1. SUFFICES ASSUME RegistersRead, Init PROVE ValuesInv
  OBVIOUS
<1>2. PICK s \in Setups :
        prog = s.prog /\ gp_int = s.gp_int /\ data_memory = s.data_memory
  BY <1>1 DEF Init
<1>3. latch = EmptyPipe
  BY <1>1 DEF Init
<1> QED
  BY <1>1, <1>2, <1>3, EmptyValues

LEMMA StepValues ==
  ASSUME ProgramsGiven, AddressesFit, KeepValues(Setups), RegistersRead,
         OrderInv, ValuesInv, [Next]_vars
  PROVE  ValuesInv'
<1>1. KeepOrder(Setups) /\ OneProducer(prog) /\ NoOverwrite(prog)
  BY DEF KeepValues, OverwriteNothing, OrderInv, Shape
<1>2. Shape /\ FlowInv
  BY DEF OrderInv
<1>3. CASE Step
  <2>1. CASE WritebackNothing \/ WritebackEnd \/ Writeback
    BY <1>1, <1>2, <2>1, WritebackValues
  <2>2. CASE MemoryWait \/ MemoryPass \/ MemoryAccess
    BY <1>2, <2>2, MemoryValues
  <2>3. CASE ExecuteWait \/ ExecutePass \/ Execute
    BY <1>2, <2>3, ExecuteValues
  <2>4. CASE DecodeStall \/ DecodeBlocked \/ DecodePass \/ Decode
    BY <1>2, <2>4, DecodeValues
  <2>5. CASE FetchNothing \/ FetchStall \/ FetchEnd \/ Fetch
    BY <1>1, <1>2, <2>5, FetchValues
  <2>6. CASE EndCycle
    BY <2>6, ValuesBetween DEF EndCycle, chosen
  <2> QED
    BY <1>3, <2>1, <2>2, <2>3, <2>4, <2>5, <2>6 DEF Step
<1>4. ASSUME NEW n \in Calls, Run(n) PROVE ValuesInv'
  BY <1>4, ValuesBetween DEF Run, chosen
<1>5. CASE Reset
  BY <1>2, <1>5, ResetValues
<1>6. CASE UNCHANGED vars
  <2>1. /\ prog' = prog /\ gp_int' = gp_int /\ data_memory' = data_memory
        /\ latch' = latch /\ stall' = stall /\ phase' = phase
    BY <1>6 DEF vars, chosen
  <2> QED
    BY <2>1 DEF ValuesInv, Awaiting, Ready, Clear, OperandsRead, Computed, Obtained, Files,
       Busy, Live, IR, InStall
<1> QED
  BY <1>3, <1>4, <1>5, <1>6 DEF Next

-----------------------------------------------------------------------------
(* The pipeline computes what its program means *)

\* The instruction set of the abstract machine is the one of the pipeline.
LEMMA SameWords ==
  /\ InOrder!UNDEFINED = UNDEFINED
  /\ \A n : InOrder!Wrap(n) = Wrap(n)
  BY DEF InOrder!UNDEFINED, UNDEFINED, InOrder!Wrap, Wrap, InOrder!WordSize, WordSize

LEMMA SameTaken == \A op, v : InOrder!Taken(op, v) = Taken(op, v)
  BY DEF InOrder!Taken, Taken, InOrder!AsInt, AsInt, InOrder!WordSize, WordSize

LEMMA SameBits ==
  \A keep, a, b : InOrder!Bitwise(keep, a, b) = Bitwise(keep, a, b)
  BY DEF InOrder!Bitwise, Bitwise, InOrder!BitOf, BitOf

LEMMA SameOps ==
  /\ InOrder!RegisterOps = RegisterOps /\ InOrder!ImmediateOps = ImmediateOps
  /\ InOrder!Branches = Branches /\ InOrder!IntMulDiv = IntMulDiv
  /\ InOrder!XorBit = XorBit /\ InOrder!AndBit = AndBit
  BY DEF InOrder!RegisterOps, RegisterOps, InOrder!ImmediateOps, ImmediateOps,
     InOrder!Branches, Branches, InOrder!IntMulDiv, IntMulDiv, InOrder!XorBit, XorBit,
     InOrder!AndBit, AndBit

LEMMA SameAlu ==
  \A op, v1, v2, imm, npc : InOrder!Alu(op, v1, v2, imm, npc) = Alu(op, v1, v2, imm, npc)
<1> SUFFICES ASSUME NEW op, NEW v1, NEW v2, NEW imm, NEW npc
             PROVE  InOrder!Alu(op, v1, v2, imm, npc) = Alu(op, v1, v2, imm, npc)
  OBVIOUS
<1>1. \A a, b : InOrder!Quotient(a, b) = Quotient(a, b)
  BY SameWords DEF InOrder!Quotient, Quotient
<1> QED
  BY <1>1, SameWords, SameBits, SameOps, SameTaken DEF InOrder!Alu, Alu

\* What an instruction computes is what the abstract machine computes for it.
LEMMA ComputesAre ==
  ASSUME NEW i, i.opcode \in RegisterOps \cup ImmediateOps, i.src1 \in DOMAIN gp_int,
         i.opcode \in RegisterOps => i.src2 \in DOMAIN gp_int, NEW npc
  PROVE  Computes(gp_int, i) =
           Alu(i.opcode, gp_int[i.src1],
               IF i.opcode \in ImmediateOps THEN UNDEFINED ELSE gp_int[i.src2],
               i.immediate, npc)
<1>1. /\ i.opcode \notin Branches /\ i.opcode # "SW"
      /\ i.opcode \in ImmediateOps => i.opcode \notin RegisterOps
  BY DEF RegisterOps, ImmediateOps, Branches
<1>2. Read(gp_int, i).A = gp_int[i.src1]
  BY <1>1 DEF Read, Reg
<1>3. /\ i.opcode \in RegisterOps => Read(gp_int, i).B = gp_int[i.src2]
      /\ i.opcode \in ImmediateOps =>
           Read(gp_int, i).B = UNDEFINED /\ Read(gp_int, i).IMM = i.immediate
  BY <1>1 DEF Read, Reg
<1>4. CASE i.opcode \in ImmediateOps
  BY <1>2, <1>3, <1>4 DEF Computes, alu, Alu, ImmediateOps, Branches
<1>5. CASE i.opcode \in RegisterOps
  <2>1. i.opcode \notin ImmediateOps
    BY <1>1, <1>5
  <2> QED
    BY <1>2, <1>3, <1>5, <2>1 DEF Computes, alu, Alu, RegisterOps, Branches
<1> QED
  BY <1>4, <1>5

LEMMA AddressIs ==
  ASSUME NEW i, i.opcode \in {"LW", "SW"}
  PROVE  Computes(gp_int, i) =
           Wrap(Reg(gp_int, IF i.opcode = "SW" THEN i.src2 ELSE i.src1) + i.immediate)
<1>1. i.opcode \notin Branches /\ i.opcode \notin RegisterOps
  BY DEF RegisterOps, Branches
<1>2. /\ Read(gp_int, i).A = Reg(gp_int, IF i.opcode = "SW" THEN i.src2 ELSE i.src1)
      /\ Read(gp_int, i).IMM = i.immediate
  BY <1>1 DEF Read
<1> QED
  BY <1>1, <1>2 DEF Computes, alu

\* A store has taken effect when it reaches WB, anything else when it has left it.
LEMMA RetiredIs ==
  ASSUME Shape
  PROVE  /\ phase = "memory" => Retired = total_instr_count
         /\ IR("WB").opcode # "SW" => Retired = total_instr_count
         /\ phase # "memory" /\ IR("WB").opcode = "SW" =>
              Retired = total_instr_count + 1
  BY DEF Retired, Shape

\* What is about to take effect is the instruction the abstract machine is at.
LEMMA TurnOf ==
  ASSUME ProgramsGiven, RegistersRead, Shape, Files, NEW s, Busy(s), HoldsAt(s, Retired),
         NEW ops, IR(s).opcode \in ops
  PROVE  /\ InOrder!Running(ops) /\ InOrder!Fetched = IR(s)
         /\ IR(s).opcode \in RegisterOps \cup ImmediateOps \cup Branches \cup {"LW", "SW"}
         /\ IR(s).src1 \in DOMAIN gp_int
         /\ IR(s).opcode \in RegisterOps \cup {"SW"} => IR(s).src2 \in DOMAIN gp_int
<1>1. Retired \in DOMAIN prog /\ IR(s) = prog[Retired]
  BY BusyIs
<1> QED
  BY <1>1, BusyCode DEF InOrder!Running, InOrder!Fetched

LEMMA StoreRefines ==
  ASSUME ProgramsGiven, RegistersRead, Shape, FlowInv, ValuesInv, MemoryAccess,
         IR("MEM").opcode = "SW"
  PROVE  InOrder!Store
<1>1. MemoryMove
  BY MemoryMoves
<1>2. phase = "memory" /\ phase' = "execute" /\ ~ Idle(IR("MEM"))
  BY DEF MemoryAccess, CheckMemory, Enter
<1>3. Busy("MEM") /\ ~ Busy("WB")
  BY <1>2 DEF Busy, Live
<1>4. Retired = total_instr_count
  BY <1>2, RetiredIs
<1>5. HoldsAt("MEM", Retired)
  <2>1. AtMEM = total_instr_count
    BY <1>3 DEF AtMEM, One, Shape
  <2> QED
    BY <1>4, <2>1 DEF FlowInv, Ordered
<1>6. /\ InOrder!Running({"SW"}) /\ InOrder!Fetched = IR("MEM")
      /\ IR("MEM").src1 \in DOMAIN gp_int /\ IR("MEM").src2 \in DOMAIN gp_int
  BY <1>3, <1>5, TurnOf DEF ValuesInv
<1>7. /\ latch["MEM"].ALU_OUTPUT = Wrap(gp_int[IR("MEM").src2] + IR("MEM").immediate)
      /\ latch["MEM"].B = gp_int[IR("MEM").src1]
  <2>1. "SW" \notin Branches /\ "SW" \notin RegisterOps
    BY DEF Branches, RegisterOps
  <2>2. /\ latch["MEM"].ALU_OUTPUT = Computes(gp_int, IR("MEM"))
        /\ latch["MEM"].B = Read(gp_int, IR("MEM")).B
    BY <1>3, <2>1 DEF ValuesInv, Computed
  <2>3. Read(gp_int, IR("MEM")).B = gp_int[IR("MEM").src1]
    BY <1>6, <2>1 DEF Read, Reg
  <2>4. Computes(gp_int, IR("MEM")) = Wrap(gp_int[IR("MEM").src2] + IR("MEM").immediate)
    BY <1>6, AddressIs DEF Reg
  <2> QED
    BY <2>2, <2>3, <2>4
<1>8. data_memory' = InOrder!Stored(gp_int[IR("MEM").src1])
  <2> DEFINE at    == Wrap(gp_int[IR("MEM").src2] + IR("MEM").immediate)
             value == gp_int[IR("MEM").src1]
  <2>1. InOrder!Stored(value) =
          [a \in DOMAIN data_memory |-> IF a = at THEN value ELSE data_memory[a]]
    BY <1>6, SameWords DEF InOrder!Stored, InOrder!Address
  <2>2. data_memory' = IF at \in DOMAIN data_memory
                       THEN [data_memory EXCEPT ![at] = value] ELSE data_memory
    BY <1>7 DEF MemoryAccess, IR
  <2>3. data_memory = [a \in DOMAIN data_memory |-> data_memory[a]]
    BY DEF ValuesInv, Files
  <2> HIDE DEF at, value
  <2> QED
    BY <2>1, <2>2, <2>3 DEF value
<1>9. Retired' = Retired + 1
  <2>1. IR("WB")' = IR("MEM")
    BY <1>1 DEF MemoryMove, MemoryAccess, CheckMemory, InStall
  <2>2. phase' # "memory" /\ total_instr_count' = total_instr_count
    BY <1>1, <1>2 DEF MemoryMove
  <2> QED
    BY <1>4, <2>1, <2>2 DEF Retired
<1>10. prog' = prog /\ gp_int' = gp_int
  BY DEF MemoryAccess, CheckMemory, chosen
<1> QED
  BY <1>6, <1>8, <1>9, <1>10 DEF InOrder!Store, InOrder!Advance

LEMMA WritebackRefines ==
  ASSUME ProgramsGiven, AddressesFit, KeepOrder(Setups), RegistersRead, Shape, FlowInv,
         ValuesInv, NoneTaken, Writeback, IR("WB").opcode # "SW"
  PROVE  InOrder!IntOp \/ InOrder!Load \/ InOrder!Branch
<1>1. phase = "writeback" /\ phase' = "memory" /\ ~ Idle(IR("WB"))
  BY DEF Writeback, Enter
<1>2. Busy("WB") /\ Retired = total_instr_count
  BY <1>1, RetiredIs DEF Busy, Live
<1>3. HoldsAt("WB", Retired)
  BY <1>2 DEF FlowInv, Ordered
<1>4. /\ \A ops : IR("WB").opcode \in ops => InOrder!Running(ops)
      /\ InOrder!Fetched = IR("WB")
      /\ IR("WB").opcode \in RegisterOps \cup ImmediateOps \cup Branches \cup {"LW"}
      /\ IR("WB").src1 \in DOMAIN gp_int
      /\ IR("WB").opcode \in RegisterOps => IR("WB").src2 \in DOMAIN gp_int
  <2>1. IR("WB").opcode \in {IR("WB").opcode}
    OBVIOUS
  <2>2. /\ InOrder!Fetched = IR("WB")
        /\ IR("WB").opcode \in RegisterOps \cup ImmediateOps \cup Branches \cup {"LW", "SW"}
        /\ IR("WB").src1 \in DOMAIN gp_int
        /\ IR("WB").opcode \in RegisterOps \cup {"SW"} => IR("WB").src2 \in DOMAIN gp_int
    BY <1>2, <1>3, <2>1, TurnOf DEF ValuesInv
  <2>3. \A ops : IR("WB").opcode \in ops => InOrder!Running(ops)
    BY <1>2, <1>3, TurnOf DEF ValuesInv
  <2> QED
    BY <2>2, <2>3
<1>5. Retired' = Retired + 1 /\ InOrder!Advance
  <2>1. Retired' = total_instr_count'
    BY <1>1 DEF Retired, Writeback, Shape
  <2>2. total_instr_count' = total_instr_count + 1 /\ prog' = prog
    BY DEF Writeback, chosen
  <2> QED
    BY <1>2, <2>1, <2>2 DEF InOrder!Advance
<1>6. data_memory' = data_memory
  BY DEF Writeback
<1>7. \A r, v : SetRegister(r, v) => gp_int' = [gp_int EXCEPT ![r] = v]
  BY DEF SetRegister, ValuesInv, Files
<1>8. CASE IR("WB").opcode \in RegisterOps \cup ImmediateOps
  <2>1. IR("WB").opcode \notin Branches \cup {"SW", "LW"}
    BY <1>8 DEF RegisterOps, ImmediateOps, Branches
  <2>2. gp_int' = [gp_int EXCEPT ![IR("WB").dest] = latch["WB"].ALU_OUTPUT]
    BY <1>7, <2>1 DEF Writeback
  <2>3. latch["WB"].ALU_OUTPUT = Computes(gp_int, IR("WB"))
    BY <1>2, <1>8 DEF ValuesInv, Obtained
  <2>4. Computes(gp_int, IR("WB")) =
          Alu(IR("WB").opcode, gp_int[IR("WB").src1],
              IF IR("WB").opcode \in ImmediateOps THEN UNDEFINED ELSE gp_int[IR("WB").src2],
              IR("WB").immediate, 4 * Retired)
    BY <1>4, <1>8, ComputesAre
  <2>5. InOrder!Running(InOrder!RegisterOps \cup InOrder!ImmediateOps
                          \cup InOrder!IntMulDiv)
    BY <1>4, <1>8, SameOps
  <2>6. gp_int' = [gp_int EXCEPT ![InOrder!Fetched.dest] =
          InOrder!Alu(InOrder!Fetched.opcode, gp_int[InOrder!Fetched.src1],
            IF InOrder!Fetched.opcode \in InOrder!ImmediateOps THEN InOrder!UNDEFINED
            ELSE gp_int[InOrder!Fetched.src2],
            InOrder!Fetched.immediate, 4 * Retired)]
    BY <1>4, <2>2, <2>3, <2>4, SameAlu, SameOps, SameWords
  <2>7. InOrder!IntOp
    BY <1>5, <1>6, <2>5, <2>6 DEF InOrder!IntOp
  <2> QED
    BY <2>7
<1>9. CASE IR("WB").opcode = "LW"
  <2>1. gp_int' = [gp_int EXCEPT ![IR("WB").dest] = latch["WB"].LMD]
    BY <1>7, <1>9 DEF Writeback, Branches
  <2>2. latch["WB"].LMD =
          Cell(data_memory, Wrap(gp_int[IR("WB").src1] + IR("WB").immediate))
    BY <1>2, <1>4, <1>9, AddressIs DEF ValuesInv, Obtained, Reg
  <2>3. latch["WB"].LMD = InOrder!LoadedFrom(InOrder!Address(IR("WB").src1))
    BY <1>4, <2>2, SameWords DEF InOrder!LoadedFrom, InOrder!Address, Cell
  <2> QED
    BY <1>4, <1>5, <1>6, <1>9, <2>1, <2>3 DEF InOrder!Load
<1>10. CASE IR("WB").opcode \in Branches
  <2>1. gp_int' = gp_int
    BY <1>10 DEF Writeback, Branches
  <2>2. ~ Taken(IR("WB").opcode, gp_int[IR("WB").src1])
    BY <1>1, <1>10 DEF NoneTaken
  <2>3. Alu(IR("WB").opcode, gp_int[IR("WB").src1], 0, IR("WB").immediate, 4 * Retired) =
          Wrap(4 * Retired + 4 + 0)
    BY <1>10, <2>2 DEF Alu, Branches
  <2>4. Retired \in 0 .. PROGRAM_SIZE - 1
    <3>1. Retired \in DOMAIN prog
      BY <1>2, <1>3, BusyIs
    <3> QED
      BY <3>1 DEF KeepOrder, StraightLine, Shape
  <2>5. Wrap(4 * Retired + 4 + 0) = 4 * (Retired + 1)
    <3>1. /\ 4 * Retired + 4 + 0 \in Nat /\ 4 * Retired + 4 + 0 = 4 * (Retired + 1)
          /\ 4 * Retired + 4 + 0 <= 4 * PROGRAM_SIZE
      BY <2>4 DEF PROGRAM_SIZE
    <3>2. 4 * Retired + 4 + 0 < WordSize
      BY <3>1, SizeGiven DEF AddressesFit, PROGRAM_SIZE
    <3> QED
      BY <3>1, <3>2, SmallWraps
  <2>6. (4 * (Retired + 1)) \div 4 = Retired + 1
    BY <2>4 DEF PROGRAM_SIZE
  <2> QED
    BY <1>4, <1>5, <1>6, <1>10, <2>1, <2>3, <2>5, <2>6, SameAlu, SameOps
    DEF InOrder!Branch, InOrder!Advance
<1> QED
  BY <1>4, <1>8, <1>9, <1>10

\* Every other step of the pipeline is invisible.
LEMMA QuietSteps ==
  ASSUME Shape, UNCHANGED <<prog, gp_int, data_memory, total_instr_count>>,
         \/ phase = "writeback" /\ phase' = "memory" /\ IR("WB")' = IR("WB")
              /\ Idle(IR("WB"))
         \/ phase = "memory" /\ phase' = "execute" /\ IR("WB")'.opcode # "SW"
         \/ phase # "memory" /\ phase' # "memory" /\ IR("WB")' = IR("WB")
  PROVE  UNCHANGED InOrder!vars
<1>1. Retired' = Retired
  BY DEF Retired, Idle
<1> QED
  BY <1>1 DEF InOrder!vars

LEMMA StepRefines ==
  ASSUME ProgramsGiven, AddressesFit, KeepOrder(Setups), RegistersRead, OrderInv, ValuesInv,
         NoneTaken, [Next]_vars
  PROVE  InOrder!Next \/ InOrder!Init' \/ UNCHANGED InOrder!vars
<1>1. Shape /\ FlowInv
  BY DEF OrderInv
<1>2. CASE WritebackNothing \/ WritebackEnd
  <2>1. Idle(IR("WB")) /\ latch' = latch /\ phase = "writeback" /\ phase' = "memory"
    BY <1>2 DEF WritebackNothing, WritebackEnd, Enter, Idle
  <2>2. UNCHANGED <<prog, gp_int, data_memory, total_instr_count>>
    BY <1>2 DEF WritebackNothing, WritebackEnd, chosen
  <2> QED
    BY <1>1, <2>1, <2>2, QuietSteps DEF IR
<1>3. CASE Writeback
  <2>1. CASE IR("WB").opcode # "SW"
    BY <1>1, <1>3, <2>1, WritebackRefines DEF InOrder!Next
  <2>2. CASE IR("WB").opcode = "SW"
    <3>1. /\ prog' = prog /\ gp_int' = gp_int /\ data_memory' = data_memory
          /\ total_instr_count' = total_instr_count + 1 /\ latch' = latch
          /\ phase = "writeback" /\ phase' = "memory"
      BY <1>3, <2>2 DEF Writeback, Enter, chosen
    <3>2. Retired' = Retired
      BY <1>1, <2>2, <3>1 DEF Retired, IR, Shape
    <3> QED
      BY <3>1, <3>2 DEF InOrder!vars
  <2> QED
    BY <2>1, <2>2
<1>4. CASE MemoryWait \/ MemoryPass \/ MemoryAccess
  <2>1. CASE MemoryAccess /\ IR("MEM").opcode = "SW"
    BY <1>1, <2>1, StoreRefines DEF InOrder!Next
  <2>2. CASE ~ (MemoryAccess /\ IR("MEM").opcode = "SW")
    <3>1. MemoryMove
      BY <1>1, <1>4, MemoryMoves
    <3>2. UNCHANGED <<prog, gp_int, data_memory, total_instr_count>>
      BY <1>4, <2>2 DEF MemoryWait, MemoryPass, MemoryAccess, CheckMemory, chosen, IR
    <3>3. IR("WB")'.opcode # "SW"
      <4>1. IR("WB")' = Blank("NOP") \/ (IR("WB")' = IR("MEM") /\ ~ InStall("MEM")')
        BY <3>1 DEF MemoryMove
      <4>2. IR("MEM").opcode = "SW" => InStall("MEM")'
        BY <1>4, <2>2 DEF MemoryWait, MemoryPass, CheckMemory, InStall, Idle
      <4> QED
        BY <4>1, <4>2, BlankNop
    <3> QED
      BY <1>1, <3>1, <3>2, <3>3, QuietSteps DEF MemoryMove
  <2> QED
    BY <2>1, <2>2
<1>5. CASE ExecuteWait \/ ExecutePass \/ Execute
  <2>1. ExecuteMove
    BY <1>1, <1>5, ExecuteMoves
  <2>2. UNCHANGED <<prog, gp_int, data_memory, total_instr_count>>
    BY <1>5 DEF ExecuteWait, ExecutePass, Execute, CheckExecute, chosen
  <2>3. phase # "memory" /\ phase' # "memory" /\ IR("WB")' = IR("WB")
    BY <2>1 DEF ExecuteMove, IR, Stages
  <2> QED
    BY <1>1, <2>2, <2>3, QuietSteps
<1>6. CASE DecodeStall \/ DecodeBlocked \/ DecodePass \/ Decode
  <2>1. DecodeMove
    BY <1>1, <1>6, DecodeMoves
  <2>2. UNCHANGED <<prog, gp_int, data_memory, total_instr_count>>
    BY <1>6 DEF DecodeStall, DecodeBlocked, DecodePass, Decode, Decoding, chosen
  <2>3. phase # "memory" /\ phase' # "memory" /\ IR("WB")' = IR("WB")
    BY <2>1 DEF DecodeMove, IR, Stages
  <2> QED
    BY <1>1, <2>2, <2>3, QuietSteps
<1>7. CASE FetchNothing \/ FetchStall \/ FetchEnd \/ Fetch
  <2>1. FetchMove
    BY <1>1, <1>7, FetchMoves
  <2>2. UNCHANGED <<prog, gp_int, data_memory, total_instr_count>>
    BY <1>7 DEF FetchNothing, FetchStall, FetchEnd, Fetch, Fetching, chosen
  <2>3. phase # "memory" /\ phase' # "memory" /\ IR("WB")' = IR("WB")
    BY <2>1 DEF FetchMove, IR, Stages
  <2> QED
    BY <1>1, <2>2, <2>3, QuietSteps
<1>8. CASE EndCycle
  <2>1. /\ UNCHANGED <<prog, gp_int, data_memory, total_instr_count>>
        /\ latch' = latch /\ phase # "memory" /\ phase' # "memory"
    BY <1>8 DEF EndCycle, chosen
  <2> QED
    BY <1>1, <2>1, QuietSteps DEF IR
<1>9. ASSUME NEW n \in Calls, Run(n) PROVE UNCHANGED InOrder!vars
  <2>1. /\ UNCHANGED <<prog, gp_int, data_memory, total_instr_count>>
        /\ latch' = latch /\ phase # "memory" /\ phase' # "memory"
    BY <1>9 DEF Run, chosen
  <2> QED
    BY <1>1, <2>1, QuietSteps DEF IR
<1>10. CASE Reset
  <2>1. PICK s \in RestartsAt[data_memory_latency] :
          prog' = s.prog /\ gp_int' = s.gp_int /\ data_memory' = s.data_memory
    BY <1>10 DEF Reset
  <2>2. s \in Setups
    BY <1>1, <2>1, IntPipeAssumption DEF RestartsAt, Shape
  <2>3. /\ prog' \in SetPrograms /\ gp_int' \in SetFiles /\ data_memory' \in SetMemories
    BY <2>1, <2>2 DEF SetPrograms, SetFiles, SetMemories
  <2>4. Retired' = 0
    <3>1. total_instr_count' = 0 /\ IR("WB")'.opcode = "NOP"
      BY <1>10, EmptyPipeIs, BlankNop DEF Reset, IR, Stages
    <3> QED
      BY <3>1 DEF Retired
  <2> QED
    BY <2>3, <2>4 DEF InOrder!Init
<1>11. CASE UNCHANGED vars
  BY <1>11 DEF vars, chosen, InOrder!vars, Retired, IR
<1> QED
  BY <1>2, <1>3, <1>4, <1>5, <1>6, <1>7, <1>8, <1>9, <1>10, <1>11 DEF Next, Step

LEMMA InitRefines == Init => InOrder!Init
<1>1. SUFFICES ASSUME Init PROVE InOrder!Init
  OBVIOUS
<1>2. prog \in SetPrograms /\ gp_int \in SetFiles /\ data_memory \in SetMemories
  BY <1>1 DEF Init, SetPrograms, SetFiles, SetMemories
<1>3. Retired = 0
  <2>1. total_instr_count = 0 /\ IR("WB").opcode = "NOP"
    BY <1>1, EmptyPipeIs, BlankNop DEF Init, IR, Stages
  <2> QED
    BY <2>1 DEF Retired
<1> QED
  BY <1>2, <1>3 DEF InOrder!Init

(***************************************************************************)
(* The five stages compute what the program means, one instruction after   *)
(* the other, whatever the driver calls and however often it resets: for   *)
(* programs in which no branch is to be taken, every instruction waits for *)
(* one other at most, and none is overtaken by a writer of what it reads.  *)
(***************************************************************************)
THEOREM OrderImplemented ==
  ProgramsGiven /\ AddressesFit /\ KeepValues(Setups) /\ RegistersRead =>
    (Spec /\ []NoneTaken => ImplementsProgramOrder)
<1> SUFFICES ASSUME ProgramsGiven /\ AddressesFit /\ KeepValues(Setups) /\ RegistersRead
             PROVE  Spec /\ []NoneTaken => ImplementsProgramOrder
  OBVIOUS
<1>1. KeepOrder(Setups)
  BY DEF KeepValues
<1>2. Init => OrderInv /\ ValuesInv
  BY InitShape, InitFlow, InitValues DEF OrderInv
<1>3. OrderInv /\ ValuesInv /\ [Next]_vars => OrderInv' /\ ValuesInv'
  BY <1>1, StepOrder, StepValues
<1>4. OrderInv /\ ValuesInv /\ NoneTaken /\ [Next]_vars
        => [InOrder!Next \/ InOrder!Init']_(InOrder!vars)
  BY <1>1, StepRefines
<1> QED
  BY <1>2, <1>3, <1>4, InitRefines, PTL DEF Spec, ImplementsProgramOrder
=============================================================================
