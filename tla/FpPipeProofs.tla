---------------------------- MODULE FpPipeProofs ----------------------------
(***************************************************************************)
(* The pipeline with execution units, for every program and every table of *)
(* units.                                                                  *)
(***************************************************************************)
EXTENDS FpPipeProps, IsaProofs, FiniteSetTheorems, WellFoundedInduction

-----------------------------------------------------------------------------
(* Types *)

LatchRecord == [ir : Instruction, NPC : Word, A : Word, B : Word, IMM : Word,
                COND : Word, ALU_OUTPUT : Word, LMD : Word]

UnitRecord == [type : UnitTypes, delayed : Nat, busy : Nat, instruction : Instruction,
               next_pc : Word, x : Word, y : Word, xyz : Word]

Phases == {"idle", "writeback", "memory", "execute", "decode", "fetch", "units"}

\* A table of units, none busy for longer than its delay.
Table(units) ==
  /\ \E n \in Nat : units \in [1 .. n -> UnitRecord]
  /\ \A u \in DOMAIN units : units[u].busy <= units[u].delayed

FilesTyped ==
  /\ \A r \in DOMAIN gp_int : gp_int[r] \in Word
  /\ \A r \in DOMAIN gp_fp : gp_fp[r] \in Word
  /\ \A a \in DOMAIN data_memory : data_memory[a] \in Word

TypeInv ==
  /\ \E s \in Setups : prog = s.prog /\ data_memory_latency = s.latency
  /\ latch \in [Stages -> LatchRecord]
  /\ Table(exec_units)
  /\ stall \in [Stages -> StallType]
  /\ delayed \in Int
  /\ pc \in Word
  /\ FilesTyped
  /\ end \in BOOLEAN /\ pipe_run \in BOOLEAN /\ stall_put \in BOOLEAN
  /\ total_clock_cycle \in Nat \cup {-1}
  /\ total_instr_count \in Nat /\ stalls \in Nat /\ cycles \in Nat
  /\ phase \in Phases

\* The smallest and the greatest number of a table.
LEMMA MinIn ==
  ASSUME NEW S \in SUBSET Nat, S # {}
  PROVE  Min(S) \in S
<1>1. PICK m \in S : \A n \in S : ~ (<<n, m>> \in OpToRel(<, Nat))
  BY NatLessThanWellFounded, WFMin, Zenon
<1>2. \A n \in S : ~ (n < m)
  BY <1>1 DEF OpToRel
<1>3. \A n \in S : m <= n
  <2>1. \A a, b \in Nat : ~ (a < b) => b <= a
    OBVIOUS
  <2> QED
    BY <1>2, <2>1
<1>4. \E x \in S : \A y \in S : x =< y
  BY <1>3
<1> QED
  BY <1>4, Zenon DEF Min

LEMMA MaxIn ==
  ASSUME NEW n \in Nat, NEW S \in SUBSET (1 .. n), S # {}
  PROVE  Max(S) \in S
<1> DEFINE T == {n - u : u \in S}
<1>1. T \in SUBSET Nat /\ T # {}
  <2>1. \A u \in 1 .. n : n - u \in Nat
    OBVIOUS
  <2>2. \A u \in S : n - u \in Nat
    BY <2>1
  <2> QED
    BY <2>2, Zenon
<1>2. PICK m \in T : \A k \in T : ~ (<<k, m>> \in OpToRel(<, Nat))
  BY <1>1, NatLessThanWellFounded, WFMin, Zenon
<1>3. PICK u \in S : m = n - u
  BY <1>2
<1>4. \A v \in S : ~ (n - v < n - u)
  BY <1>1, <1>2, <1>3 DEF OpToRel
<1>5. \A v \in S : u >= v
  <2>1. \A a, b \in 1 .. n : ~ (n - b < n - a) => a >= b
    OBVIOUS
  <2> QED
    BY <1>4, <2>1
<1> QED
  BY <1>5 DEF Max

LEMMA BlankIs ==
  ASSUME NEW op \in Opcodes
  PROVE  Blank(op) \in Instruction /\ Blank(op).opcode = op
  BY UndefinedWord DEF Blank, Instruction

LEMMA BlankNop == /\ Blank("NOP") \in Instruction /\ Blank("NOP").opcode = "NOP"
                  /\ Idle(Blank("NOP"))
  BY BlankIs DEF Idle, Opcodes

LEMMA BlankEop == /\ Blank("EOP") \in Instruction /\ Blank("EOP").opcode = "EOP"
                  /\ Idle(Blank("EOP"))
  BY BlankIs DEF Idle, Opcodes

LEMMA InstrIs ==
  ASSUME ProgramsGiven, TypeInv, NEW n
  PROVE  /\ Instr(n) \in Instruction
         /\ n \in DOMAIN prog => Instr(n) = prog[n]
         /\ n \notin DOMAIN prog => Instr(n) = Blank("EOP")
  BY BlankEop DEF ProgramsGiven, TypeInv, Instr

\* A latch with other words.
LEMMA LatchFields ==
  /\ \A i \in Instruction : Clean(i) \in LatchRecord
  /\ \A r \in LatchRecord : \A v \in Word : [r EXCEPT !.NPC = v] \in LatchRecord
<1>1. \A i \in Instruction : Clean(i) \in LatchRecord
  BY UndefinedWord DEF Clean, LatchRecord
<1>2. \A r \in LatchRecord : \A v \in Word : [r EXCEPT !.NPC = v] \in LatchRecord
  BY DEF LatchRecord
<1> QED
  BY <1>1, <1>2

LEMMA BubbleTyped == Bubble \in LatchRecord
  BY LatchFields, BlankNop DEF Bubble

LEMMA LatchWords ==
  ASSUME TypeInv, NEW s \in Stages
  PROVE  /\ latch[s] \in LatchRecord
         /\ latch[s].ir \in Instruction
         /\ latch[s].NPC \in Word /\ latch[s].A \in Word /\ latch[s].B \in Word
         /\ latch[s].IMM \in Word /\ latch[s].COND \in Word
         /\ latch[s].ALU_OUTPUT \in Word /\ latch[s].LMD \in Word
<1>1. latch[s] \in LatchRecord
  BY DEF TypeInv
<1> QED
  BY <1>1 DEF LatchRecord

LEMMA FetchPCWord == TypeInv => FetchPC \in Word /\ FetchPC \in Int
<1>1. SUFFICES ASSUME TypeInv PROVE FetchPC \in Word
  BY SizeGiven DEF Word
<1> QED
  BY <1>1, LatchWords DEF FetchPC, TypeInv, Stages

LEMMA PipeAluWord ==
  ASSUME BitwiseGivesWords, NEW op, NEW a \in Word, NEW b \in Word, NEW imm \in Word,
         NEW npc \in Word
  PROVE  alu(op, a, b, imm, npc) \in Word
<1>1. a \in Nat /\ imm \in Nat /\ npc \in Nat
  BY SizeGiven DEF Word
<1>2. a + imm \in Int /\ npc + imm \in Int
  BY <1>1
<1>3. Wrap(a + imm) \in Word /\ Wrap(npc + imm) \in Word
  BY <1>2, WrapWord
<1>4. Alu(op, a, b, imm, npc) \in Word /\ UNDEFINED \in Word
  BY AluWord, UndefinedWord
<1> QED
  BY <1>3, <1>4, Zenon DEF alu

LEMMA FloatWord == TypeInv => \A r : FloatRegister(r) \in Word
<1>1. \A m \in Nat \ {0} : (159 * m) \div 512 \in 0 .. m - 1
  OBVIOUS
<1>2. (159 * WordSize) \div 512 \in Word
  BY <1>1, SizeGiven DEF Word
<1> QED
  BY <1>2 DEF FloatRegister, TypeInv, FilesTyped

LEMMA ReadWords ==
  ASSUME TypeInv
  PROVE  /\ \A r : Register(r) \in Word
         /\ \A a : Loaded(a) \in Word
         /\ \A i \in Instruction : LET read == Operands(i)
              IN read.A \in Word /\ read.B \in Word /\ read.IMM \in Word
<1>1. \A r : Register(r) \in Word
  BY UndefinedWord DEF TypeInv, FilesTyped, Register
<1>2. \A a : Loaded(a) \in Word
  BY UndefinedWord DEF TypeInv, FilesTyped, Loaded
<1>3. \A r : FloatRegister(r) \in Word
  BY FloatWord
<1>4. ASSUME NEW i \in Instruction
      PROVE  LET read == Operands(i)
             IN read.A \in Word /\ read.B \in Word /\ read.IMM \in Word
  <2>1. i.immediate \in Word
    BY DEF Instruction
  <2> HIDE DEF Register, FloatRegister, MemoryOp
  <2> QED
    BY <1>1, <1>3, <2>1, UndefinedWord DEF Operands
<1> QED
  BY <1>1, <1>2, <1>4

-----------------------------------------------------------------------------
(* What checking_Stall does to the stalls *)

\* The fields of a stall that is raised, and of one that is lowered.
LEMMA StallTypes ==
  /\ \A reg \in Word : \A t \in {"RAW", "STRUCTURAL", "CONTROL"} :
       /\ Raised(t, reg) \in StallType
       /\ Raised(t, reg).in_stall
       /\ Raised(t, reg).hazard_type = t
       /\ Raised(t, reg).reg = reg
  /\ \A st \in StallType : \A b \in BOOLEAN :
       /\ [st EXCEPT !.in_stall = b] \in StallType
       /\ [st EXCEPT !.in_stall = b].in_stall = b
       /\ [st EXCEPT !.in_stall = b].hazard_type = st.hazard_type
       /\ [st EXCEPT !.in_stall = b].reg = st.reg
  /\ \A st \in StallType :
       /\ [st EXCEPT !.in_stall = FALSE, !.reg = UNDEFINED] \in StallType
       /\ [st EXCEPT !.in_stall = FALSE, !.reg = UNDEFINED].in_stall = FALSE
       /\ [st EXCEPT !.in_stall = FALSE, !.reg = UNDEFINED].hazard_type = st.hazard_type
  /\ \A st \in StallType : st.in_stall \in BOOLEAN /\ st.reg \in Word
<1>1. \A reg \in Word : \A t \in {"RAW", "STRUCTURAL", "CONTROL"} :
        /\ Raised(t, reg) \in StallType
        /\ Raised(t, reg).in_stall
        /\ Raised(t, reg).hazard_type = t
        /\ Raised(t, reg).reg = reg
  BY DEF Raised, StallType
<1>2. \A st \in StallType : \A b \in BOOLEAN :
        /\ [st EXCEPT !.in_stall = b] \in StallType
        /\ [st EXCEPT !.in_stall = b].in_stall = b
        /\ [st EXCEPT !.in_stall = b].hazard_type = st.hazard_type
        /\ [st EXCEPT !.in_stall = b].reg = st.reg
  BY DEF StallType
<1>3. \A st \in StallType :
        /\ [st EXCEPT !.in_stall = FALSE, !.reg = UNDEFINED] \in StallType
        /\ [st EXCEPT !.in_stall = FALSE, !.reg = UNDEFINED].in_stall = FALSE
        /\ [st EXCEPT !.in_stall = FALSE, !.reg = UNDEFINED].hazard_type = st.hazard_type
  BY UndefinedWord DEF StallType
<1>4. \A st \in StallType : st.in_stall \in BOOLEAN /\ st.reg \in Word
  BY DEF StallType
<1> QED
  BY <1>1, <1>2, <1>3, <1>4

\* A stall of ID is raised for the register of an instruction that i awaits.
LEMMA RawStallIs ==
  ASSUME TypeInv, NEW st \in [Stages -> StallType], NEW i
  PROVE  /\ RawStall(st, i) \in [Stages -> StallType]
         /\ \A s \in Stages \ {"ID"} : RawStall(st, i)[s] = st[s]
         /\ \/ /\ \A s \in {"EXE", "MEM", "WB"} : ~ Awaits(i, IR(s))
               /\ RawStall(st, i) = st
            \/ \E s \in {"EXE", "MEM", "WB"} :
                 /\ Awaits(i, IR(s))
                 /\ RawStall(st, i)["ID"] = Raised("RAW", IR(s).dest)
<1> DEFINE producers == {s \in {"EXE", "MEM", "WB"} : Awaits(i, IR(s))}
           kept == IF "WB" \in producers THEN "WB"
                   ELSE IF "MEM" \in producers THEN "MEM" ELSE "EXE"
<1>1. producers # {} => kept \in producers
  OBVIOUS
<1>2. kept \in {"EXE", "MEM", "WB"} /\ kept \in Stages
  BY DEF Stages
<1>3. IR(kept).dest \in Word
  BY <1>2, LatchWords DEF IR, Instruction
<1>4. Raised("RAW", IR(kept).dest) \in StallType
  BY <1>3, StallTypes
<1>5. RawStall(st, i) = IF producers = {} THEN st
                        ELSE [st EXCEPT !["ID"] = Raised("RAW", IR(kept).dest)]
  BY DEF RawStall
<1>6. CASE producers = {}
  BY <1>5, <1>6
<1>7. CASE producers # {}
  <2>1. Awaits(i, IR(kept))
    BY <1>1, <1>7
  <2> HIDE DEF kept
  <2>2. RawStall(st, i) = [st EXCEPT !["ID"] = Raised("RAW", IR(kept).dest)]
    BY <1>5, <1>7
  <2> QED
    BY <1>2, <1>4, <2>1, <2>2 DEF Stages
<1> QED
  BY <1>6, <1>7

LEMMA ControlStallIs ==
  ASSUME NEW st \in [Stages -> StallType], NEW i \in Instruction
  PROVE  /\ ControlStall(st, i) \in [Stages -> StallType]
         /\ \A s \in Stages \ {"IF"} : ControlStall(st, i)[s] = st[s]
         /\ ControlStall(st, i)["IF"].in_stall => st["IF"].in_stall \/ StallsFetch(i)
         /\ StallsFetch(i) => ControlStall(st, i)["IF"].in_stall
<1>1. Raised("CONTROL", i.src1) \in StallType /\ Raised("CONTROL", i.src1).in_stall
  BY StallTypes DEF Instruction
<1> QED
  BY <1>1 DEF ControlStall, Stages

\* EXE waits for a unit; MEM is free when the counter is 0.
LEMMA ExecuteStallIs ==
  ASSUME TypeInv, NEW i
  PROVE  /\ ExecuteStall(i) \in [Stages -> StallType]
         /\ \A s \in {"IF", "ID", "WB"} : ExecuteStall(i)[s] = stall[s]
         /\ ExecuteStall(i)["MEM"].in_stall <=> delayed # 0 /\ InStall("MEM")
         /\ ExecuteStall(i)["MEM"].hazard_type = stall["MEM"].hazard_type
         /\ ExecuteStall(i)["MEM"].reg = stall["MEM"].reg
         /\ ExecuteStall(i)["EXE"].hazard_type \in {stall["EXE"].hazard_type, "STRUCTURAL"}
         /\ ExecuteStall(i)["EXE"].reg \in {stall["EXE"].reg, UNDEFINED}
         /\ ~ Idle(i) /\ ~ ExecuteStall(i)["EXE"].in_stall => FreeUnits(i.opcode) # {}
         /\ ExecuteStall(i)["EXE"].in_stall =>
              \/ ~ Idle(i) /\ FreeUnits(i.opcode) = {}
              \/ delayed # 0
              \/ stall["EXE"].hazard_type = "WAW"
<1> DEFINE access == IF MemoryOp(i)
                     THEN [stall EXCEPT !["EXE"] = Raised("STRUCTURAL", UNDEFINED)] ELSE stall
           eased  == access["EXE"].in_stall /\ access["EXE"].hazard_type = "WAW"
           kept   == access["EXE"].in_stall /\ FreeUnits(i.opcode) = {}
           freed  == IF delayed = 0
                     THEN [access EXCEPT !["MEM"] = [access["MEM"] EXCEPT !.in_stall = FALSE],
                                         !["EXE"] = [access["EXE"] EXCEPT !.in_stall = eased]]
                     ELSE [access EXCEPT !["EXE"] = [access["EXE"] EXCEPT !.in_stall = kept]]
<1>1. stall \in [Stages -> StallType] /\ "EXE" \in Stages /\ "MEM" \in Stages
  BY DEF TypeInv, Stages
<1>2. /\ Raised("STRUCTURAL", UNDEFINED) \in StallType
      /\ Raised("STRUCTURAL", UNDEFINED).in_stall
      /\ Raised("STRUCTURAL", UNDEFINED).hazard_type = "STRUCTURAL"
      /\ Raised("STRUCTURAL", UNDEFINED).reg = UNDEFINED
  BY StallTypes, UndefinedWord
<1>3. /\ access \in [Stages -> StallType]
      /\ \A s \in Stages \ {"EXE"} : access[s] = stall[s]
      /\ access["EXE"].hazard_type \in {stall["EXE"].hazard_type, "STRUCTURAL"}
      /\ access["EXE"].reg \in {stall["EXE"].reg, UNDEFINED}
  BY <1>1, <1>2 DEF Stages
<1>4. eased \in BOOLEAN /\ kept \in BOOLEAN
  OBVIOUS
<1>5. eased => stall["EXE"].hazard_type = "WAW"
  BY <1>3
<1>6. kept => FreeUnits(i.opcode) = {}
  OBVIOUS
<1>7. ExecuteStall(i) = IF FreeUnits(i.opcode) = {} /\ ~ Idle(i)
                        THEN [freed EXCEPT !["EXE"] = Raised("STRUCTURAL", UNDEFINED)]
                        ELSE freed
  BY <1>3 DEF ExecuteStall
<1> HIDE DEF access, eased, kept
<1>8. access["EXE"] \in StallType /\ access["MEM"] \in StallType
  BY <1>1, <1>3
<1>9. /\ [access["MEM"] EXCEPT !.in_stall = FALSE] \in StallType
      /\ [access["MEM"] EXCEPT !.in_stall = FALSE].in_stall = FALSE
      /\ [access["MEM"] EXCEPT !.in_stall = FALSE].hazard_type = access["MEM"].hazard_type
      /\ [access["MEM"] EXCEPT !.in_stall = FALSE].reg = access["MEM"].reg
  BY <1>8, StallTypes
<1>10. \A b \in {eased, kept} :
         /\ [access["EXE"] EXCEPT !.in_stall = b] \in StallType
         /\ [access["EXE"] EXCEPT !.in_stall = b].in_stall = b
         /\ [access["EXE"] EXCEPT !.in_stall = b].hazard_type = access["EXE"].hazard_type
         /\ [access["EXE"] EXCEPT !.in_stall = b].reg = access["EXE"].reg
  <2>1. \A b \in BOOLEAN :
          /\ [access["EXE"] EXCEPT !.in_stall = b] \in StallType
          /\ [access["EXE"] EXCEPT !.in_stall = b].in_stall = b
          /\ [access["EXE"] EXCEPT !.in_stall = b].hazard_type = access["EXE"].hazard_type
          /\ [access["EXE"] EXCEPT !.in_stall = b].reg = access["EXE"].reg
    BY <1>8, StallTypes
  <2> QED
    BY <1>4, <2>1
<1>11. /\ freed \in [Stages -> StallType]
       /\ \A s \in {"IF", "ID", "WB"} : freed[s] = stall[s]
       /\ freed["MEM"].in_stall <=> delayed # 0 /\ InStall("MEM")
       /\ freed["MEM"].hazard_type = stall["MEM"].hazard_type
       /\ freed["MEM"].reg = stall["MEM"].reg
       /\ freed["EXE"].hazard_type = access["EXE"].hazard_type
       /\ freed["EXE"].reg = access["EXE"].reg
       /\ freed["EXE"].in_stall => delayed # 0 \/ stall["EXE"].hazard_type = "WAW"
  <2>1. CASE delayed = 0
    <3>1. freed = [access EXCEPT !["MEM"] = [access["MEM"] EXCEPT !.in_stall = FALSE],
                                 !["EXE"] = [access["EXE"] EXCEPT !.in_stall = eased]]
      BY <2>1
    <3> HIDE DEF freed
    <3> QED
      BY <1>1, <1>3, <1>5, <1>9, <1>10, <2>1, <3>1 DEF Stages
  <2>2. CASE delayed # 0
    <3>1. freed = [access EXCEPT !["EXE"] = [access["EXE"] EXCEPT !.in_stall = kept]]
      BY <2>2
    <3> HIDE DEF freed
    <3> QED
      BY <1>1, <1>3, <1>10, <2>2, <3>1 DEF Stages, InStall
  <2> QED
    BY <2>1, <2>2
<1> HIDE DEF freed
<1>12. CASE FreeUnits(i.opcode) = {} /\ ~ Idle(i)
  <2>1. ExecuteStall(i) = [freed EXCEPT !["EXE"] = Raised("STRUCTURAL", UNDEFINED)]
    BY <1>7, <1>12
  <2> QED
    BY <1>1, <1>2, <1>11, <1>12, <2>1 DEF Stages
<1>13. CASE ~ (FreeUnits(i.opcode) = {} /\ ~ Idle(i))
  BY <1>3, <1>7, <1>11, <1>13
<1> QED
  BY <1>12, <1>13

LEMMA MemoryStallIs ==
  ASSUME TypeInv, NEW i \in Instruction
  PROVE  /\ MemoryCounter(i) \in Int
         /\ MemoryStall(i) \in [Stages -> StallType]
         /\ \A s \in {"ID", "WB"} : MemoryStall(i)[s] = stall[s]
         /\ MemoryStall(i)["IF"].in_stall => InStall("IF")
         /\ StallsFetch(i) => ~ MemoryStall(i)["IF"].in_stall
         /\ ~ StallsFetch(i) => MemoryStall(i)["IF"] = stall["IF"]
         /\ MemoryStall(i)["MEM"].in_stall <=>
              MemoryCounter(i) # 0 /\ (InStall("MEM") \/ MemoryOp(i))
         /\ MemoryStall(i)["EXE"].in_stall <=> MemoryCounter(i) # 0 /\ InStall("EXE")
         /\ \A s \in {"EXE", "MEM"} : /\ MemoryStall(i)[s].hazard_type = stall[s].hazard_type
                                      /\ MemoryStall(i)[s].reg = stall[s].reg
<1> DEFINE left == IF StallsFetch(i)
                   THEN [stall EXCEPT !["IF"] =
                           [stall["IF"] EXCEPT !.in_stall = FALSE, !.reg = UNDEFINED]]
                   ELSE stall
           waiting == IF MemoryOp(i)
                      THEN [left EXCEPT !["MEM"] = [left["MEM"] EXCEPT !.in_stall = TRUE]]
                      ELSE left
<1>1. stall \in [Stages -> StallType]
  BY DEF TypeInv
<1>2. data_memory_latency \in Int /\ delayed \in Int
  BY FpPipeAssumption DEF TypeInv
<1>3. MemoryCounter(i) \in Int
  BY <1>2 DEF MemoryCounter
<1>4. /\ left \in [Stages -> StallType] /\ \A s \in Stages \ {"IF"} : left[s] = stall[s]
      /\ left["IF"].in_stall => InStall("IF")
      /\ StallsFetch(i) => ~ left["IF"].in_stall
      /\ ~ StallsFetch(i) => left["IF"] = stall["IF"]
  BY <1>1, StallTypes DEF Stages, InStall
<1>5. MemoryStall(i) = IF MemoryCounter(i) # 0 THEN waiting
                       ELSE [waiting EXCEPT
                               !["EXE"] = [waiting["EXE"] EXCEPT !.in_stall = FALSE],
                               !["MEM"] = [waiting["MEM"] EXCEPT !.in_stall = FALSE]]
  <2>1. left = IF StallsFetch(i)
               THEN [stall EXCEPT !["IF"].in_stall = FALSE, !["IF"].reg = UNDEFINED]
               ELSE stall
    BY <1>1 DEF Stages, StallType
  <2> HIDE DEF left
  <2>2. waiting = IF MemoryOp(i) THEN [left EXCEPT !["MEM"].in_stall = TRUE] ELSE left
    OBVIOUS
  <2> QED
    BY <1>4, <2>1, <2>2 DEF MemoryStall, Stages
<1> HIDE DEF left
<1>6. left["MEM"] \in StallType
  BY <1>4 DEF Stages
<1>7. /\ waiting \in [Stages -> StallType]
      /\ \A s \in Stages \ {"MEM"} : waiting[s] = left[s]
      /\ waiting["MEM"].in_stall <=> InStall("MEM") \/ MemoryOp(i)
      /\ waiting["MEM"].hazard_type = stall["MEM"].hazard_type
      /\ waiting["MEM"].reg = stall["MEM"].reg
  <2>1. /\ [left["MEM"] EXCEPT !.in_stall = TRUE] \in StallType
        /\ [left["MEM"] EXCEPT !.in_stall = TRUE].in_stall
        /\ [left["MEM"] EXCEPT !.in_stall = TRUE].hazard_type = left["MEM"].hazard_type
        /\ [left["MEM"] EXCEPT !.in_stall = TRUE].reg = left["MEM"].reg
    BY <1>6, StallTypes
  <2> QED
    BY <1>4, <2>1 DEF Stages, InStall
<1> HIDE DEF waiting
<1>8. CASE MemoryCounter(i) # 0
  BY <1>3, <1>4, <1>5, <1>7, <1>8 DEF Stages, InStall
<1>9. CASE MemoryCounter(i) = 0
  <2>1. waiting["EXE"] \in StallType /\ waiting["MEM"] \in StallType
    BY <1>7 DEF Stages
  <2>2. \A s \in {"EXE", "MEM"} :
          /\ [waiting[s] EXCEPT !.in_stall = FALSE] \in StallType
          /\ [waiting[s] EXCEPT !.in_stall = FALSE].in_stall = FALSE
          /\ [waiting[s] EXCEPT !.in_stall = FALSE].hazard_type = waiting[s].hazard_type
          /\ [waiting[s] EXCEPT !.in_stall = FALSE].reg = waiting[s].reg
    BY <2>1, StallTypes
  <2>3. MemoryStall(i) = [waiting EXCEPT
                            !["EXE"] = [waiting["EXE"] EXCEPT !.in_stall = FALSE],
                            !["MEM"] = [waiting["MEM"] EXCEPT !.in_stall = FALSE]]
    BY <1>5, <1>9
  <2>4. /\ MemoryStall(i)["EXE"] = [waiting["EXE"] EXCEPT !.in_stall = FALSE]
        /\ MemoryStall(i)["MEM"] = [waiting["MEM"] EXCEPT !.in_stall = FALSE]
        /\ \A s \in Stages \ {"EXE", "MEM"} : MemoryStall(i)[s] = waiting[s]
        /\ MemoryStall(i) \in [Stages -> StallType]
    BY <1>7, <2>2, <2>3 DEF Stages
  <2>5. waiting["EXE"] = stall["EXE"]
    BY <1>4, <1>7 DEF Stages
  <2>6. \A s \in {"EXE", "MEM"} : /\ MemoryStall(i)[s].in_stall = FALSE
                                 /\ MemoryStall(i)[s].hazard_type = stall[s].hazard_type
                                 /\ MemoryStall(i)[s].reg = stall[s].reg
    BY <1>7, <2>2, <2>4, <2>5
  <2>7. \A s \in {"IF", "ID", "WB"} : MemoryStall(i)[s] = left[s]
    BY <1>7, <2>4 DEF Stages
  <2> QED
    BY <1>3, <1>4, <1>9, <2>4, <2>6, <2>7 DEF Stages
<1> QED
  BY <1>8, <1>9

\* Writing back lowers the stalls of its register, then looks for what it awaits.
LEMMA WritebackStallIs ==
  ASSUME TypeInv, NEW i
  PROVE  LET lowered == [s \in Stages |->
               IF stall[s].reg = i.dest /\ stall[s].hazard_type = "RAW" /\ InStall(s)
               THEN [stall[s] EXCEPT !.in_stall = FALSE, !.reg = UNDEFINED] ELSE stall[s]]
         IN /\ WritebackStall(i) = RawStall(lowered, i)
            /\ lowered \in [Stages -> StallType]
            /\ WritebackStall(i) \in [Stages -> StallType]
            /\ \A s \in Stages : /\ lowered[s].in_stall => InStall(s)
                                 /\ lowered[s].hazard_type = stall[s].hazard_type
            /\ \A s \in Stages \ {"ID"} : WritebackStall(i)[s] = lowered[s]
<1> DEFINE lowered == [s \in Stages |->
              IF stall[s].reg = i.dest /\ stall[s].hazard_type = "RAW" /\ InStall(s)
              THEN [stall[s] EXCEPT !.in_stall = FALSE, !.reg = UNDEFINED] ELSE stall[s]]
<1>1. stall \in [Stages -> StallType]
  BY DEF TypeInv
<1>2. \A s \in Stages : /\ lowered[s] \in StallType
                        /\ lowered[s].in_stall => InStall(s)
                        /\ lowered[s].hazard_type = stall[s].hazard_type
  BY <1>1, StallTypes DEF InStall
<1>3. lowered \in [Stages -> StallType]
  BY <1>2
<1>4. WritebackStall(i) = RawStall(lowered, i)
  BY DEF WritebackStall
<1> HIDE DEF lowered
<1>5. /\ WritebackStall(i) \in [Stages -> StallType]
      /\ \A s \in Stages \ {"ID"} : WritebackStall(i)[s] = lowered[s]
  BY <1>3, <1>4, RawStallIs
<1> QED
  BY <1>2, <1>3, <1>4, <1>5 DEF lowered

-----------------------------------------------------------------------------
(* Units *)

\* A unit's record with other fields.
LEMMA UnitFields ==
  /\ \A r \in UnitRecord : \A b \in Nat : /\ [r EXCEPT !.busy = b] \in UnitRecord
                                          /\ [r EXCEPT !.busy = b].busy = b
                                          /\ [r EXCEPT !.busy = b].delayed = r.delayed
                                          /\ [r EXCEPT !.busy = b].type = r.type
                                          /\ [r EXCEPT !.busy = b].instruction = r.instruction
                                          /\ [r EXCEPT !.busy = b].x = r.x
  /\ \A r \in UnitRecord :
       /\ Emptied(r) \in UnitRecord
       /\ Emptied(r).instruction = Blank("NOP")
       /\ Emptied(r).busy = r.busy /\ Emptied(r).delayed = r.delayed
       /\ Emptied(r).type = r.type /\ Emptied(r).x = r.x
  /\ \A r \in UnitRecord : \A e \in LatchRecord :
       /\ Occupied(r, e) \in UnitRecord
       /\ Occupied(r, e).instruction = e.ir /\ Occupied(r, e).x = e.A
       /\ Occupied(r, e).busy = r.delayed /\ Occupied(r, e).delayed = r.delayed
       /\ Occupied(r, e).type = r.type
<1>1. \A r \in UnitRecord : \A b \in Nat : /\ [r EXCEPT !.busy = b] \in UnitRecord
                                           /\ [r EXCEPT !.busy = b].busy = b
                                           /\ [r EXCEPT !.busy = b].delayed = r.delayed
                                           /\ [r EXCEPT !.busy = b].type = r.type
                                           /\ [r EXCEPT !.busy = b].instruction = r.instruction
                                           /\ [r EXCEPT !.busy = b].x = r.x
  BY DEF UnitRecord
<1>2. \A r \in UnitRecord :
        /\ Emptied(r) \in UnitRecord
        /\ Emptied(r).instruction = Blank("NOP")
        /\ Emptied(r).busy = r.busy /\ Emptied(r).delayed = r.delayed
        /\ Emptied(r).type = r.type /\ Emptied(r).x = r.x
  BY BlankNop DEF UnitRecord, Emptied
<1>3. ASSUME NEW r \in UnitRecord, NEW e \in LatchRecord
      PROVE  /\ Occupied(r, e) \in UnitRecord
             /\ Occupied(r, e).instruction = e.ir /\ Occupied(r, e).x = e.A
             /\ Occupied(r, e).busy = r.delayed /\ Occupied(r, e).delayed = r.delayed
             /\ Occupied(r, e).type = r.type
  <2>1. /\ e.ir \in Instruction /\ e.NPC \in Word /\ e.A \in Word /\ e.B \in Word
        /\ e.IMM \in Word
    BY DEF LatchRecord
  <2>2. r.delayed \in Nat
    BY DEF UnitRecord
  <2> QED
    BY <2>1, <2>2 DEF UnitRecord, Occupied
<1> QED
  BY <1>1, <1>2, <1>3

LEMMA BusyLessIs ==
  ASSUME NEW r \in UnitRecord
  PROVE  /\ BusyLess(r) \in UnitRecord
         /\ BusyLess(r).busy <= r.busy
         /\ BusyLess(r).delayed = r.delayed /\ BusyLess(r).type = r.type
         /\ BusyLess(r).instruction = r.instruction /\ BusyLess(r).x = r.x
         /\ r.busy = 0 => BusyLess(r) = r
<1>1. r.busy \in Nat
  BY DEF UnitRecord
<1>2. CASE r.busy > 0
  <2>1. r.busy - 1 \in Nat /\ BusyLess(r) = [r EXCEPT !.busy = r.busy - 1]
    BY <1>1, <1>2 DEF BusyLess
  <2> QED
    BY <1>1, <1>2, <2>1, UnitFields
<1>3. CASE ~ (r.busy > 0)
  BY <1>1, <1>3 DEF BusyLess
<1> QED
  BY <1>2, <1>3

\* What a unit hands to MEM.
LEMMA ResultIs ==
  ASSUME BitwiseGivesWords, NEW r \in UnitRecord
  PROVE  /\ Result(r) \in LatchRecord
         /\ Result(r).ir = r.instruction
         /\ Result(r).COND = Condition(r.instruction.opcode, r.x)
<1>1. /\ r.instruction \in Instruction /\ r.next_pc \in Word /\ r.x \in Word
      /\ r.y \in Word /\ r.xyz \in Word
  BY DEF UnitRecord
<1>2. alu(r.instruction.opcode, r.x, r.y, r.xyz, r.next_pc) \in Word
  BY <1>1, PipeAluWord
<1>3. Condition(r.instruction.opcode, r.x) \in Word
  BY OneWord, UndefinedWord DEF Condition
<1> DEFINE out  == alu(r.instruction.opcode, r.x, r.y, r.xyz, r.next_pc)
           cond == Condition(r.instruction.opcode, r.x)
<1>4. Result(r) = [Clean(r.instruction) EXCEPT !.ALU_OUTPUT = out, !.B = r.y, !.COND = cond]
  BY DEF Result
<1>5. Clean(r.instruction) \in LatchRecord /\ Clean(r.instruction).ir = r.instruction
  BY <1>1, LatchFields DEF Clean
<1> HIDE DEF out, cond
<1>6. out \in Word /\ cond \in Word
  BY <1>2, <1>3 DEF out, cond
<1> QED
  BY <1>1, <1>4, <1>5, <1>6 DEF LatchRecord, cond

\* The unit an operation takes is free and of the operation's kind.
LEMMA FreeUnitIs ==
  ASSUME TypeInv, NEW op, FreeUnits(op) # {}
  PROVE  /\ Min(FreeUnits(op)) \in FreeUnits(op)
         /\ Min(FreeUnits(op)) \in DOMAIN exec_units
         /\ exec_units[Min(FreeUnits(op))].busy = 0
         /\ exec_units[Min(FreeUnits(op))].type = UnitFor(op)
<1>1. DOMAIN exec_units \subseteq Nat
  BY DEF TypeInv, Table
<1>2. FreeUnits(op) \in SUBSET Nat
  BY <1>1 DEF FreeUnits
<1>3. Min(FreeUnits(op)) \in FreeUnits(op)
  BY <1>2, MinIn
<1> HIDE DEF UnitFor
<1> QED
  BY <1>3 DEF FreeUnits

\* The units that are done, of a table of units.
Done(units) == {u \in DOMAIN units : /\ units[u].busy = 0
                                     /\ units[u].instruction.opcode # "NOP"}

\* Complete empties the units that are done, unless EXE is in stall, and one of
\* them overwrites the latch of MEM.
LEMMA CompleteIs ==
  ASSUME BitwiseGivesWords, TypeInv, NEW units, Table(units), NEW mem \in LatchRecord,
         Complete(units, mem)
  PROVE  /\ Table(exec_units')
         /\ latch' \in [Stages -> LatchRecord]
         /\ \/ /\ exec_units' = units
               /\ latch' = [latch EXCEPT !["MEM"] = mem]
               /\ \/ Done(units) = {}
                  \/ stall'["EXE"].in_stall \/ stall'["EXE"].hazard_type = "WAW"
            \/ /\ exec_units' = [u \in DOMAIN units |-> IF u \in Done(units)
                                                        THEN Emptied(units[u]) ELSE units[u]]
               /\ \E u \in Done(units) :
                    latch' = [latch EXCEPT !["EXE"] = Clean(IR("EXE")),
                                           !["MEM"] = Result(units[u])]
<1> DEFINE executing == stall'["EXE"]
           done == IF executing.in_stall \/ executing.hazard_type = "WAW" THEN {}
                   ELSE Done(units)
<1>1. latch \in [Stages -> LatchRecord] /\ IR("EXE") \in Instruction
  BY LatchWords DEF TypeInv, IR, Stages
<1>2. /\ exec_units' = [u \in DOMAIN units |->
                          IF u \in done THEN Emptied(units[u]) ELSE units[u]]
      /\ latch' = IF done = {} THEN [latch EXCEPT !["MEM"] = mem]
                  ELSE [latch EXCEPT !["EXE"] = Clean(IR("EXE")),
                                     !["MEM"] = Result(units[Max(done)])]
  BY <1>1 DEF Complete, Done, IR
<1>3. PICK n \in Nat : units \in [1 .. n -> UnitRecord]
  BY DEF Table
<1>7. \A u \in DOMAIN units : /\ units[u] \in UnitRecord
                              /\ units[u].busy <= units[u].delayed
                              /\ Emptied(units[u]) \in UnitRecord
                              /\ Emptied(units[u]).busy <= Emptied(units[u]).delayed
  BY <1>3, UnitFields DEF Table
<1> HIDE DEF done
<1>4. Table(exec_units')
  BY <1>2, <1>3, <1>7 DEF Table
<1>5. CASE done = {}
  <2>1. exec_units' = [u \in DOMAIN units |-> units[u]]
    BY <1>2, <1>5
  <2>2. units = [u \in DOMAIN units |-> units[u]]
    BY <1>3
  <2>3. exec_units' = units
    BY <2>1, <2>2
  <2>4. \/ Done(units) = {}
        \/ stall'["EXE"].in_stall \/ stall'["EXE"].hazard_type = "WAW"
    BY <1>5 DEF done
  <2> QED
    BY <1>1, <1>2, <1>4, <1>5, <2>3, <2>4
<1>6. CASE done # {}
  <2>1. done = Done(units)
    BY <1>6 DEF done
  <2>3. done \in SUBSET (1 .. n)
    BY <1>3, <2>1 DEF Done
  <2>4. Max(done) \in done
    BY <1>6, <2>3, MaxIn
  <2>5. Max(done) \in DOMAIN units
    BY <1>3, <2>3, <2>4
  <2>6. Result(units[Max(done)]) \in LatchRecord /\ Clean(IR("EXE")) \in LatchRecord
    BY <1>1, <1>7, <2>5, ResultIs, LatchFields
  <2>7. latch' = [latch EXCEPT !["EXE"] = Clean(IR("EXE")),
                               !["MEM"] = Result(units[Max(done)])]
    BY <1>2, <1>6
  <2>8. latch' \in [Stages -> LatchRecord]
    BY <1>1, <2>6, <2>7
  <2> QED
    BY <1>2, <1>4, <2>1, <2>4, <2>7, <2>8
<1> QED
  BY <1>5, <1>6

-----------------------------------------------------------------------------
(* A step keeps the types *)

LEMMA UnitsAre ==
  ASSUME TypeInv
  PROVE  /\ exec_units \in [DOMAIN exec_units -> UnitRecord]
         /\ \A u \in DOMAIN exec_units : /\ exec_units[u] \in UnitRecord
                                         /\ exec_units[u].busy \in Nat
                                         /\ exec_units[u].delayed \in Nat
                                         /\ exec_units[u].busy <= exec_units[u].delayed
                                         /\ exec_units[u].instruction \in Instruction
<1>1. PICK n \in Nat : exec_units \in [1 .. n -> UnitRecord]
  BY DEF TypeInv, Table
<1>2. \A u \in DOMAIN exec_units : exec_units[u] \in UnitRecord
  BY <1>1
<1>3. \A r \in UnitRecord : r.busy \in Nat /\ r.delayed \in Nat /\ r.instruction \in Instruction
  BY DEF UnitRecord
<1> QED
  BY <1>1, <1>2, <1>3 DEF TypeInv, Table

\* The table of units after the instruction in EXE has taken one.
Taker  == Min(FreeUnits(IR("EXE").opcode))
Issued == [exec_units EXCEPT ![Taker] = Occupied(@, latch["EXE"])]

LEMMA IssuedIs ==
  ASSUME TypeInv, FreeUnits(IR("EXE").opcode) # {}
  PROVE  /\ Table(Issued)
         /\ DOMAIN Issued = DOMAIN exec_units
         /\ Taker \in DOMAIN exec_units
         /\ exec_units[Taker].busy = 0
         /\ exec_units[Taker].type = UnitFor(IR("EXE").opcode)
         /\ Issued[Taker].instruction = IR("EXE")
         /\ Issued[Taker].x = latch["EXE"].A
         /\ Issued[Taker].busy = exec_units[Taker].delayed
         /\ Issued[Taker].delayed = exec_units[Taker].delayed
         /\ Issued[Taker].type = exec_units[Taker].type
         /\ \A u \in DOMAIN exec_units \ {Taker} : Issued[u] = exec_units[u]
<1>1. /\ Taker \in DOMAIN exec_units
      /\ exec_units[Taker].busy = 0
      /\ exec_units[Taker].type = UnitFor(IR("EXE").opcode)
  BY FreeUnitIs DEF Taker
<1>2. latch["EXE"] \in LatchRecord
  BY LatchWords DEF Stages
<1>3. PICK n \in Nat : exec_units \in [1 .. n -> UnitRecord]
  BY DEF TypeInv, Table
<1>4. exec_units[Taker] \in UnitRecord /\ exec_units[Taker].delayed \in Nat
  BY <1>1, UnitsAre
<1> DEFINE new == Occupied(exec_units[Taker], latch["EXE"])
<1>5. /\ new \in UnitRecord
      /\ new.instruction = IR("EXE") /\ new.x = latch["EXE"].A
      /\ new.busy = exec_units[Taker].delayed
      /\ new.delayed = exec_units[Taker].delayed
      /\ new.type = exec_units[Taker].type
  BY <1>2, <1>4, UnitFields DEF IR
<1>6. Issued = [exec_units EXCEPT ![Taker] = new]
  BY DEF Issued
<1> HIDE DEF new, Taker
<1>7. Issued \in [1 .. n -> UnitRecord]
  BY <1>3, <1>5, <1>6
<1>8. /\ Issued[Taker] = new
      /\ \A u \in DOMAIN exec_units \ {Taker} : Issued[u] = exec_units[u]
      /\ DOMAIN Issued = DOMAIN exec_units
  BY <1>1, <1>3, <1>6
<1>9. \A u \in DOMAIN Issued : Issued[u].busy <= Issued[u].delayed
  BY <1>4, <1>5, <1>8, UnitsAre
<1> QED
  BY <1>1, <1>5, <1>7, <1>8, <1>9 DEF Table

LEMMA WritebackTypes ==
  ASSUME TypeInv, WritebackNothing \/ WritebackEnd \/ Writeback
  PROVE  TypeInv'
<1>1. phase' \in Phases
  BY DEF WritebackNothing, WritebackEnd, Writeback, Enter, Phases
<1>2. CASE WritebackNothing
  BY <1>1, <1>2 DEF WritebackNothing, TypeInv, FilesTyped, chosen, registers, clock, calls
<1>3. CASE WritebackEnd
  BY <1>1, <1>3 DEF WritebackEnd, TypeInv, FilesTyped, chosen, registers, clock
<1>4. CASE Writeback
  <2> DEFINE i == IR("WB")
             result == IF i.opcode \in Loads THEN latch["WB"].LMD ELSE latch["WB"].ALU_OUTPUT
  <2>1. /\ gp_fp' \in {gp_fp, [gp_fp EXCEPT ![i.dest] = result]}
        /\ gp_int' \in {gp_int, [gp_int EXCEPT ![i.dest] = result]}
        /\ stall' = WritebackStall(i)
    BY <1>4 DEF Writeback
  <2>2. result \in Word
    BY LatchWords DEF Stages
  <2> HIDE DEF result, i
  <2>3. FilesTyped'
    <3>1. /\ \A r \in DOMAIN gp_int : gp_int[r] \in Word
          /\ \A r \in DOMAIN gp_fp : gp_fp[r] \in Word
          /\ \A a \in DOMAIN data_memory : data_memory[a] \in Word
      BY DEF TypeInv, FilesTyped
    <3>2. \A r \in DOMAIN gp_int' : gp_int'[r] \in Word
      BY <2>1, <2>2, <3>1
    <3>3. \A r \in DOMAIN gp_fp' : gp_fp'[r] \in Word
      BY <2>1, <2>2, <3>1
    <3>4. data_memory' = data_memory
      BY <1>4 DEF Writeback
    <3> QED
      BY <3>1, <3>2, <3>3, <3>4 DEF FilesTyped
  <2>4. stall' \in [Stages -> StallType]
    BY <2>1, WritebackStallIs
  <2>5. total_instr_count' \in Nat
    BY <1>4 DEF Writeback, TypeInv
  <2> QED
    BY <1>1, <1>4, <2>3, <2>4, <2>5 DEF Writeback, TypeInv, chosen, clock, calls
<1> QED
  BY <1>2, <1>3, <1>4

LEMMA MemoryTypes ==
  ASSUME WordsGiven, TypeInv, MemoryWait \/ MemoryPass \/ MemoryAccess
  PROVE  TypeInv'
<1>1. CheckMemory
  BY DEF MemoryWait, MemoryPass, MemoryAccess
<1>2. IR("MEM") \in Instruction /\ latch \in [Stages -> LatchRecord]
  BY LatchWords DEF IR, Stages, TypeInv
<1>3. stall' \in [Stages -> StallType] /\ delayed' \in Int /\ phase' \in Phases
  BY <1>1, <1>2, MemoryStallIs DEF CheckMemory, Enter, Phases
<1>4. \A a \in DOMAIN data_memory : data_memory[a] \in Word
  BY DEF TypeInv, FilesTyped
<1>5. /\ latch' \in [Stages -> LatchRecord] /\ stall_put' \in BOOLEAN
      /\ \A a \in DOMAIN data_memory' : data_memory'[a] \in Word
  <2>1. stall_put \in BOOLEAN
    BY DEF TypeInv
  <2>2. CASE MemoryWait
    BY <1>2, <1>4, <2>2, BubbleTyped DEF MemoryWait
  <2>3. CASE MemoryPass
    <3>1. Clean(IR("MEM")) \in LatchRecord
      BY <1>2, LatchFields
    <3> QED
      BY <1>2, <1>4, <2>1, <2>3, <3>1 DEF MemoryPass
  <2>4. CASE MemoryAccess
    <3> DEFINE m == latch["MEM"]
               in == IF m.ir.opcode = "LWS" THEN Loaded(m.ALU_OUTPUT) ELSE UNDEFINED
               out == IF m.ir.opcode = "SWS" THEN Narrowed(m.B) ELSE m.B
               new == [Clean(m.ir) EXCEPT !.ALU_OUTPUT = m.ALU_OUTPUT, !.COND = m.COND,
                                          !.LMD = in]
    <3>1. /\ latch' = [latch EXCEPT !["WB"] = new]
          /\ data_memory' \in {data_memory, [data_memory EXCEPT ![m.ALU_OUTPUT] = out]}
          /\ stall_put' = stall_put
      BY <2>4 DEF MemoryAccess
    <3>2. /\ m.ir \in Instruction
          /\ m.ALU_OUTPUT \in Word /\ m.COND \in Word /\ m.B \in Word
      BY LatchWords DEF Stages
    <3>3. in \in Word
      BY ReadWords, UndefinedWord
    <3>4. out \in Word
      BY <3>2 DEF WordsGiven
    <3> HIDE DEF m, in, out
    <3>5. Clean(m.ir) \in LatchRecord
      BY <3>2, LatchFields
    <3>6. new \in LatchRecord
      BY <3>2, <3>3, <3>5 DEF LatchRecord
    <3> HIDE DEF new
    <3> QED
      BY <1>2, <1>4, <2>1, <3>1, <3>4, <3>6
  <2> QED
    BY <2>2, <2>3, <2>4
<1>6. FilesTyped'
  BY <1>1, <1>5 DEF CheckMemory, registers, TypeInv, FilesTyped
<1> QED
  BY <1>1, <1>3, <1>5, <1>6 DEF CheckMemory, TypeInv, chosen, clock, calls

LEMMA ExecuteTypes ==
  ASSUME WordsGiven, TypeInv, ExecuteWait \/ ExecutePass \/ ExecuteIssue
  PROVE  TypeInv'
<1>1. CheckExecute
  BY DEF ExecuteWait, ExecutePass, ExecuteIssue
<1>2. stall' \in [Stages -> StallType] /\ phase' \in Phases
  BY <1>1, ExecuteStallIs DEF CheckExecute, Enter, Phases
<1>3. latch' \in [Stages -> LatchRecord] /\ Table(exec_units')
  <2>1. CASE ExecuteWait
    BY <2>1 DEF ExecuteWait, TypeInv
  <2>2. CASE ExecutePass
    <3>1. Clean(IR("EXE")) \in LatchRecord
      BY LatchWords, LatchFields DEF IR, Stages
    <3>2. PICK mem \in LatchRecord : Complete(exec_units, mem)
      BY <2>2, <3>1, BubbleTyped DEF ExecutePass
    <3> QED
      BY <3>2, CompleteIs DEF TypeInv, WordsGiven
  <2>3. CASE ExecuteIssue
    <3>1. FreeUnits(IR("EXE").opcode) # {}
      BY <1>1, <2>3, ExecuteStallIs DEF ExecuteIssue, CheckExecute
    <3>2. Complete(Issued, Bubble)
      BY <2>3 DEF ExecuteIssue, Issued, Taker
    <3> QED
      BY <3>1, <3>2, BubbleTyped, IssuedIs, CompleteIs DEF WordsGiven
  <2> QED
    BY <2>1, <2>2, <2>3
<1> QED
  BY <1>1, <1>2, <1>3 DEF CheckExecute, TypeInv, FilesTyped, chosen, registers, clock, calls

LEMMA DecodeTypes ==
  ASSUME TypeInv, DecodeBlocked \/ DecodeStall \/ DecodeConflict \/ DecodePass \/ Decode
  PROVE  TypeInv'
<1>1. Decoding
  BY DEF DecodeBlocked, DecodeStall, DecodeConflict, DecodePass, Decode, CheckDecode
<1>2. /\ latch \in [Stages -> LatchRecord] /\ stall \in [Stages -> StallType]
      /\ stall_put \in BOOLEAN
  BY DEF TypeInv
<1>3. IR("ID") \in Instruction /\ latch["ID"].NPC \in Word
  BY LatchWords DEF IR, Stages
<1>4. Clean(IR("ID")) \in LatchRecord /\ ExecuteStall(IR("ID")) \in [Stages -> StallType]
  BY <1>3, LatchFields, ExecuteStallIs
<1>5. /\ latch' \in [Stages -> LatchRecord] /\ stall' \in [Stages -> StallType]
      /\ stall_put' \in BOOLEAN
  <2>1. CASE DecodeBlocked
    BY <1>2, <2>1 DEF DecodeBlocked
  <2>2. CASE DecodeStall
    BY <1>2, <2>2, BubbleTyped DEF DecodeStall, Insert
  <2>3. CASE DecodeConflict
    BY <1>2, <1>4, <2>3, BubbleTyped DEF DecodeConflict, CheckDecode, Insert
  <2>4. CASE DecodePass
    <3>1. PICK w \in Word : latch' = [latch EXCEPT !["EXE"] = [Clean(IR("ID")) EXCEPT !.NPC = w]]
      BY <1>3, <2>4, UndefinedWord DEF DecodePass
    <3>2. stall' = ExecuteStall(IR("ID")) /\ stall_put' = stall_put
      BY <2>4 DEF DecodePass, CheckDecode
    <3> QED
      BY <1>2, <1>4, <3>1, <3>2, LatchFields
  <2>5. CASE Decode
    <3> DEFINE read == Operands(IR("ID"))
               new == [Clean(IR("ID")) EXCEPT !.NPC = latch["ID"].NPC, !.A = read.A,
                                              !.B = read.B, !.IMM = read.IMM]
    <3>1. latch' = [latch EXCEPT !["EXE"] = new]
      BY <2>5 DEF Decode
    <3>2. read.A \in Word /\ read.B \in Word /\ read.IMM \in Word
      BY <1>3, ReadWords
    <3> HIDE DEF read
    <3>3. new \in LatchRecord
      BY <1>3, <1>4, <3>2 DEF LatchRecord
    <3>4. stall' = ExecuteStall(IR("ID")) /\ stall_put' = stall_put
      BY <2>5 DEF Decode, CheckDecode
    <3> QED
      BY <1>2, <1>4, <3>1, <3>3, <3>4
  <2> QED
    BY <2>1, <2>2, <2>3, <2>4, <2>5
    DEF DecodeBlocked, DecodeStall, DecodeConflict, DecodePass, Decode
<1> QED
  BY <1>1, <1>5 DEF Decoding, Enter, Phases, TypeInv, FilesTyped, chosen, registers, clock,
     calls

LEMMA FetchTypes ==
  ASSUME ProgramsGiven, TypeInv,
         FetchNothing \/ FetchHeld \/ FetchStall \/ FetchEnd \/ Fetch
  PROVE  TypeInv'
<1>1. Fetching
  BY DEF FetchNothing, FetchHeld, FetchStall, FetchEnd, Fetch
<1>2. /\ latch \in [Stages -> LatchRecord] /\ stall \in [Stages -> StallType]
      /\ stall_put \in BOOLEAN /\ end \in BOOLEAN /\ pc \in Word
  BY DEF TypeInv
<1>3. FetchPC \in Word /\ FetchPC + 4 \in Int
  BY FetchPCWord
<1>4. Wrap(FetchPC + 4) \in Word
  BY <1>3, WrapWord
<1>5. Fetched \in Instruction
  BY InstrIs DEF Fetched
<1>6. /\ Clean(Fetched) \in LatchRecord
      /\ RawStall(stall, Fetched) \in [Stages -> StallType]
      /\ ControlStall(RawStall(stall, Fetched), Fetched) \in [Stages -> StallType]
  BY <1>2, <1>5, LatchFields, RawStallIs, ControlStallIs
<1> HIDE DEF FetchPC, Fetched
<1>7. /\ latch' \in [Stages -> LatchRecord] /\ stall' \in [Stages -> StallType]
      /\ stall_put' \in BOOLEAN /\ end' \in BOOLEAN /\ pc' \in Word
  <2>1. CASE FetchNothing
    BY <1>2, <2>1 DEF FetchNothing
  <2>2. CASE FetchHeld
    BY <1>2, <2>2 DEF FetchHeld
  <2>3. CASE FetchStall
    BY <1>2, <1>6, <2>3, BubbleTyped DEF FetchStall
  <2>4. CASE FetchEnd
    <3>1. [Clean(Fetched) EXCEPT !.NPC = FetchPC] \in LatchRecord
      BY <1>3, <1>6, LatchFields
    <3> QED
      BY <1>2, <2>4, <3>1 DEF FetchEnd
  <2>5. CASE Fetch
    <3>1. [Clean(Fetched) EXCEPT !.NPC = Wrap(FetchPC + 4)] \in LatchRecord
      BY <1>4, <1>6, LatchFields
    <3> QED
      BY <1>2, <1>4, <1>6, <2>5, <3>1 DEF Fetch
  <2> QED
    BY <2>1, <2>2, <2>3, <2>4, <2>5
<1> QED
  BY <1>1, <1>7 DEF Fetching, Enter, Phases, TypeInv, FilesTyped, chosen, registers, clock,
     calls

LEMMA EndCycleTypes ==
  ASSUME TypeInv, EndCycle
  PROVE  TypeInv'
<1>1. PICK n \in Nat : exec_units \in [1 .. n -> UnitRecord]
  BY DEF TypeInv, Table
<1>2. \A u \in DOMAIN exec_units :
        /\ BusyLess(exec_units[u]) \in UnitRecord
        /\ BusyLess(exec_units[u]).busy <= exec_units[u].busy
        /\ BusyLess(exec_units[u]).delayed = exec_units[u].delayed
  BY UnitsAre, BusyLessIs
<1>3. exec_units' = [u \in DOMAIN exec_units |-> BusyLess(exec_units[u])]
  BY DEF EndCycle
<1>4. exec_units' \in [1 .. n -> UnitRecord]
  BY <1>1, <1>2, <1>3
<1>5. \A u \in DOMAIN exec_units' : exec_units'[u].busy <= exec_units'[u].delayed
  <2>1. SUFFICES ASSUME NEW u \in DOMAIN exec_units
                 PROVE  BusyLess(exec_units[u]).busy <= BusyLess(exec_units[u]).delayed
    BY <1>3
  <2>2. /\ exec_units[u].busy \in Nat /\ exec_units[u].delayed \in Nat
        /\ exec_units[u].busy <= exec_units[u].delayed
    BY UnitsAre
  <2>3. BusyLess(exec_units[u]).busy \in Nat
    BY <1>2 DEF UnitRecord
  <2>4. BusyLess(exec_units[u]).busy <= exec_units[u].busy
    BY <1>2
  <2>5. BusyLess(exec_units[u]).delayed = exec_units[u].delayed
    BY <1>2
  <2>6. \A a, b, c \in Nat : a <= b /\ b <= c => a <= c
    OBVIOUS
  <2> QED
    BY <2>2, <2>3, <2>4, <2>5, <2>6
<1>6. Table(exec_units')
  BY <1>4, <1>5 DEF Table
<1>7. stalls' \in Nat /\ total_clock_cycle' \in Nat \cup {-1}
  <2>1. (\A m \in Nat : Counted(m) \in Nat) /\ Counted(-1) \in Nat \cup {-1}
    BY DEF Counted
  <2>2. stalls' \in {stalls, Counted(stalls)} /\ total_clock_cycle' = Counted(total_clock_cycle)
    BY DEF EndCycle
  <2> QED
    BY <2>1, <2>2 DEF TypeInv
<1>8. cycles' \in Nat /\ stall_put' \in BOOLEAN /\ phase' \in Phases
  <2>1. \A k \in Nat : k > 0 => k - 1 \in Nat
    OBVIOUS
  <2>2. cycles \in Nat
    BY DEF TypeInv
  <2>3. /\ cycles' = (IF ~ pipe_run /\ cycles > 0 THEN cycles - 1 ELSE cycles)
        /\ stall_put' = FALSE /\ phase' \in {"writeback", "idle"}
    BY DEF EndCycle
  <2>4. cycles' \in Nat
    BY <2>1, <2>2, <2>3
  <2> QED
    BY <2>3, <2>4 DEF Phases
<1> QED
  BY <1>6, <1>7, <1>8 DEF EndCycle, TypeInv, FilesTyped, chosen, registers

LEMMA RunTypes ==
  ASSUME TypeInv, NEW n \in Calls, Run(n)
  PROVE  TypeInv'
<1>1. cycles' \in Nat /\ pipe_run' \in BOOLEAN /\ phase' \in Phases
  BY FpPipeAssumption DEF Run, Phases
<1> QED
  BY <1>1 DEF Run, TypeInv, FilesTyped, chosen, registers, clock

LEMMA EmptyPipeIs ==
  /\ EmptyPipe \in [Stages -> LatchRecord]
  /\ \A s \in Stages : EmptyPipe[s].ir = Blank("NOP") /\ EmptyPipe[s].COND = UNDEFINED
  BY BubbleTyped DEF EmptyPipe, Bubble, Clean

LEMMA ResetIs ==
  ASSUME TypeInv, Reset
  PROVE  /\ stall' \in [Stages -> StallType]
         /\ \A s \in Stages : /\ InStall(s)' = FALSE
                              /\ stall'[s].hazard_type = stall[s].hazard_type
         /\ Table(exec_units')
         /\ DOMAIN exec_units' = DOMAIN exec_units
         /\ \A u \in DOMAIN exec_units :
              /\ exec_units'[u].busy = 0
              /\ exec_units'[u].type = exec_units[u].type
              /\ exec_units'[u].delayed = exec_units[u].delayed
              /\ exec_units'[u].instruction = exec_units[u].instruction
              /\ exec_units'[u].x = exec_units[u].x
<1>1. /\ stall' = [s \in Stages |-> [stall[s] EXCEPT !.in_stall = FALSE]]
      /\ exec_units' = [u \in DOMAIN exec_units |-> [exec_units[u] EXCEPT !.busy = 0]]
  BY DEF Reset
<1>2. \A s \in Stages : stall[s] \in StallType
  BY DEF TypeInv
<1>3. \A s \in Stages : /\ [stall[s] EXCEPT !.in_stall = FALSE] \in StallType
                        /\ [stall[s] EXCEPT !.in_stall = FALSE].in_stall = FALSE
                        /\ [stall[s] EXCEPT !.in_stall = FALSE].hazard_type
                             = stall[s].hazard_type
  BY <1>2, StallTypes
<1>4. PICK n \in Nat : exec_units \in [1 .. n -> UnitRecord]
  BY DEF TypeInv, Table
<1>5. \A u \in DOMAIN exec_units :
        /\ [exec_units[u] EXCEPT !.busy = 0] \in UnitRecord
        /\ [exec_units[u] EXCEPT !.busy = 0].busy = 0
        /\ [exec_units[u] EXCEPT !.busy = 0].delayed = exec_units[u].delayed
        /\ [exec_units[u] EXCEPT !.busy = 0].type = exec_units[u].type
        /\ [exec_units[u] EXCEPT !.busy = 0].instruction = exec_units[u].instruction
        /\ [exec_units[u] EXCEPT !.busy = 0].x = exec_units[u].x
        /\ exec_units[u].delayed \in Nat
  BY UnitsAre, UnitFields
<1>6. exec_units' \in [1 .. n -> UnitRecord]
  BY <1>1, <1>4, <1>5
<1>7. \A u \in DOMAIN exec_units' : exec_units'[u].busy <= exec_units'[u].delayed
  <2>1. SUFFICES ASSUME NEW u \in DOMAIN exec_units
                 PROVE  exec_units'[u].busy <= exec_units'[u].delayed
    BY <1>1
  <2>2. exec_units'[u] = [exec_units[u] EXCEPT !.busy = 0]
    BY <1>1
  <2>3. exec_units'[u].busy = 0 /\ exec_units'[u].delayed = exec_units[u].delayed
    BY <1>5, <2>2
  <2>4. exec_units[u].delayed \in Nat
    BY <1>5
  <2> QED
    BY <2>3, <2>4
<1>8. Table(exec_units')
  BY <1>6, <1>7 DEF Table
<1> QED
  BY <1>1, <1>3, <1>5, <1>8 DEF InStall

LEMMA ResetTypes ==
  ASSUME WordsGiven, TypeInv, Reset
  PROVE  TypeInv'
<1>1. PICK s \in Restarts :
        /\ s.latency = data_memory_latency /\ prog' = s.prog
        /\ gp_int' = s.gp_int /\ gp_fp' = s.gp_fp /\ data_memory' = s.data_memory
  BY DEF Reset
<1>2. s \in Setups
  BY FpPipeAssumption
<1>3. \E t \in Setups : prog' = t.prog /\ data_memory_latency' = t.latency
  BY <1>1, <1>2 DEF Reset
<1>4. FilesTyped'
  BY <1>1, <1>2 DEF FilesTyped, WordsGiven
<1>5. latch' \in [Stages -> LatchRecord]
  BY EmptyPipeIs DEF Reset
<1>6. /\ pc' \in Word /\ total_clock_cycle' \in Nat \cup {-1}
      /\ total_instr_count' \in Nat /\ stalls' \in Nat
      /\ end' \in BOOLEAN /\ stall_put' \in BOOLEAN
  BY OneWord DEF Reset
<1> QED
  BY <1>3, <1>4, <1>5, <1>6, ResetIs DEF Reset, TypeInv, calls

LEMMA InitTypes == UnitsGiven /\ WordsGiven => (Init => TypeInv)
<1>1. SUFFICES ASSUME UnitsGiven, WordsGiven, Init PROVE TypeInv
  OBVIOUS
<1>2. PICK s \in Setups :
        /\ prog = s.prog /\ data_memory_latency = s.latency /\ exec_units = s.units
        /\ gp_int = s.gp_int /\ gp_fp = s.gp_fp /\ data_memory = s.data_memory
        /\ delayed = s.delayed
        /\ stall = [st \in Stages |-> [in_stall |-> FALSE, reg |-> UNDEFINED,
                                       hazard_type |-> s.hazard_type]]
  BY <1>1 DEF Init
<1>3. PICK n \in Nat : DOMAIN s.units = 1 .. n
  BY <1>1 DEF UnitsGiven
<1>4. /\ s.units = [u \in DOMAIN s.units |-> Unit(s.units[u].type, s.units[u].delayed)]
      /\ \A u \in DOMAIN s.units : s.units[u].type \in UnitTypes /\ s.units[u].delayed \in Nat
  BY <1>1 DEF UnitsGiven
<1>5. \A u \in DOMAIN s.units :
        LET new == Unit(s.units[u].type, s.units[u].delayed)
        IN new \in UnitRecord /\ new.busy <= new.delayed
  <2>1. \A t \in UnitTypes, d \in Nat : Unit(t, d) \in UnitRecord
    BY UndefinedWord, BlankNop DEF Unit, UnitRecord
  <2>2. \A t \in UnitTypes, d \in Nat : Unit(t, d).busy <= Unit(t, d).delayed
    BY DEF Unit
  <2> QED
    BY <1>4, <2>1, <2>2
<1>6. Table(exec_units)
  <2>1. exec_units \in [1 .. n -> UnitRecord]
    BY <1>2, <1>3, <1>4, <1>5
  <2>2. \A u \in DOMAIN exec_units : exec_units[u].busy <= exec_units[u].delayed
    BY <1>2, <1>4, <1>5
  <2> QED
    BY <2>1, <2>2 DEF Table
<1>7. stall \in [Stages -> StallType]
  <2>1. s.hazard_type \in HazardTypes
    BY <1>1 DEF WordsGiven
  <2>2. [in_stall |-> FALSE, reg |-> UNDEFINED, hazard_type |-> s.hazard_type] \in StallType
    BY <2>1, UndefinedWord DEF StallType, HazardTypes
  <2> QED
    BY <1>2, <2>2
<1>8. FilesTyped
  BY <1>1, <1>2 DEF FilesTyped, WordsGiven
<1>9. latch \in [Stages -> LatchRecord]
  BY <1>1, EmptyPipeIs DEF Init
<1>10. /\ pc \in Word /\ end \in BOOLEAN /\ pipe_run \in BOOLEAN /\ stall_put \in BOOLEAN
       /\ total_clock_cycle \in Nat \cup {-1}
       /\ total_instr_count \in Nat /\ stalls \in Nat /\ cycles \in Nat
       /\ phase \in Phases
  BY <1>1, OneWord DEF Init, Phases
<1>11. delayed \in Int
  BY <1>2, FpPipeAssumption
<1> QED
  BY <1>2, <1>6, <1>7, <1>8, <1>9, <1>10, <1>11 DEF TypeInv

LEMMA NextTypes ==
  ASSUME ProgramsGiven, WordsGiven, TypeInv, [Next]_vars
  PROVE  TypeInv'
<1>1. CASE Step
  BY <1>1, WritebackTypes, MemoryTypes, ExecuteTypes, DecodeTypes, FetchTypes, EndCycleTypes
     DEF Step
<1>2. ASSUME NEW n \in Calls, Run(n) PROVE TypeInv'
  BY <1>2, RunTypes
<1>3. CASE Reset
  BY <1>3, ResetTypes
<1>4. CASE UNCHANGED vars
  BY <1>4 DEF TypeInv, FilesTyped, vars, chosen, registers, clock, calls
<1> QED
  BY <1>1, <1>2, <1>3, <1>4 DEF Next

LEMMA TypesHold == TypeInv => TypeOK
<1>1. SUFFICES ASSUME TypeInv PROVE TypeOK
  OBVIOUS
<1>2. \A i \in Instruction : Holds(i)
  BY DEF Holds, Instruction
<1>3. LatchType
  <2>1. SUFFICES ASSUME NEW s \in Stages
                 PROVE  /\ Holds(IR(s))
                        /\ {latch[s].NPC, latch[s].A, latch[s].B, latch[s].IMM,
                            latch[s].COND, latch[s].ALU_OUTPUT, latch[s].LMD} \subseteq Word
    BY DEF LatchType
  <2>2. /\ latch[s].NPC \in Word /\ latch[s].A \in Word /\ latch[s].B \in Word
        /\ latch[s].IMM \in Word /\ latch[s].COND \in Word
        /\ latch[s].ALU_OUTPUT \in Word /\ latch[s].LMD \in Word
    BY <1>1, LatchWords
  <2>3. Holds(IR(s))
    BY <1>1, <1>2, LatchWords DEF IR
  <2> QED
    BY <2>2, <2>3
<1>4. UnitType
  <2>1. SUFFICES ASSUME NEW u \in DOMAIN exec_units
                 PROVE  /\ exec_units[u].type \in UnitTypes
                        /\ exec_units[u].busy \in 0 .. exec_units[u].delayed
                        /\ Holds(exec_units[u].instruction)
                        /\ {exec_units[u].next_pc, exec_units[u].x, exec_units[u].y,
                            exec_units[u].xyz} \subseteq Word
    BY DEF UnitType, UnitTypes
  <2>2. exec_units[u] \in UnitRecord
    BY <1>1, UnitsAre
  <2>3. /\ exec_units[u].type \in UnitTypes
        /\ exec_units[u].next_pc \in Word /\ exec_units[u].x \in Word
        /\ exec_units[u].y \in Word /\ exec_units[u].xyz \in Word
    BY <2>2 DEF UnitRecord
  <2>4. exec_units[u].busy \in 0 .. exec_units[u].delayed /\ Holds(exec_units[u].instruction)
    BY <1>1, <1>2, UnitsAre
  <2> QED
    BY <2>3, <2>4
<1>5. {end, pipe_run, stall_put} \subseteq BOOLEAN
  BY <1>1 DEF TypeInv
<1>6. {total_instr_count, stalls, cycles} \subseteq Nat
  BY <1>1 DEF TypeInv
<1>7. phase \in {"idle", "writeback", "memory", "execute", "decode", "fetch", "units"}
  BY <1>1 DEF TypeInv, Phases
<1> QED
  BY <1>1, <1>3, <1>4, <1>5, <1>6, <1>7 DEF TypeOK, TypeInv, FilesTyped

\* Latches, units, registers and memory hold words, no unit is busy for longer than
\* its delay, and the stages, stalls and counters stay in their ranges.
THEOREM TypesCorrect ==
  ProgramsGiven /\ UnitsGiven /\ WordsGiven => (Spec => []TypeOK)
<1> SUFFICES ASSUME ProgramsGiven /\ UnitsGiven /\ WordsGiven
             PROVE  Spec => []TypeOK
  OBVIOUS
<1>1. Init => TypeInv
  BY InitTypes
<1>2. TypeInv /\ [Next]_vars => TypeInv'
  BY NextTypes
<1>3. TypeInv => TypeOK
  BY TypesHold
<1> QED
  BY <1>1, <1>2, <1>3, PTL DEF Spec

-----------------------------------------------------------------------------
(* No instruction is lost: what each stage does to the instructions in flight *)

One(b) == IF b THEN 1 ELSE 0

\* An access in MEM stops the stages before it; the counter and the stall say so
\* together, and nothing is in WB meanwhile.
Access ==
  /\ delayed # 0 <=> InStall("MEM")
  /\ InStall("MEM") => MemoryOp(IR("MEM")) /\ IR("WB").opcode = "NOP"
  /\ stall["EXE"].hazard_type # "WAW"

WritebackMove ==
  /\ phase = "writeback" /\ phase' = "memory"
  /\ prog' = prog /\ pc' = pc /\ end' = end /\ latch' = latch /\ exec_units' = exec_units
  /\ delayed' = delayed
  /\ total_instr_count' = total_instr_count + One(~ Idle(IR("WB")))
  /\ stall'["MEM"].in_stall <=> InStall("MEM")
  /\ stall'["EXE"].hazard_type = stall["EXE"].hazard_type

LEMMA WritebackMoves ==
  ASSUME TypeInv, Access, WritebackNothing \/ WritebackEnd \/ Writeback
  PROVE  WritebackMove
<1>1. total_instr_count + 0 = total_instr_count
  BY DEF TypeInv
<1>2. CASE WritebackNothing
  <2>1. Idle(IR("WB"))
    BY <1>2 DEF WritebackNothing, Idle
  <2> QED
    BY <1>1, <1>2, <2>1 DEF WritebackNothing, Enter, WritebackMove, chosen, InStall, One
<1>3. CASE WritebackEnd
  <2>1. Idle(IR("WB"))
    BY <1>3 DEF WritebackEnd, Idle
  <2> QED
    BY <1>1, <1>3, <2>1 DEF WritebackEnd, Enter, WritebackMove, chosen, InStall, One
<1>4. CASE Writeback
  <2>1. ~ Idle(IR("WB")) /\ stall' = WritebackStall(IR("WB"))
    BY <1>4 DEF Writeback
  <2>2. ~ InStall("MEM")
    BY <2>1 DEF Access, Idle
  <2>3. /\ stall'["MEM"].in_stall => InStall("MEM")
        /\ stall'["EXE"].hazard_type = stall["EXE"].hazard_type
    <3> DEFINE i == IR("WB")
               lowered == [s \in Stages |->
                 IF stall[s].reg = i.dest /\ stall[s].hazard_type = "RAW" /\ InStall(s)
                 THEN [stall[s] EXCEPT !.in_stall = FALSE, !.reg = UNDEFINED] ELSE stall[s]]
    <3>1. /\ \A s \in Stages : /\ lowered[s].in_stall => InStall(s)
                               /\ lowered[s].hazard_type = stall[s].hazard_type
          /\ \A s \in Stages \ {"ID"} : WritebackStall(i)[s] = lowered[s]
      BY WritebackStallIs
    <3> HIDE DEF lowered
    <3> QED
      BY <2>1, <3>1 DEF Stages
  <2> QED
    BY <1>4, <2>1, <2>2, <2>3 DEF Writeback, Enter, WritebackMove, chosen, One
<1> QED
  BY <1>2, <1>3, <1>4

MemoryMove ==
  /\ phase = "memory" /\ phase' = "execute"
  /\ prog' = prog /\ pc' = pc /\ end' = end /\ exec_units' = exec_units
  /\ total_instr_count' = total_instr_count
  /\ \A s \in {"IF", "ID", "EXE", "MEM"} : latch'[s] = latch[s]
  /\ delayed' # 0 <=> stall'["MEM"].in_stall
  /\ stall'["EXE"].hazard_type = stall["EXE"].hazard_type
  /\ stall'["MEM"].in_stall => MemoryOp(IR("MEM")) /\ latch'["WB"] = Bubble
  /\ ~ stall'["MEM"].in_stall => /\ latch'["WB"].ir = IR("MEM")
                                 /\ latch'["WB"].COND \in {UNDEFINED, latch["MEM"].COND}

LEMMA MemoryMoves ==
  ASSUME TypeInv, Access, MemoryWait \/ MemoryPass \/ MemoryAccess
  PROVE  MemoryMove
<1>1. CheckMemory
  BY DEF MemoryWait, MemoryPass, MemoryAccess
<1>2. latch \in [Stages -> LatchRecord] /\ IR("MEM") \in Instruction
  BY LatchWords DEF TypeInv, IR, Stages
<1>3. /\ stall'["EXE"].hazard_type = stall["EXE"].hazard_type
      /\ stall'["MEM"].in_stall <=>
           MemoryCounter(IR("MEM")) # 0 /\ (InStall("MEM") \/ MemoryOp(IR("MEM")))
  BY <1>1, <1>2, MemoryStallIs DEF CheckMemory
<1>4. MemoryCounter(IR("MEM")) # 0 => MemoryOp(IR("MEM"))
  BY DEF MemoryCounter, Access
<1>5. delayed' # 0 <=> stall'["MEM"].in_stall
  BY <1>1, <1>3, <1>4 DEF CheckMemory
<1>6. stall'["MEM"].in_stall => MemoryOp(IR("MEM"))
  BY <1>3, <1>4
<1>7. /\ \A s \in {"IF", "ID", "EXE", "MEM"} : latch'[s] = latch[s]
      /\ stall'["MEM"].in_stall => latch'["WB"] = Bubble
      /\ ~ stall'["MEM"].in_stall => /\ latch'["WB"].ir = IR("MEM")
                                     /\ latch'["WB"].COND \in {UNDEFINED, latch["MEM"].COND}
  <2>1. stall' = MemoryStall(IR("MEM"))
    BY <1>1 DEF CheckMemory
  <2>2. CASE MemoryWait
    <3>1. latch' = [latch EXCEPT !["WB"] = Bubble] /\ stall'["MEM"].in_stall
      BY <2>1, <2>2 DEF MemoryWait
    <3> QED
      BY <1>2, <3>1 DEF Stages
  <2>3. CASE MemoryPass
    <3>1. latch' = [latch EXCEPT !["WB"] = Clean(IR("MEM"))] /\ ~ stall'["MEM"].in_stall
      BY <2>1, <2>3 DEF MemoryPass
    <3>2. Clean(IR("MEM")).ir = IR("MEM") /\ Clean(IR("MEM")).COND = UNDEFINED
      BY DEF Clean
    <3> QED
      BY <1>2, <3>1, <3>2 DEF Stages
  <2>4. CASE MemoryAccess
    <3> DEFINE m == latch["MEM"]
               in == IF m.ir.opcode = "LWS" THEN Loaded(m.ALU_OUTPUT) ELSE UNDEFINED
               new == [Clean(m.ir) EXCEPT !.ALU_OUTPUT = m.ALU_OUTPUT, !.COND = m.COND,
                                          !.LMD = in]
    <3>1. latch' = [latch EXCEPT !["WB"] = new] /\ ~ stall'["MEM"].in_stall
      BY <2>1, <2>4 DEF MemoryAccess
    <3> HIDE DEF in
    <3>2. new.ir = IR("MEM") /\ new.COND = latch["MEM"].COND
      BY DEF Clean, IR
    <3> HIDE DEF new
    <3> QED
      BY <1>2, <3>1, <3>2 DEF Stages
  <2> QED
    BY <2>2, <2>3, <2>4
<1> QED
  BY <1>1, <1>3, <1>5, <1>6, <1>7 DEF CheckMemory, Enter, chosen, MemoryMove

\* The units with the instruction of EXE among them.
Taking == IF Idle(IR("EXE")) THEN exec_units ELSE Issued

ExecuteMove ==
  /\ phase = "execute" /\ phase' = "decode"
  /\ prog' = prog /\ pc' = pc /\ end' = end /\ delayed' = delayed
  /\ total_instr_count' = total_instr_count
  /\ stall'["MEM"].in_stall <=> InStall("MEM")
  /\ stall'["EXE"].hazard_type # "WAW"
  /\ \A s \in {"IF", "ID", "WB"} : latch'[s] = latch[s]
  /\ latch'["EXE"] \in {latch["EXE"], Clean(IR("EXE"))}
  /\ InStall("MEM") => latch' = latch /\ exec_units' = exec_units
  /\ ~ InStall("MEM") =>
       /\ Table(Taking) /\ DOMAIN Taking = DOMAIN exec_units
       /\ ~ Idle(IR("EXE")) => FreeUnits(IR("EXE").opcode) # {}
       /\ \/ /\ Done(Taking) = {} /\ exec_units' = Taking
             /\ Idle(latch'["MEM"].ir) /\ latch'["MEM"].COND = UNDEFINED
             /\ latch'["MEM"].ir.opcode = "EOP" =>
                  /\ IR("EXE").opcode = "EOP"
                  /\ \A u \in DOMAIN exec_units : exec_units[u].busy = 0
          \/ /\ exec_units' = [u \in DOMAIN Taking |-> IF u \in Done(Taking)
                                                       THEN Emptied(Taking[u])
                                                       ELSE Taking[u]]
             /\ \E u \in Done(Taking) : latch'["MEM"] = Result(Taking[u])

LEMMA ExecuteMoves ==
  ASSUME WordsGiven, TypeInv, Access, ExecuteWait \/ ExecutePass \/ ExecuteIssue
  PROVE  ExecuteMove
<1>1. CheckExecute
  BY DEF ExecuteWait, ExecutePass, ExecuteIssue
<1>2. /\ latch \in [Stages -> LatchRecord] /\ IR("EXE") \in Instruction
      /\ Clean(IR("EXE")) \in LatchRecord
      /\ Clean(IR("EXE")).ir = IR("EXE") /\ Clean(IR("EXE")).COND = UNDEFINED
      /\ Bubble \in LatchRecord /\ Bubble.ir = Blank("NOP") /\ Bubble.COND = UNDEFINED
  BY LatchWords, LatchFields, BubbleTyped DEF TypeInv, IR, Stages, Clean, Bubble
<1>3. stall' = ExecuteStall(IR("EXE"))
  BY <1>1 DEF CheckExecute
<1>4. /\ stall'["MEM"].in_stall <=> InStall("MEM")
      /\ stall'["EXE"].hazard_type # "WAW"
      /\ ~ InStall("MEM") /\ Idle(IR("EXE")) => ~ stall'["EXE"].in_stall
      /\ ~ Idle(IR("EXE")) /\ ~ stall'["EXE"].in_stall => FreeUnits(IR("EXE").opcode) # {}
  BY <1>3, ExecuteStallIs DEF Access
<1>5. /\ \A s \in {"IF", "ID", "WB"} : latch'[s] = latch[s]
      /\ latch'["EXE"] \in {latch["EXE"], Clean(IR("EXE"))}
      /\ InStall("MEM") => latch' = latch /\ exec_units' = exec_units
      /\ ~ InStall("MEM") =>
           /\ Table(Taking) /\ DOMAIN Taking = DOMAIN exec_units
           /\ ~ Idle(IR("EXE")) => FreeUnits(IR("EXE").opcode) # {}
           /\ \/ /\ Done(Taking) = {} /\ exec_units' = Taking
                 /\ Idle(latch'["MEM"].ir) /\ latch'["MEM"].COND = UNDEFINED
                 /\ latch'["MEM"].ir.opcode = "EOP" =>
                      /\ IR("EXE").opcode = "EOP"
                      /\ \A u \in DOMAIN exec_units : exec_units[u].busy = 0
              \/ /\ exec_units' = [u \in DOMAIN Taking |-> IF u \in Done(Taking)
                                                           THEN Emptied(Taking[u])
                                                           ELSE Taking[u]]
                 /\ \E u \in Done(Taking) : latch'["MEM"] = Result(Taking[u])
  <2>1. CASE ExecuteWait
    <3>1. InStall("MEM") /\ latch' = latch /\ exec_units' = exec_units
      BY <1>4, <2>1 DEF ExecuteWait
    <3> QED
      BY <3>1
  <2>2. CASE ExecutePass
    <3> DEFINE mem == IF \A u \in DOMAIN exec_units : exec_units[u].busy = 0
                      THEN Clean(IR("EXE")) ELSE Bubble
    <3>1. /\ ~ InStall("MEM") /\ Idle(IR("EXE")) /\ Complete(exec_units, mem)
      BY <1>4, <2>2 DEF ExecutePass
    <3>2. Taking = exec_units /\ Table(exec_units)
      BY <3>1 DEF Taking, TypeInv
    <3>3. /\ mem \in LatchRecord /\ Idle(mem.ir) /\ mem.COND = UNDEFINED
          /\ mem.ir.opcode = "EOP" => /\ IR("EXE").opcode = "EOP"
                                      /\ \A u \in DOMAIN exec_units : exec_units[u].busy = 0
      BY <1>2, <3>1, BlankNop
    <3> HIDE DEF mem
    <3>4. \/ /\ exec_units' = exec_units /\ latch' = [latch EXCEPT !["MEM"] = mem]
             /\ Done(exec_units) = {}
          \/ /\ exec_units' = [u \in DOMAIN exec_units |-> IF u \in Done(exec_units)
                                       THEN Emptied(exec_units[u]) ELSE exec_units[u]]
             /\ \E u \in Done(exec_units) :
                  latch' = [latch EXCEPT !["EXE"] = Clean(IR("EXE")),
                                         !["MEM"] = Result(exec_units[u])]
      BY <1>4, <3>1, <3>2, <3>3, CompleteIs DEF WordsGiven
    <3> QED
      BY <1>2, <3>1, <3>2, <3>3, <3>4 DEF Stages
  <2>3. CASE ExecuteIssue
    <3>1. ~ InStall("MEM") /\ ~ Idle(IR("EXE")) /\ ~ stall'["EXE"].in_stall
      BY <1>4, <2>3 DEF ExecuteIssue
    <3>2. Complete(Issued, Bubble)
      BY <2>3 DEF ExecuteIssue, Issued, Taker
    <3>3. FreeUnits(IR("EXE").opcode) # {}
      BY <1>4, <3>1
    <3>4. Taking = Issued /\ Table(Issued) /\ DOMAIN Issued = DOMAIN exec_units
      BY <3>1, <3>3, IssuedIs DEF Taking
    <3>5. \/ /\ exec_units' = Issued /\ latch' = [latch EXCEPT !["MEM"] = Bubble]
             /\ Done(Issued) = {}
          \/ /\ exec_units' = [u \in DOMAIN Issued |-> IF u \in Done(Issued)
                                                       THEN Emptied(Issued[u]) ELSE Issued[u]]
             /\ \E u \in Done(Issued) :
                  latch' = [latch EXCEPT !["EXE"] = Clean(IR("EXE")),
                                         !["MEM"] = Result(Issued[u])]
      BY <1>2, <1>4, <3>1, <3>2, <3>4, CompleteIs DEF WordsGiven
    <3> QED
      BY <1>2, <3>1, <3>3, <3>4, <3>5, BlankNop DEF Stages
  <2> QED
    BY <2>1, <2>2, <2>3
<1> QED
  BY <1>1, <1>4, <1>5 DEF CheckExecute, Enter, chosen, ExecuteMove

\* Something before MEM, or an access in MEM, holds the instruction in ID.
DecodeMove ==
  /\ phase = "decode" /\ phase' = "fetch"
  /\ prog' = prog /\ pc' = pc /\ end' = end /\ delayed' = delayed /\ exec_units' = exec_units
  /\ total_instr_count' = total_instr_count
  /\ stall'["MEM"].in_stall <=> InStall("MEM")
  /\ stall'["EXE"].hazard_type # "WAW"
  /\ \A s \in {"IF", "ID", "MEM", "WB"} : latch'[s] = latch[s]
  /\ InStall("MEM") => latch' = latch /\ Held'
  /\ ~ InStall("MEM") =>
       \/ latch'["EXE"] = Bubble /\ Held'
       \/ /\ latch'["EXE"].ir = IR("ID") /\ latch'["EXE"].COND = UNDEFINED
          /\ IR("ID").opcode \in Branches => latch'["EXE"].A = UNDEFINED
          /\ ~ Idle(IR("ID")) => FreeUnits(IR("ID").opcode) # {}
          /\ ~ Held'

LEMMA DecodeMoves ==
  ASSUME TypeInv, Access,
         DecodeBlocked \/ DecodeStall \/ DecodeConflict \/ DecodePass \/ Decode
  PROVE  DecodeMove
<1>1. Decoding
  BY DEF DecodeBlocked, DecodeStall, DecodeConflict, DecodePass, Decode, CheckDecode
<1>2. /\ latch \in [Stages -> LatchRecord] /\ stall \in [Stages -> StallType]
      /\ IR("ID") \in Instruction
      /\ Clean(IR("ID")).ir = IR("ID") /\ Clean(IR("ID")).COND = UNDEFINED
      /\ Clean(IR("ID")).A = UNDEFINED
  BY LatchWords DEF TypeInv, IR, Stages, Clean
<1>3. Held' <=> \E s \in {"ID", "EXE", "MEM"} : stall'[s].in_stall
  BY DEF Held, InStall
<1>4. ASSUME CheckDecode
      PROVE  /\ stall'["MEM"].in_stall <=> InStall("MEM")
             /\ ~ InStall("MEM") /\ ~ InStall("ID")
             /\ stall'["EXE"].hazard_type # "WAW"
             /\ Held' <=> stall'["EXE"].in_stall
             /\ ~ Idle(IR("ID")) /\ ~ stall'["EXE"].in_stall =>
                  FreeUnits(IR("ID").opcode) # {}
  <2>1. stall' = ExecuteStall(IR("ID")) /\ ~ InStall("MEM") /\ ~ InStall("ID")
    BY <1>4 DEF CheckDecode
  <2>2. /\ stall'["MEM"].in_stall <=> InStall("MEM")
        /\ stall'["EXE"].hazard_type # "WAW"
        /\ stall'["ID"] = stall["ID"]
        /\ ~ Idle(IR("ID")) /\ ~ stall'["EXE"].in_stall => FreeUnits(IR("ID").opcode) # {}
    BY <2>1, ExecuteStallIs DEF Access
  <2> QED
    BY <1>3, <2>1, <2>2 DEF InStall
<1>5. /\ stall'["MEM"].in_stall <=> InStall("MEM")
      /\ stall'["EXE"].hazard_type # "WAW"
      /\ \A s \in {"IF", "ID", "MEM", "WB"} : latch'[s] = latch[s]
      /\ InStall("MEM") => latch' = latch /\ Held'
      /\ ~ InStall("MEM") =>
           \/ latch'["EXE"] = Bubble /\ Held'
           \/ /\ latch'["EXE"].ir = IR("ID") /\ latch'["EXE"].COND = UNDEFINED
              /\ IR("ID").opcode \in Branches => latch'["EXE"].A = UNDEFINED
              /\ ~ Idle(IR("ID")) => FreeUnits(IR("ID").opcode) # {}
              /\ ~ Held'
  <2>1. CASE DecodeBlocked
    <3>1. InStall("MEM") /\ latch' = latch /\ stall' = stall
      BY <2>1 DEF DecodeBlocked
    <3> QED
      BY <1>3, <3>1 DEF Access, InStall
  <2>2. CASE DecodeStall
    <3>1. /\ ~ InStall("MEM") /\ InStall("ID") /\ stall' = stall
          /\ latch' = [latch EXCEPT !["EXE"] = Bubble]
      BY <2>2 DEF DecodeStall, Insert
    <3> QED
      BY <1>2, <1>3, <3>1 DEF Access, InStall, Stages
  <2>3. CASE DecodeConflict
    <3>1. /\ CheckDecode /\ stall'["EXE"].in_stall
          /\ latch' = [latch EXCEPT !["EXE"] = Bubble]
      BY <2>3 DEF DecodeConflict, Insert
    <3> QED
      BY <1>2, <1>4, <3>1 DEF Stages
  <2>4. CASE DecodePass
    <3> DEFINE w == IF IR("ID").opcode = "EOP" THEN latch["ID"].NPC ELSE UNDEFINED
               new == [Clean(IR("ID")) EXCEPT !.NPC = w]
    <3>1. /\ CheckDecode /\ ~ stall'["EXE"].in_stall /\ Idle(IR("ID"))
          /\ latch' = [latch EXCEPT !["EXE"] = new]
      BY <2>4 DEF DecodePass
    <3>2. /\ new.ir = Clean(IR("ID")).ir /\ new.COND = Clean(IR("ID")).COND
          /\ new.A = Clean(IR("ID")).A
      BY DEF Clean
    <3> HIDE DEF new
    <3> QED
      BY <1>2, <1>4, <3>1, <3>2 DEF Stages
  <2>5. CASE Decode
    <3> DEFINE read == Operands(IR("ID"))
               new == [Clean(IR("ID")) EXCEPT !.NPC = latch["ID"].NPC, !.A = read.A,
                                              !.B = read.B, !.IMM = read.IMM]
    <3>1. /\ CheckDecode /\ ~ stall'["EXE"].in_stall /\ ~ Idle(IR("ID"))
          /\ latch' = [latch EXCEPT !["EXE"] = new]
      BY <2>5 DEF Decode
    <3>2. IR("ID").opcode \in Branches => read.A = UNDEFINED
      BY DEF Operands, Branches
    <3> HIDE DEF read
    <3>3. new.ir = Clean(IR("ID")).ir /\ new.COND = Clean(IR("ID")).COND /\ new.A = read.A
      BY DEF Clean
    <3> HIDE DEF new
    <3> QED
      BY <1>2, <1>4, <3>1, <3>2, <3>3 DEF Stages
  <2> QED
    BY <2>1, <2>2, <2>3, <2>4, <2>5
<1> QED
  BY <1>1, <1>5 DEF Decoding, Enter, chosen, DecodeMove

FetchMove ==
  /\ phase = "fetch" /\ phase' = "units"
  /\ prog' = prog /\ delayed' = delayed /\ exec_units' = exec_units
  /\ total_instr_count' = total_instr_count
  /\ \A s \in {"EXE", "MEM"} : stall'[s] = stall[s]
  /\ \A s \in {"IF", "EXE", "MEM", "WB"} : latch'[s] = latch[s]
  /\ \/ /\ latch' = latch /\ pc' = pc /\ end' = end
        /\ Held \/ end \/ ~ (FetchPC \div 4 <= PROGRAM_SIZE)
     \/ ~ Held /\ ~ end /\ latch'["ID"] = Bubble /\ pc' = pc /\ end' = end
     \/ /\ ~ Held /\ ~ end
        /\ latch'["ID"].ir.opcode = "EOP" /\ latch'["ID"].COND = UNDEFINED
        /\ pc' = pc /\ end'
     \/ /\ ~ Held /\ ~ end
        /\ latch'["ID"].ir = Fetched /\ latch'["ID"].COND = UNDEFINED
        /\ Fetched.opcode # "EOP"
        /\ pc' = Wrap(FetchPC + 4) /\ end' = end

LEMMA FetchMoves ==
  ASSUME ProgramsGiven, TypeInv,
         FetchNothing \/ FetchHeld \/ FetchStall \/ FetchEnd \/ Fetch
  PROVE  FetchMove
<1>1. Fetching
  BY DEF FetchNothing, FetchHeld, FetchStall, FetchEnd, Fetch
<1>2. /\ latch \in [Stages -> LatchRecord] /\ stall \in [Stages -> StallType]
      /\ Fetched \in Instruction
  BY InstrIs DEF TypeInv, Fetched
<1>3. /\ RawStall(stall, Fetched) \in [Stages -> StallType]
      /\ \A s \in {"EXE", "MEM"} :
           /\ RawStall(stall, Fetched)[s] = stall[s]
           /\ ControlStall(RawStall(stall, Fetched), Fetched)[s] = stall[s]
  BY <1>2, RawStallIs, ControlStallIs DEF Stages
<1>4. \A w : /\ [Clean(Fetched) EXCEPT !.NPC = w].ir = Fetched
             /\ [Clean(Fetched) EXCEPT !.NPC = w].COND = UNDEFINED
  BY DEF Clean
<1>5. /\ \A s \in {"EXE", "MEM"} : stall'[s] = stall[s]
      /\ \A s \in {"IF", "EXE", "MEM", "WB"} : latch'[s] = latch[s]
      /\ \/ /\ latch' = latch /\ pc' = pc /\ end' = end
            /\ Held \/ end \/ ~ (FetchPC \div 4 <= PROGRAM_SIZE)
         \/ ~ Held /\ ~ end /\ latch'["ID"] = Bubble /\ pc' = pc /\ end' = end
         \/ /\ ~ Held /\ ~ end
            /\ latch'["ID"].ir.opcode = "EOP" /\ latch'["ID"].COND = UNDEFINED
            /\ pc' = pc /\ end'
         \/ /\ ~ Held /\ ~ end
            /\ latch'["ID"].ir = Fetched /\ latch'["ID"].COND = UNDEFINED
            /\ Fetched.opcode # "EOP"
            /\ pc' = Wrap(FetchPC + 4) /\ end' = end
  <2> HIDE DEF FetchPC, Fetched, Held
  <2>1. CASE FetchNothing
    BY <2>1 DEF FetchNothing, InProgram
  <2>2. CASE FetchHeld
    BY <2>2 DEF FetchHeld
  <2>3. CASE FetchStall
    BY <1>2, <1>3, <2>3 DEF FetchStall, InProgram, Stages
  <2>4. CASE FetchEnd
    <3> DEFINE new == [Clean(Fetched) EXCEPT !.NPC = FetchPC]
    <3>1. /\ InProgram /\ ~ Held /\ Fetched.opcode = "EOP" /\ end' = TRUE
          /\ latch' = [latch EXCEPT !["ID"] = new] /\ pc' = pc /\ stall' = stall
      BY <2>4 DEF FetchEnd
    <3>2. new.ir = Fetched /\ new.COND = UNDEFINED
      BY <1>4
    <3> HIDE DEF new
    <3> QED
      BY <1>2, <3>1, <3>2 DEF InProgram, Stages
  <2>5. CASE Fetch
    <3> DEFINE new == [Clean(Fetched) EXCEPT !.NPC = Wrap(FetchPC + 4)]
    <3>1. /\ InProgram /\ ~ Held /\ Fetched.opcode # "EOP" /\ end' = end
          /\ latch' = [latch EXCEPT !["ID"] = new] /\ pc' = Wrap(FetchPC + 4)
          /\ stall' = ControlStall(RawStall(stall, Fetched), Fetched)
      BY <2>5 DEF Fetch
    <3>2. new.ir = Fetched /\ new.COND = UNDEFINED
      BY <1>4
    <3> HIDE DEF new
    <3> QED
      BY <1>2, <1>3, <3>1, <3>2 DEF InProgram, Stages
  <2> QED
    BY <2>1, <2>2, <2>3, <2>4, <2>5
<1> QED
  BY <1>1, <1>5 DEF Fetching, Enter, chosen, FetchMove

\* The other steps.
RestMove ==
  /\ prog' = prog /\ pc' = pc /\ end' = end /\ latch' = latch /\ delayed' = delayed
  /\ total_instr_count' = total_instr_count /\ stall' = stall
  /\ \/ phase = "units" /\ phase' \in {"writeback", "idle"}
     \/ phase = "idle" /\ phase' = "writeback"
     \/ phase' = phase
  /\ DOMAIN exec_units' = DOMAIN exec_units
  /\ phase # "units" => exec_units' = exec_units
  /\ \A u \in DOMAIN exec_units :
       /\ exec_units'[u].type = exec_units[u].type
       /\ exec_units'[u].delayed = exec_units[u].delayed
       /\ exec_units'[u].instruction = exec_units[u].instruction
       /\ exec_units'[u].x = exec_units[u].x
       /\ exec_units[u].busy = 0 => exec_units'[u].busy = 0

LEMMA RestMoves ==
  ASSUME TypeInv, EndCycle \/ (\E n \in Calls : Run(n)) \/ UNCHANGED vars
  PROVE  RestMove
<1>1. CASE EndCycle
  <2>1. /\ exec_units' = [u \in DOMAIN exec_units |-> BusyLess(exec_units[u])]
        /\ phase = "units" /\ phase' \in {"writeback", "idle"}
        /\ prog' = prog /\ pc' = pc /\ end' = end /\ latch' = latch /\ delayed' = delayed
        /\ total_instr_count' = total_instr_count /\ stall' = stall
    BY <1>1 DEF EndCycle, chosen
  <2>2. \A u \in DOMAIN exec_units :
          /\ BusyLess(exec_units[u]).type = exec_units[u].type
          /\ BusyLess(exec_units[u]).delayed = exec_units[u].delayed
          /\ BusyLess(exec_units[u]).instruction = exec_units[u].instruction
          /\ BusyLess(exec_units[u]).x = exec_units[u].x
          /\ exec_units[u].busy = 0 => BusyLess(exec_units[u]).busy = 0
    BY UnitsAre, BusyLessIs
  <2>3. \A u \in DOMAIN exec_units :
          /\ exec_units'[u].type = exec_units[u].type
          /\ exec_units'[u].delayed = exec_units[u].delayed
          /\ exec_units'[u].instruction = exec_units[u].instruction
          /\ exec_units'[u].x = exec_units[u].x
          /\ exec_units[u].busy = 0 => exec_units'[u].busy = 0
    BY <2>1, <2>2
  <2> QED
    BY <2>1, <2>3 DEF RestMove
<1>2. CASE \E n \in Calls : Run(n)
  BY <1>2 DEF Run, RestMove, chosen, clock
<1>3. CASE UNCHANGED vars
  BY <1>3 DEF vars, RestMove, chosen, clock
<1> QED
  BY <1>1, <1>2, <1>3

Move == \/ WritebackMove \/ MemoryMove \/ ExecuteMove \/ DecodeMove \/ FetchMove
        \/ RestMove

LEMMA AccessMove ==
  ASSUME Access, Move
  PROVE  Access'
<1>1. CASE WritebackMove
  BY <1>1 DEF WritebackMove, Access, InStall, IR, MemoryOp
<1>2. CASE MemoryMove
  <2>1. latch'["MEM"] = latch["MEM"]
    BY <1>2 DEF MemoryMove
  <2>2. Bubble.ir.opcode = "NOP"
    BY DEF Bubble, Clean, Blank
  <2> QED
    BY <1>2, <2>1, <2>2 DEF MemoryMove, Access, InStall, IR, MemoryOp
<1>3. CASE ExecuteMove
  BY <1>3 DEF ExecuteMove, Access, InStall, IR, MemoryOp
<1>4. CASE DecodeMove
  BY <1>4 DEF DecodeMove, Access, InStall, IR, MemoryOp
<1>5. CASE FetchMove
  <2>1. /\ latch'["MEM"] = latch["MEM"] /\ latch'["WB"] = latch["WB"]
        /\ stall'["MEM"] = stall["MEM"] /\ stall'["EXE"] = stall["EXE"]
        /\ delayed' = delayed
    BY <1>5 DEF FetchMove
  <2> QED
    BY <2>1 DEF Access, InStall, IR, MemoryOp
<1>6. CASE RestMove
  BY <1>6 DEF RestMove, Access, InStall, IR, MemoryOp
<1> QED
  BY <1>1, <1>2, <1>3, <1>4, <1>5, <1>6 DEF Move

\* The units before an instruction of EXE takes one, after that, and after the
\* results have left them.
LEMMA TakingIs ==
  ASSUME TypeInv, ExecuteMove, ~ InStall("MEM")
  PROVE  /\ \A u \in DOMAIN exec_units :
              /\ Taking[u] \in UnitRecord
              /\ Taking[u].type = exec_units[u].type /\ Taking[u].delayed = exec_units[u].delayed
              /\ \/ Taking[u] = exec_units[u]
                 \/ /\ ~ Idle(IR("EXE")) /\ u = Taker
                    /\ Taking[u].instruction = IR("EXE") /\ Taking[u].x = latch["EXE"].A
         /\ ~ Idle(IR("EXE")) =>
              /\ Taker \in DOMAIN exec_units
              /\ exec_units[Taker].busy = 0
              /\ exec_units[Taker].type = UnitFor(IR("EXE").opcode)
              /\ Taking[Taker].instruction = IR("EXE")
              /\ Taking[Taker].busy = exec_units[Taker].delayed
              /\ \A u \in DOMAIN exec_units \ {Taker} : Taking[u] = exec_units[u]
         /\ DOMAIN exec_units' = DOMAIN exec_units
         /\ \A u \in DOMAIN exec_units :
              /\ exec_units'[u].type = exec_units[u].type
              /\ exec_units'[u].delayed = exec_units[u].delayed
              /\ exec_units'[u].x = Taking[u].x
              /\ exec_units'[u].busy = Taking[u].busy
              /\ u \notin Done(Taking) => exec_units'[u].instruction = Taking[u].instruction
              /\ u \in Done(Taking) => exec_units'[u].instruction = Blank("NOP")
<1>1. Table(Taking) /\ DOMAIN Taking = DOMAIN exec_units
  BY DEF ExecuteMove
<1>2. PICK n \in Nat : Taking \in [1 .. n -> UnitRecord]
  BY <1>1 DEF Table
<1>3. \A u \in DOMAIN exec_units : Taking[u] \in UnitRecord
  BY <1>1, <1>2
<1>4. ~ Idle(IR("EXE")) =>
        /\ Taker \in DOMAIN exec_units
        /\ exec_units[Taker].busy = 0
        /\ exec_units[Taker].type = UnitFor(IR("EXE").opcode)
        /\ Taking[Taker].instruction = IR("EXE")
        /\ Taking[Taker].x = latch["EXE"].A
        /\ Taking[Taker].type = exec_units[Taker].type
        /\ Taking[Taker].delayed = exec_units[Taker].delayed
        /\ Taking[Taker].busy = exec_units[Taker].delayed
        /\ \A u \in DOMAIN exec_units \ {Taker} : Taking[u] = exec_units[u]
  <2>1. SUFFICES ASSUME ~ Idle(IR("EXE"))
                 PROVE  /\ Taker \in DOMAIN exec_units
                        /\ exec_units[Taker].busy = 0
                        /\ exec_units[Taker].type = UnitFor(IR("EXE").opcode)
                        /\ Taking[Taker].instruction = IR("EXE")
                        /\ Taking[Taker].x = latch["EXE"].A
                        /\ Taking[Taker].type = exec_units[Taker].type
                        /\ Taking[Taker].delayed = exec_units[Taker].delayed
                        /\ Taking[Taker].busy = exec_units[Taker].delayed
                        /\ \A u \in DOMAIN exec_units \ {Taker} : Taking[u] = exec_units[u]
    OBVIOUS
  <2>2. Taking = Issued /\ FreeUnits(IR("EXE").opcode) # {}
    BY <2>1 DEF Taking, ExecuteMove
  <2> QED
    BY <2>2, IssuedIs
<1>5. Idle(IR("EXE")) => Taking = exec_units
  BY DEF Taking
<1>6. \A u \in DOMAIN exec_units :
        /\ Taking[u].type = exec_units[u].type /\ Taking[u].delayed = exec_units[u].delayed
        /\ \/ Taking[u] = exec_units[u]
           \/ /\ ~ Idle(IR("EXE")) /\ u = Taker
              /\ Taking[u].instruction = IR("EXE") /\ Taking[u].x = latch["EXE"].A
  BY <1>4, <1>5
<1>7. /\ DOMAIN exec_units' = DOMAIN exec_units
      /\ \A u \in DOMAIN exec_units :
           exec_units'[u] = IF u \in Done(Taking) THEN Emptied(Taking[u]) ELSE Taking[u]
  BY <1>1, <1>2 DEF ExecuteMove
<1>8. \A u \in DOMAIN exec_units : /\ Emptied(Taking[u]).instruction = Blank("NOP")
                                   /\ Emptied(Taking[u]).type = Taking[u].type
                                   /\ Emptied(Taking[u]).delayed = Taking[u].delayed
                                   /\ Emptied(Taking[u]).busy = Taking[u].busy
                                   /\ Emptied(Taking[u]).x = Taking[u].x
  BY <1>3, UnitFields
<1>9. \A u \in DOMAIN exec_units :
        /\ exec_units'[u].type = exec_units[u].type
        /\ exec_units'[u].delayed = exec_units[u].delayed
        /\ exec_units'[u].x = Taking[u].x
        /\ exec_units'[u].busy = Taking[u].busy
        /\ u \notin Done(Taking) => exec_units'[u].instruction = Taking[u].instruction
        /\ u \in Done(Taking) => exec_units'[u].instruction = Blank("NOP")
  <2> HIDE DEF Taking
  <2> QED
    BY <1>6, <1>7, <1>8
<1> QED
  BY <1>3, <1>4, <1>6, <1>7, <1>9

\* What a unit hands to MEM in this cycle.
LEMMA LeftIs ==
  ASSUME WordsGiven, TypeInv, ExecuteMove, ~ InStall("MEM"), Done(Taking) # {}
  PROVE  \E u \in DOMAIN exec_units :
           /\ u \in Done(Taking)
           /\ latch'["MEM"].ir = Taking[u].instruction
           /\ latch'["MEM"].COND = Condition(Taking[u].instruction.opcode, Taking[u].x)
<1>1. PICK u \in Done(Taking) : latch'["MEM"] = Result(Taking[u])
  BY DEF ExecuteMove
<1>2. u \in DOMAIN exec_units
  BY <1>1 DEF Done, ExecuteMove
<1>3. Taking[u] \in UnitRecord
  BY <1>2, TakingIs
<1> HIDE DEF Taking
<1> QED
  BY <1>1, <1>2, <1>3, ResultIs DEF WordsGiven

-----------------------------------------------------------------------------
(* Branches and the end of the program *)

Jumps == {"BNEZ", "BLTZ", "BLEZ", "JUMP"}

\* No branch is taken.
NotTaken ==
  /\ \A s \in Stages : latch[s].COND = UNDEFINED /\ IR(s).opcode \notin Jumps
  /\ IR("EXE").opcode \in Branches => latch["EXE"].A = UNDEFINED
  /\ \A u \in DOMAIN exec_units :
       /\ exec_units[u].instruction.opcode \notin Jumps
       /\ exec_units[u].instruction.opcode \in Branches => exec_units[u].x = UNDEFINED

\* The end of the program is fetched once, and it is in ID from then on.
EndSeen ==
  /\ end <=> IR("ID").opcode = "EOP"
  /\ \A s \in {"EXE", "MEM", "WB"} : IR(s).opcode = "EOP" => end
  /\ \A u \in DOMAIN exec_units : exec_units[u].instruction.opcode # "EOP"

\* It leaves EXE behind everything else.
NoneBehind ==
  /\ IR("MEM").opcode = "EOP" => Working = {} /\ Idle(IR("EXE"))
  /\ IR("WB").opcode = "EOP" => Working = {} /\ Idle(IR("EXE")) /\ Idle(IR("MEM"))

LEMMA FetchedIs ==
  ASSUME ProgramsGiven, CleanStart(Setups), TypeInv
  PROVE  /\ Fetched.opcode \notin Jumps /\ Fetched.opcode # "NOP"
         /\ Fetched.opcode # "EOP" => FetchPC \div 4 \in 0 .. PROGRAM_SIZE - 1
<1>1. PICK s \in Setups : prog = s.prog
  BY DEF TypeInv
<1>2. /\ DOMAIN prog \subseteq 0 .. PROGRAM_SIZE - 1
      /\ \A n \in DOMAIN prog :
           prog[n].opcode \notin {"NOP", "EOP", "BNEZ", "BLTZ", "BLEZ", "JUMP"}
  BY <1>1 DEF CleanStart, StraightLine
<1>3. CASE FetchPC \div 4 \in DOMAIN prog
  BY <1>2, <1>3, InstrIs DEF Fetched, Jumps
<1>4. CASE FetchPC \div 4 \notin DOMAIN prog
  <2>1. Fetched.opcode = "EOP"
    BY <1>4, InstrIs, BlankEop DEF Fetched
  <2> QED
    BY <2>1 DEF Jumps
<1> QED
  BY <1>3, <1>4

LEMMA NotTakenMove ==
  ASSUME ProgramsGiven, WordsGiven, CleanStart(Setups), TypeInv, NotTaken, Move
  PROVE  NotTaken'
<1>1. Bubble.COND = UNDEFINED /\ Bubble.ir.opcode = "NOP" /\ Bubble.A = UNDEFINED
  BY DEF Bubble, Clean, Blank
<1>2. "NOP" \notin Jumps /\ "EOP" \notin Jumps /\ "NOP" \notin Branches /\ "EOP" \notin Branches
  BY DEF Jumps, Branches
<1>3. CASE WritebackMove
  BY <1>3 DEF WritebackMove, NotTaken, IR
<1>4. CASE MemoryMove
  <2>1. \A s \in {"IF", "ID", "EXE", "MEM"} : latch'[s] = latch[s]
    BY <1>4 DEF MemoryMove
  <2>2. latch'["WB"].COND = UNDEFINED /\ latch'["WB"].ir.opcode \notin Jumps
    BY <1>1, <1>2, <1>4 DEF MemoryMove, NotTaken, IR, Stages
  <2>3. exec_units' = exec_units
    BY <1>4 DEF MemoryMove
  <2> QED
    BY <2>1, <2>2, <2>3 DEF NotTaken, IR, Stages
<1>5. CASE ExecuteMove
  <2>1. CASE InStall("MEM")
    <3>1. latch' = latch /\ exec_units' = exec_units
      BY <1>5, <2>1 DEF ExecuteMove
    <3> QED
      BY <3>1 DEF NotTaken, IR
  <2>2. CASE ~ InStall("MEM")
    <3>1. \A u \in DOMAIN exec_units :
            /\ Taking[u].instruction.opcode \notin Jumps
            /\ Taking[u].instruction.opcode \in Branches => Taking[u].x = UNDEFINED
      BY <1>5, <2>2, TakingIs DEF NotTaken, IR, Stages
    <3>2. \A u \in DOMAIN exec_units' :
            /\ exec_units'[u].instruction.opcode \notin Jumps
            /\ exec_units'[u].instruction.opcode \in Branches => exec_units'[u].x = UNDEFINED
      BY <1>2, <1>5, <2>2, <3>1, TakingIs, BlankNop
    <3>3. latch'["MEM"].COND = UNDEFINED /\ latch'["MEM"].ir.opcode \notin Jumps
      <4>1. CASE Done(Taking) = {}
        <5>1. Idle(latch'["MEM"].ir) /\ latch'["MEM"].COND = UNDEFINED
          BY <1>5, <2>2, <4>1 DEF ExecuteMove
        <5> QED
          BY <1>2, <5>1 DEF Idle
      <4>2. CASE Done(Taking) # {}
        <5>1. PICK u \in DOMAIN exec_units :
                /\ latch'["MEM"].ir = Taking[u].instruction
                /\ latch'["MEM"].COND
                     = Condition(Taking[u].instruction.opcode, Taking[u].x)
          BY <1>5, <2>2, <4>2, LeftIs
        <5>2. /\ Taking[u].instruction.opcode \notin Jumps
              /\ Taking[u].instruction.opcode \in Branches => Taking[u].x = UNDEFINED
          BY <3>1
        <5> DEFINE op == Taking[u].instruction.opcode
                   x  == Taking[u].x
        <5>3. op \notin Jumps /\ (op \in Branches => x = UNDEFINED)
          BY <5>2
        <5>4. latch'["MEM"].COND = Condition(op, x) /\ latch'["MEM"].ir.opcode = op
          BY <5>1
        <5> HIDE DEF op, x
        <5>5. ~ Taken(op, x)
          BY <5>3, UntakenWord DEF Jumps
        <5> QED
          BY <5>3, <5>4, <5>5 DEF Condition, Jumps
      <4> QED
        BY <4>1, <4>2
    <3>4. /\ latch'["EXE"].ir = IR("EXE") /\ latch'["EXE"].COND = UNDEFINED
          /\ latch'["EXE"].A \in {latch["EXE"].A, UNDEFINED}
      BY <1>5 DEF ExecuteMove, NotTaken, IR, Clean, Stages
    <3>5. \A s \in {"IF", "ID", "WB"} : latch'[s] = latch[s]
      BY <1>5 DEF ExecuteMove
    <3> QED
      BY <3>2, <3>3, <3>4, <3>5 DEF NotTaken, IR, Stages
  <2> QED
    BY <2>1, <2>2
<1>6. CASE DecodeMove
  <2>1. \A s \in {"IF", "ID", "MEM", "WB"} : latch'[s] = latch[s]
    BY <1>6 DEF DecodeMove
  <2>2. /\ latch'["EXE"].COND = UNDEFINED /\ latch'["EXE"].ir.opcode \notin Jumps
        /\ latch'["EXE"].ir.opcode \in Branches => latch'["EXE"].A = UNDEFINED
    BY <1>1, <1>2, <1>6 DEF DecodeMove, NotTaken, IR, Stages
  <2>3. exec_units' = exec_units
    BY <1>6 DEF DecodeMove
  <2> QED
    BY <2>1, <2>2, <2>3 DEF NotTaken, IR, Stages
<1>7. CASE FetchMove
  <2>1. \A s \in {"IF", "EXE", "MEM", "WB"} : latch'[s] = latch[s]
    BY <1>7 DEF FetchMove
  <2>2. latch'["ID"].COND = UNDEFINED /\ latch'["ID"].ir.opcode \notin Jumps
    <3>1. Fetched.opcode \notin Jumps
      BY FetchedIs
    <3> HIDE DEF Fetched
    <3> QED
      BY <1>1, <1>2, <1>7, <3>1 DEF FetchMove, NotTaken, IR, Stages
  <2>3. exec_units' = exec_units
    BY <1>7 DEF FetchMove
  <2> QED
    BY <2>1, <2>2, <2>3 DEF NotTaken, IR, Stages
<1>8. CASE RestMove
  BY <1>8 DEF RestMove, NotTaken, IR
<1> QED
  BY <1>3, <1>4, <1>5, <1>6, <1>7, <1>8 DEF Move

LEMMA EndSeenMove ==
  ASSUME ProgramsGiven, WordsGiven, CleanStart(Setups), TypeInv, EndSeen, Move
  PROVE  EndSeen'
<1>1. Bubble.ir.opcode = "NOP"
  BY DEF Bubble, Clean, Blank
<1>3. CASE WritebackMove
  BY <1>3 DEF WritebackMove, EndSeen, IR
<1>4. CASE MemoryMove
  <2>1. \A s \in {"IF", "ID", "EXE", "MEM"} : latch'[s] = latch[s]
    BY <1>4 DEF MemoryMove
  <2>2. latch'["WB"].ir.opcode = "EOP" => end
    BY <1>1, <1>4 DEF MemoryMove, EndSeen, IR
  <2>3. exec_units' = exec_units /\ end' = end
    BY <1>4 DEF MemoryMove
  <2> QED
    BY <2>1, <2>2, <2>3 DEF EndSeen, IR
<1>5. CASE ExecuteMove
  <2>1. CASE InStall("MEM")
    <3>1. latch' = latch /\ exec_units' = exec_units /\ end' = end
      BY <1>5, <2>1 DEF ExecuteMove
    <3> QED
      BY <3>1 DEF EndSeen, IR
  <2>2. CASE ~ InStall("MEM")
    <3>1. \A u \in DOMAIN exec_units : Taking[u].instruction.opcode # "EOP"
      BY <1>5, <2>2, TakingIs DEF EndSeen, Idle
    <3>2. \A u \in DOMAIN exec_units' : exec_units'[u].instruction.opcode # "EOP"
      BY <1>5, <2>2, <3>1, TakingIs, BlankNop
    <3>3. latch'["MEM"].ir.opcode = "EOP" => end
      <4>1. CASE Done(Taking) = {}
        BY <1>5, <2>2, <4>1 DEF ExecuteMove, EndSeen
      <4>2. CASE Done(Taking) # {}
        <5>1. PICK u \in DOMAIN exec_units : latch'["MEM"].ir = Taking[u].instruction
          BY <1>5, <2>2, <4>2, LeftIs
        <5> QED
          BY <3>1, <5>1
      <4> QED
        BY <4>1, <4>2
    <3>4. latch'["EXE"].ir = IR("EXE") /\ end' = end
      BY <1>5 DEF ExecuteMove, IR, Clean
    <3>5. \A s \in {"IF", "ID", "WB"} : latch'[s] = latch[s]
      BY <1>5 DEF ExecuteMove
    <3> QED
      BY <3>2, <3>3, <3>4, <3>5 DEF EndSeen, IR
  <2> QED
    BY <2>1, <2>2
<1>6. CASE DecodeMove
  <2>1. \A s \in {"IF", "ID", "MEM", "WB"} : latch'[s] = latch[s]
    BY <1>6 DEF DecodeMove
  <2>2. latch'["EXE"].ir.opcode = "EOP" => end
    BY <1>1, <1>6 DEF DecodeMove, EndSeen, IR
  <2>3. exec_units' = exec_units /\ end' = end
    BY <1>6 DEF DecodeMove
  <2> QED
    BY <2>1, <2>2, <2>3 DEF EndSeen, IR
<1>7. CASE FetchMove
  <2>1. \A s \in {"IF", "EXE", "MEM", "WB"} : latch'[s] = latch[s]
    BY <1>7 DEF FetchMove
  <2>2. /\ end' <=> latch'["ID"].ir.opcode = "EOP"
        /\ end => end'
    <3> HIDE DEF Fetched
    <3> QED
      BY <1>1, <1>7 DEF FetchMove, EndSeen, IR
  <2>3. exec_units' = exec_units
    BY <1>7 DEF FetchMove
  <2> QED
    BY <2>1, <2>2, <2>3 DEF EndSeen, IR
<1>8. CASE RestMove
  BY <1>8 DEF RestMove, EndSeen, IR
<1> QED
  BY <1>3, <1>4, <1>5, <1>6, <1>7, <1>8 DEF Move

\* A result is an instruction.
LEMMA LeftBusy ==
  ASSUME WordsGiven, TypeInv, EndSeen, ExecuteMove, ~ InStall("MEM"), Done(Taking) # {}
  PROVE  ~ Idle(latch'["MEM"].ir)
<1>1. PICK u \in DOMAIN exec_units :
        u \in Done(Taking) /\ latch'["MEM"].ir = Taking[u].instruction
  BY LeftIs
<1>2. Taking[u].instruction.opcode # "EOP"
  BY TakingIs DEF EndSeen, Idle
<1>3. Taking[u].instruction.opcode # "NOP"
  BY <1>1 DEF Done
<1> HIDE DEF Taking
<1> QED
  BY <1>1, <1>2, <1>3 DEF Idle

LEMMA NoneBehindMove ==
  ASSUME WordsGiven, TypeInv, EndSeen, NoneBehind, Move
  PROVE  NoneBehind'
<1>1. Bubble.ir.opcode = "NOP" /\ Idle(Bubble.ir)
  BY DEF Bubble, Clean, Blank, Idle
<1>3. CASE WritebackMove
  BY <1>3 DEF WritebackMove, NoneBehind, IR, Working, Idle
<1>4. CASE MemoryMove
  <2>1. /\ latch'["MEM"] = latch["MEM"] /\ latch'["EXE"] = latch["EXE"]
        /\ exec_units' = exec_units
    BY <1>4 DEF MemoryMove
  <2>2. latch'["WB"].ir.opcode = "EOP" => IR("MEM").opcode = "EOP"
    BY <1>1, <1>4 DEF MemoryMove
  <2>3. IR("MEM").opcode = "EOP" => Idle(IR("MEM"))
    BY DEF Idle
  <2> QED
    BY <2>1, <2>2, <2>3 DEF NoneBehind, IR, Working, Idle
<1>5. CASE ExecuteMove
  <2>1. CASE InStall("MEM")
    <3>1. latch' = latch /\ exec_units' = exec_units
      BY <1>5, <2>1 DEF ExecuteMove
    <3> QED
      BY <3>1 DEF NoneBehind, IR, Working, Idle
  <2>2. CASE ~ InStall("MEM")
    <3>1. latch'["EXE"].ir = IR("EXE") /\ latch'["WB"] = latch["WB"]
      BY <1>5 DEF ExecuteMove, IR, Clean
    <3>2. CASE Done(Taking) = {}
      <4>1. /\ exec_units' = Taking /\ Idle(latch'["MEM"].ir)
            /\ latch'["MEM"].ir.opcode = "EOP" =>
                 /\ IR("EXE").opcode = "EOP"
                 /\ \A u \in DOMAIN exec_units : exec_units[u].busy = 0
        BY <1>5, <2>2, <3>2 DEF ExecuteMove
      <4>2. IR("EXE").opcode = "EOP" => Idle(IR("EXE"))
        BY DEF Idle
      <4>3. Idle(IR("EXE")) => Taking = exec_units
        BY DEF Taking
      <4>4. latch'["MEM"].ir.opcode = "EOP" => Working = {} /\ exec_units' = exec_units
        BY <3>2, <4>1, <4>2, <4>3 DEF Done, Working
      <4>5. latch["WB"].ir.opcode = "EOP" => /\ Working = {} /\ exec_units' = exec_units
                                             /\ Idle(IR("EXE"))
        BY <4>1, <4>3 DEF NoneBehind, IR
      <4> QED
        BY <3>1, <4>1, <4>2, <4>4, <4>5 DEF NoneBehind, IR, Working
    <3>3. CASE Done(Taking) # {}
      <4>1. ~ Idle(latch'["MEM"].ir)
        BY <1>5, <2>2, <3>3, LeftBusy
      <4>2. latch["WB"].ir.opcode # "EOP"
        <5>1. SUFFICES ASSUME latch["WB"].ir.opcode = "EOP" PROVE FALSE
          OBVIOUS
        <5>2. Working = {} /\ Idle(IR("EXE"))
          BY <5>1 DEF NoneBehind, IR
        <5>3. Taking = exec_units
          BY <5>2 DEF Taking
        <5> QED
          BY <3>3, <5>2, <5>3 DEF Done, Working
      <4> QED
        BY <3>1, <4>1, <4>2 DEF NoneBehind, IR, Idle
    <3> QED
      BY <3>2, <3>3
  <2> QED
    BY <2>1, <2>2
<1>6. CASE DecodeMove
  <2>1. /\ latch'["MEM"] = latch["MEM"] /\ latch'["WB"] = latch["WB"]
        /\ exec_units' = exec_units
    BY <1>6 DEF DecodeMove
  <2>2. end => Idle(IR("ID"))
    BY DEF EndSeen, Idle
  <2>3. latch'["EXE"].ir \in {Bubble.ir, IR("EXE"), IR("ID")}
    BY <1>6 DEF DecodeMove, IR
  <2>4. end /\ Idle(IR("EXE")) => Idle(latch'["EXE"].ir)
    BY <1>1, <2>2, <2>3
  <2>5. /\ latch["MEM"].ir.opcode = "EOP" => end
        /\ latch["WB"].ir.opcode = "EOP" => end
    BY DEF EndSeen, IR
  <2> QED
    BY <2>1, <2>4, <2>5 DEF NoneBehind, IR, Working, Idle
<1>7. CASE FetchMove
  <2>1. /\ latch'["MEM"] = latch["MEM"] /\ latch'["WB"] = latch["WB"]
        /\ latch'["EXE"] = latch["EXE"] /\ exec_units' = exec_units
    BY <1>7 DEF FetchMove
  <2> QED
    BY <2>1 DEF NoneBehind, IR, Working, Idle
<1>8. CASE RestMove
  <2>1. latch' = latch /\ DOMAIN exec_units' = DOMAIN exec_units
    BY <1>8 DEF RestMove
  <2>2. \A u \in DOMAIN exec_units : exec_units'[u].instruction = exec_units[u].instruction
    BY <1>8 DEF RestMove
  <2> QED
    BY <2>1, <2>2 DEF NoneBehind, IR, Working, Idle
<1> QED
  BY <1>3, <1>4, <1>5, <1>6, <1>7, <1>8 DEF Move

-----------------------------------------------------------------------------
(* The units *)

NoTwins == \A u, v \in DOMAIN exec_units : exec_units[u].type = exec_units[v].type => u = v

\* Nothing that is done is left in a unit when ID looks for one,
Gone == phase = "decode" => InStall("MEM") \/ Done(exec_units) = {}

\* so that the instruction in EXE finds one empty.
Place == ~ Idle(IR("EXE")) /\ (phase = "decode" => InStall("MEM")) =>
  \E u \in DOMAIN exec_units : /\ exec_units[u].type = UnitFor(IR("EXE").opcode)
                               /\ exec_units[u].busy = 0
                               /\ exec_units[u].instruction.opcode = "NOP"

LEMMA NoTwinsMove ==
  ASSUME TypeInv, NoTwins, Move
  PROVE  NoTwins'
<1>1. /\ DOMAIN exec_units' = DOMAIN exec_units
      /\ \A u \in DOMAIN exec_units : exec_units'[u].type = exec_units[u].type
  <2>1. CASE exec_units' = exec_units
    BY <2>1
  <2>2. CASE ExecuteMove /\ ~ InStall("MEM")
    BY <2>2, TakingIs
  <2>3. CASE RestMove
    BY <2>3 DEF RestMove
  <2> QED
    BY <2>1, <2>2, <2>3
    DEF Move, WritebackMove, MemoryMove, ExecuteMove, DecodeMove, FetchMove
<1> QED
  BY <1>1 DEF NoTwins

LEMMA GoneMove ==
  ASSUME WordsGiven, TypeInv, Gone, Move
  PROVE  Gone'
<1>1. CASE ExecuteMove
  <2>1. CASE InStall("MEM")
    BY <1>1, <2>1 DEF ExecuteMove, Gone, InStall
  <2>2. CASE ~ InStall("MEM")
    <3>1. \A u \in DOMAIN exec_units' : u \notin Done(exec_units')
      <4>1. SUFFICES ASSUME NEW u \in DOMAIN exec_units
                     PROVE  ~ (/\ exec_units'[u].busy = 0
                               /\ exec_units'[u].instruction.opcode # "NOP")
        BY <1>1, <2>2, TakingIs DEF Done
      <4>2. CASE u \in Done(Taking)
        BY <1>1, <2>2, <4>2, TakingIs, BlankNop
      <4>3. CASE u \notin Done(Taking)
        <5>1. exec_units'[u].busy = Taking[u].busy /\ DOMAIN Taking = DOMAIN exec_units
              /\ exec_units'[u].instruction = Taking[u].instruction
          BY <1>1, <2>2, <4>3, TakingIs DEF ExecuteMove
        <5> HIDE DEF Taking
        <5> QED
          BY <4>3, <5>1 DEF Done
      <4> QED
        BY <4>2, <4>3
    <3>2. Done(exec_units') = {}
      BY <3>1 DEF Done
    <3> QED
      BY <3>2 DEF Gone, Done
  <2> QED
    BY <2>1, <2>2
<1>2. CASE RestMove
  BY <1>2 DEF RestMove, Gone, InStall, Done
<1>3. CASE WritebackMove \/ MemoryMove \/ DecodeMove \/ FetchMove
  BY <1>3 DEF WritebackMove, MemoryMove, DecodeMove, FetchMove, Gone
<1> QED
  BY <1>1, <1>2, <1>3 DEF Move

LEMMA PlaceMove ==
  ASSUME TypeInv, Gone, Place, Move
  PROVE  Place'
<1>1. Idle(Bubble.ir)
  BY DEF Bubble, Clean, Blank, Idle
<1>2. CASE WritebackMove
  BY <1>2 DEF WritebackMove, Place, IR, Idle
<1>3. CASE MemoryMove
  <2>1. /\ latch'["EXE"] = latch["EXE"] /\ exec_units' = exec_units
        /\ phase = "memory" /\ phase' = "execute"
    BY <1>3 DEF MemoryMove
  <2> QED
    BY <2>1 DEF Place, IR, Idle
<1>4. CASE ExecuteMove
  <2>1. /\ phase = "execute" /\ phase' = "decode"
        /\ stall'["MEM"].in_stall <=> InStall("MEM")
        /\ InStall("MEM") => latch' = latch /\ exec_units' = exec_units
    BY <1>4 DEF ExecuteMove
  <2> QED
    BY <2>1 DEF Place, IR, InStall, Idle
<1>5. CASE DecodeMove
  <2>1. CASE InStall("MEM")
    <3>1. phase = "decode" /\ latch' = latch /\ exec_units' = exec_units
      BY <1>5, <2>1 DEF DecodeMove
    <3> QED
      BY <2>1, <3>1 DEF Place, IR, Idle
  <2>2. CASE ~ InStall("MEM") /\ Idle(latch'["EXE"].ir)
    BY <2>2 DEF Place, IR, Idle
  <2>3. CASE ~ InStall("MEM") /\ ~ Idle(latch'["EXE"].ir)
    <3>1. /\ latch'["EXE"].ir = IR("ID") /\ FreeUnits(IR("ID").opcode) # {}
          /\ exec_units' = exec_units /\ phase = "decode"
      BY <1>1, <1>5, <2>3 DEF DecodeMove
    <3>2. PICK u \in DOMAIN exec_units : /\ exec_units[u].type = UnitFor(IR("ID").opcode)
                                         /\ exec_units[u].busy = 0
      <4> HIDE DEF UnitFor
      <4> QED
        BY <3>1 DEF FreeUnits
    <3>3. exec_units[u].instruction.opcode = "NOP"
      BY <2>3, <3>1, <3>2 DEF Gone, Done
    <3> HIDE DEF UnitFor
    <3> QED
      BY <3>1, <3>2, <3>3 DEF Place, IR
  <2> QED
    BY <2>1, <2>2, <2>3
<1>6. CASE FetchMove
  <2>1. /\ latch'["EXE"] = latch["EXE"] /\ exec_units' = exec_units
        /\ phase = "fetch" /\ phase' = "units"
    BY <1>6 DEF FetchMove
  <2> QED
    BY <2>1 DEF Place, IR, Idle
<1>7. CASE RestMove
  <2>1. /\ latch' = latch /\ DOMAIN exec_units' = DOMAIN exec_units
        /\ phase' = "decode" => phase = "decode"
        /\ phase = "decode" => phase' = "decode"
        /\ stall' = stall
    BY <1>7 DEF RestMove
  <2>2. \A u \in DOMAIN exec_units :
          /\ exec_units'[u].type = exec_units[u].type
          /\ exec_units'[u].instruction = exec_units[u].instruction
          /\ exec_units[u].busy = 0 => exec_units'[u].busy = 0
    BY <1>7 DEF RestMove
  <2>3. SUFFICES ASSUME ~ Idle(IR("EXE")), phase = "decode" => InStall("MEM")
                 PROVE  \E u \in DOMAIN exec_units' :
                          /\ exec_units'[u].type = UnitFor(IR("EXE").opcode)
                          /\ exec_units'[u].busy = 0
                          /\ exec_units'[u].instruction.opcode = "NOP"
    BY <2>1 DEF Place, IR, InStall, Idle
  <2>4. PICK u \in DOMAIN exec_units : /\ exec_units[u].type = UnitFor(IR("EXE").opcode)
                                       /\ exec_units[u].busy = 0
                                       /\ exec_units[u].instruction.opcode = "NOP"
    BY <2>3 DEF Place
  <2> HIDE DEF UnitFor
  <2> QED
    BY <2>1, <2>2, <2>4
<1> QED
  BY <1>2, <1>3, <1>4, <1>5, <1>6, <1>7 DEF Move

-----------------------------------------------------------------------------
(* The count *)

\* Whether an instruction is counted in a latch: a stage that was called in this
\* cycle leaves what it handed on in its own latch until that is overwritten.
InWB  == One(phase # "memory" /\ ~ Idle(IR("WB")))
InMEM == One((phase = "execute" => InStall("MEM")) /\ ~ Idle(IR("MEM")))
InEXE == One((phase = "decode" => InStall("MEM")) /\ ~ Idle(IR("EXE")))
InID  == One((phase = "fetch" => Held) /\ ~ Idle(IR("ID")))

Latched == InWB + InMEM + InEXE + InID
Present == total_instr_count + Latched + Cardinality(Working)

CountInv ==
  /\ pc = 4 * Present
  /\ pc <= 4 * PROGRAM_SIZE

WorkIn(units) == {u \in DOMAIN units : units[u].instruction.opcode # "NOP"}

LEMMA WorkFinite ==
  ASSUME NEW units, Table(units)
  PROVE  IsFiniteSet(WorkIn(units)) /\ Cardinality(WorkIn(units)) \in Nat
<1>1. PICK n \in Nat : units \in [1 .. n -> UnitRecord]
  BY DEF Table
<1>2. IsFiniteSet(1 .. n)
  BY FS_Interval
<1>3. WorkIn(units) \subseteq 1 .. n
  BY <1>1 DEF WorkIn
<1>4. IsFiniteSet(WorkIn(units))
  BY <1>2, <1>3, FS_Subset
<1> QED
  BY <1>4, FS_CardinalityType

LEMMA OneType == \A b : One(b) \in 0 .. 1 /\ (b <=> One(b) = 1) /\ (~ b <=> One(b) = 0)
  BY DEF One

LEMMA CountTypes ==
  ASSUME TypeInv
  PROVE  /\ total_instr_count \in Nat /\ Cardinality(Working) \in Nat
         /\ InWB \in Nat /\ InMEM \in Nat /\ InEXE \in Nat /\ InID \in Nat
<1>1. Working = WorkIn(exec_units)
  BY DEF Working, WorkIn
<1> QED
  BY <1>1, WorkFinite, OneType DEF TypeInv, InWB, InMEM, InEXE, InID

\* An instruction that takes a unit is one more in the units,
LEMMA TakenCount ==
  ASSUME TypeInv, NoTwins, Place, ExecuteMove, ~ InStall("MEM")
  PROVE  Cardinality(WorkIn(Taking)) = Cardinality(Working) + One(~ Idle(IR("EXE")))
<1>1. Working = WorkIn(exec_units) /\ Cardinality(Working) \in Nat /\ IsFiniteSet(Working)
  BY WorkFinite DEF TypeInv, Working, WorkIn
<1>2. CASE Idle(IR("EXE"))
  <2>1. Taking = exec_units /\ One(~ Idle(IR("EXE"))) = 0
    BY <1>2, OneType DEF Taking
  <2> QED
    BY <1>1, <2>1
<1>3. CASE ~ Idle(IR("EXE"))
  <2>1. /\ Taker \in DOMAIN exec_units
        /\ exec_units[Taker].type = UnitFor(IR("EXE").opcode)
        /\ Taking[Taker].instruction = IR("EXE")
        /\ \A u \in DOMAIN exec_units \ {Taker} : Taking[u] = exec_units[u]
        /\ DOMAIN Taking = DOMAIN exec_units
    BY <1>3, TakingIs DEF ExecuteMove
  <2>2. PICK u \in DOMAIN exec_units : /\ exec_units[u].type = UnitFor(IR("EXE").opcode)
                                       /\ exec_units[u].instruction.opcode = "NOP"
    BY <1>3 DEF Place, ExecuteMove
  <2>3. u = Taker
    BY <2>1, <2>2 DEF NoTwins
  <2>4. Taker \notin Working
    BY <2>2, <2>3 DEF Working
  <2> HIDE DEF Taking, Taker
  <2>5. WorkIn(Taking) = Working \cup {Taker}
    BY <1>3, <2>1 DEF WorkIn, Working, Idle
  <2>6. Cardinality(WorkIn(Taking)) = Cardinality(Working) + 1
    BY <1>1, <2>4, <2>5, FS_AddElement
  <2> QED
    BY <1>3, <2>6, OneType
<1> QED
  BY <1>2, <1>3

\* and a result that leaves is one less, if it is the only one.
LEMMA LeftCount ==
  ASSUME WordsGiven, TypeInv, EndSeen, ExecuteMove, ~ InStall("MEM"), OneDone
  PROVE  Cardinality(WorkIn(Taking))
           = Cardinality(WorkIn(exec_units')) + One(~ Idle(latch'["MEM"].ir))
<1>1. Table(Taking) /\ DOMAIN Taking = DOMAIN exec_units
  BY DEF ExecuteMove
<1>2. IsFiniteSet(WorkIn(Taking)) /\ Cardinality(WorkIn(Taking)) \in Nat
  BY <1>1, WorkFinite
<1>3. CASE Done(Taking) = {}
  <2>1. exec_units' = Taking /\ Idle(latch'["MEM"].ir)
    BY <1>3 DEF ExecuteMove
  <2>2. One(~ Idle(latch'["MEM"].ir)) = 0
    BY <2>1 DEF One
  <2> QED
    BY <1>2, <2>1, <2>2
<1>4. CASE Done(Taking) # {}
  <2>1. PICK u \in DOMAIN exec_units : u \in Done(Taking)
    BY <1>1, <1>4 DEF Done
  <2>2. \A v \in Done(Taking) : v \in Leaving
    <3>1. SUFFICES ASSUME NEW v \in Done(Taking) PROVE v \in Leaving
      OBVIOUS
    <3>2. /\ v \in DOMAIN exec_units
          /\ Taking[v].busy = 0 /\ Taking[v].instruction.opcode # "NOP"
      BY <1>1, <3>1 DEF Done
    <3>3. CASE Taking[v] = exec_units[v]
      BY <3>2, <3>3 DEF Leaving
    <3>4. CASE Taking[v] # exec_units[v]
      <4>1. ~ Idle(IR("EXE")) /\ v = Taker
        BY <3>2, <3>4, TakingIs
      <4>2. /\ exec_units[v].busy = 0 /\ exec_units[v].type = UnitFor(IR("EXE").opcode)
            /\ Taking[v].busy = exec_units[v].delayed
        BY <4>1, TakingIs
      <4> HIDE DEF Taking, UnitFor
      <4> QED
        BY <3>2, <4>1, <4>2 DEF Leaving
    <3> QED
      BY <3>3, <3>4
  <2>3. \A v, w \in Leaving : v = w
    BY DEF OneDone, ExecuteMove
  <2>4. \A v \in DOMAIN exec_units : v \in Done(Taking) <=> v = u
    BY <2>1, <2>2, <2>3
  <2>5. u \in WorkIn(Taking)
    BY <2>1 DEF Done, WorkIn
  <2>6. WorkIn(exec_units') = WorkIn(Taking) \ {u}
    <3>1. /\ DOMAIN exec_units' = DOMAIN exec_units
          /\ \A v \in DOMAIN exec_units :
               /\ v # u => exec_units'[v].instruction = Taking[v].instruction
               /\ v = u => exec_units'[v].instruction = Blank("NOP")
      BY <2>4, TakingIs
    <3> HIDE DEF Taking
    <3> QED
      BY <1>1, <3>1, BlankNop DEF WorkIn
  <2>7. Cardinality(WorkIn(exec_units')) = Cardinality(WorkIn(Taking)) - 1
    BY <1>2, <2>5, <2>6, FS_RemoveElement
  <2>8. One(~ Idle(latch'["MEM"].ir)) = 1
    BY <1>4, LeftBusy, OneType
  <2> QED
    BY <1>2, <2>7, <2>8
<1> QED
  BY <1>3, <1>4

\* The places of the instructions in a stage that moves them.
LEMMA KeptCount ==
  ASSUME WordsGiven, TypeInv, TypeInv', Access, NoTwins, EndSeen, Place, OneDone,
         WritebackMove \/ MemoryMove \/ ExecuteMove \/ DecodeMove \/ RestMove
  PROVE  Present' = Present
<1>1. /\ total_instr_count \in Nat /\ Cardinality(Working) \in Nat
      /\ InWB \in Nat /\ InMEM \in Nat /\ InEXE \in Nat /\ InID \in Nat
  BY CountTypes
<1>2. Idle(Bubble.ir)
  BY DEF Bubble, Clean, Blank, Idle
<1>3. CASE WritebackMove
  <2>1. /\ Cardinality(Working)' = Cardinality(Working)
        /\ total_instr_count' = total_instr_count + One(~ Idle(IR("WB")))
    BY <1>3 DEF WritebackMove, Working
  <2>2. InWB = One(~ Idle(IR("WB"))) /\ InWB' = 0
    BY <1>3 DEF WritebackMove, InWB, One
  <2>3. InMEM' = InMEM /\ InEXE' = InEXE /\ InID' = InID
    BY <1>3 DEF WritebackMove, InMEM, InEXE, InID, IR, Idle
  <2> QED
    BY <1>1, <2>1, <2>2, <2>3 DEF Present, Latched
<1>4. CASE MemoryMove
  <2>1. /\ Cardinality(Working)' = Cardinality(Working)
        /\ total_instr_count' = total_instr_count
    BY <1>4 DEF MemoryMove, Working
  <2>2. /\ latch'["MEM"] = latch["MEM"] /\ latch'["EXE"] = latch["EXE"]
        /\ latch'["ID"] = latch["ID"] /\ phase = "memory" /\ phase' = "execute"
    BY <1>4 DEF MemoryMove
  <2>3. InEXE' = InEXE /\ InID' = InID
    BY <2>2 DEF InEXE, InID, IR, Idle
  <2>4. InWB = 0 /\ InMEM = One(~ Idle(IR("MEM")))
    BY <2>2 DEF InWB, InMEM, One
  <2>5. InWB' + InMEM' = InWB + InMEM
    <3>1. CASE stall'["MEM"].in_stall
      <4>1. latch'["WB"] = Bubble
        BY <1>4, <3>1 DEF MemoryMove
      <4>2. InWB' = 0
        BY <1>2, <4>1 DEF InWB, One, IR, Idle
      <4>3. InMEM' = One(~ Idle(IR("MEM")))
        BY <2>2, <3>1 DEF InMEM, InStall, IR, Idle, One
      <4> QED
        BY <1>1, <2>4, <4>2, <4>3
    <3>2. CASE ~ stall'["MEM"].in_stall
      <4>1. latch'["WB"].ir = IR("MEM")
        BY <1>4, <3>2 DEF MemoryMove
      <4>2. InMEM' = 0
        BY <2>2, <3>2 DEF InMEM, InStall, One
      <4>3. InWB' = One(~ Idle(IR("MEM")))
        BY <2>2, <4>1 DEF InWB, IR, Idle, One
      <4> QED
        BY <1>1, <2>4, <4>2, <4>3
    <3> QED
      BY <3>1, <3>2
  <2>6. InWB' \in Nat /\ InMEM' \in Nat
    BY OneType DEF InWB, InMEM
  <2> QED
    BY <1>1, <2>1, <2>3, <2>5, <2>6 DEF Present, Latched
<1>5. CASE ExecuteMove
  <2>1. /\ total_instr_count' = total_instr_count
        /\ phase = "execute" /\ phase' = "decode"
        /\ latch'["WB"] = latch["WB"] /\ latch'["ID"] = latch["ID"]
        /\ stall'["MEM"].in_stall <=> InStall("MEM")
    BY <1>5 DEF ExecuteMove
  <2>2. InWB' = InWB /\ InID' = InID
    BY <2>1 DEF InWB, InID, IR, Idle
  <2>3. CASE InStall("MEM")
    <3>1. latch' = latch /\ exec_units' = exec_units
      BY <1>5, <2>3 DEF ExecuteMove
    <3>2. InMEM' = InMEM /\ InEXE' = InEXE /\ Cardinality(Working)' = Cardinality(Working)
      BY <2>1, <2>3, <3>1 DEF InMEM, InEXE, Working, IR, Idle, InStall
    <3> QED
      BY <2>1, <2>2, <3>2 DEF Present, Latched
  <2>4. CASE ~ InStall("MEM")
    <3>1. InMEM = 0 /\ InEXE = One(~ Idle(IR("EXE")))
      BY <2>1, <2>4 DEF InMEM, InEXE, One
    <3>2. InEXE' = 0 /\ InMEM' = One(~ Idle(latch'["MEM"].ir))
      BY <2>1, <2>4 DEF InMEM, InEXE, One, InStall, IR, Idle
    <3>3. Cardinality(WorkIn(Taking)) = Cardinality(Working) + One(~ Idle(IR("EXE")))
      BY <1>5, <2>4, TakenCount
    <3>4. Cardinality(WorkIn(Taking))
            = Cardinality(WorkIn(exec_units')) + One(~ Idle(latch'["MEM"].ir))
      BY <1>5, <2>4, LeftCount
    <3>5. WorkIn(exec_units') = Working'
      BY DEF WorkIn, Working
    <3>6. Cardinality(Working)' \in Nat
      BY <3>5, WorkFinite DEF TypeInv
    <3>7. Cardinality(Working)' + One(~ Idle(latch'["MEM"].ir))
            = Cardinality(Working) + One(~ Idle(IR("EXE")))
      BY <3>3, <3>4, <3>5
    <3>8. One(~ Idle(latch'["MEM"].ir)) \in Nat /\ One(~ Idle(IR("EXE"))) \in Nat
      BY OneType
    <3> QED
      BY <1>1, <2>1, <2>2, <3>1, <3>2, <3>6, <3>7, <3>8 DEF Present, Latched
  <2> QED
    BY <2>3, <2>4
<1>6. CASE DecodeMove
  <2>1. /\ total_instr_count' = total_instr_count /\ exec_units' = exec_units
        /\ phase = "decode" /\ phase' = "fetch"
        /\ latch'["WB"] = latch["WB"] /\ latch'["MEM"] = latch["MEM"]
        /\ latch'["ID"] = latch["ID"]
    BY <1>6 DEF DecodeMove
  <2>2. /\ InWB' = InWB /\ InMEM' = InMEM
        /\ Cardinality(Working)' = Cardinality(Working)
    BY <2>1 DEF InWB, InMEM, Working, IR, Idle
  <2>3. /\ InID = One(~ Idle(IR("ID")))
        /\ InEXE = One(InStall("MEM") /\ ~ Idle(IR("EXE")))
        /\ InID' = One(Held' /\ ~ Idle(IR("ID")))
        /\ InEXE' = One(~ Idle(latch'["EXE"].ir))
    BY <2>1 DEF InID, InEXE, IR, Idle, One
  <2>4. InEXE' + InID' = InEXE + InID
    <3>1. CASE InStall("MEM")
      <4>1. latch' = latch /\ Held'
        BY <1>6, <3>1 DEF DecodeMove
      <4> QED
        BY <2>3, <3>1, <4>1 DEF One, IR
    <3>2. CASE ~ InStall("MEM") /\ latch'["EXE"] = Bubble /\ Held'
      BY <1>2, <2>3, <3>2 DEF One
    <3>3. CASE ~ InStall("MEM") /\ latch'["EXE"].ir = IR("ID") /\ ~ Held'
      BY <2>3, <3>3 DEF One
    <3> QED
      BY <1>6, <3>1, <3>2, <3>3 DEF DecodeMove
  <2>5. InEXE' \in Nat /\ InID' \in Nat
    BY OneType DEF InEXE, InID
  <2>6. Latched = (InWB + InMEM) + (InEXE + InID)
    BY <1>1 DEF Latched
  <2>7. Latched' = (InWB' + InMEM') + (InEXE' + InID')
    <3>1. InWB' \in Nat /\ InMEM' \in Nat
      BY <1>1, <2>2
    <3>2. Latched' = InWB' + InMEM' + InEXE' + InID'
      BY DEF Latched
    <3> QED
      BY <2>5, <3>1, <3>2
  <2>8. Latched' = Latched
    BY <2>2, <2>4, <2>6, <2>7
  <2> QED
    BY <2>1, <2>2, <2>8 DEF Present
<1>7. CASE RestMove
  <2>1. /\ total_instr_count' = total_instr_count /\ latch' = latch /\ stall' = stall
        /\ DOMAIN exec_units' = DOMAIN exec_units
        /\ \A p \in {"memory", "execute", "decode", "fetch"} : phase' = p <=> phase = p
    BY <1>7 DEF RestMove
  <2>2. \A u \in DOMAIN exec_units : exec_units'[u].instruction = exec_units[u].instruction
    BY <1>7 DEF RestMove
  <2>3. Cardinality(Working)' = Cardinality(Working)
    <3>1. Working' = Working
      BY <2>1, <2>2 DEF Working
    <3> QED
      BY <3>1
  <2>4. InWB' = InWB /\ InMEM' = InMEM /\ InEXE' = InEXE /\ InID' = InID
    BY <2>1 DEF InWB, InMEM, InEXE, InID, IR, Idle, InStall, Held
  <2> QED
    BY <2>1, <2>3, <2>4 DEF Present, Latched
<1> QED
  BY <1>3, <1>4, <1>5, <1>6, <1>7

\* Fetch adds the instruction it fetches.
LEMMA CountMove ==
  ASSUME ProgramsGiven, WordsGiven, CleanStart(Setups), AddressesFit,
         TypeInv, TypeInv', Access, NotTaken, EndSeen, NoTwins, Place, OneDone, CountInv, Move
  PROVE  CountInv'
<1>1. CASE WritebackMove \/ MemoryMove \/ ExecuteMove \/ DecodeMove \/ RestMove
  <2>1. pc' = pc
    BY <1>1 DEF WritebackMove, MemoryMove, ExecuteMove, DecodeMove, RestMove
  <2>2. Present' = Present
    BY <1>1, KeptCount
  <2> QED
    BY <2>1, <2>2 DEF CountInv
<1>2. CASE FetchMove
  <2>1. /\ total_instr_count \in Nat /\ Cardinality(Working) \in Nat
        /\ InWB \in Nat /\ InMEM \in Nat /\ InEXE \in Nat /\ InID \in Nat
    BY CountTypes
  <2>2. /\ total_instr_count' = total_instr_count /\ exec_units' = exec_units
        /\ phase = "fetch" /\ phase' = "units"
        /\ latch'["WB"] = latch["WB"] /\ latch'["MEM"] = latch["MEM"]
        /\ latch'["EXE"] = latch["EXE"]
    BY <1>2 DEF FetchMove
  <2>3. /\ InWB' = InWB /\ InMEM' = InMEM /\ InEXE' = InEXE
        /\ Cardinality(Working)' = Cardinality(Working)
    BY <2>2 DEF InWB, InMEM, InEXE, Working, IR, Idle
  <2>4. /\ InID = One(Held /\ ~ Idle(IR("ID")))
        /\ InID' = One(~ Idle(latch'["ID"].ir))
    BY <2>2 DEF InID, IR, Idle, One
  <2>5. FetchPC = pc
    BY DEF FetchPC, NotTaken, Stages
  <2>6. Present \in Nat
    BY <2>1 DEF Present, Latched
  <2>7. /\ pc = 4 * Present /\ pc \div 4 = Present /\ Present <= PROGRAM_SIZE
    BY <2>6 DEF CountInv, PROGRAM_SIZE
  <2>8. \/ pc' = pc /\ InID' = InID
        \/ /\ InID = 0 /\ InID' = 1
           /\ pc' = Wrap(pc + 4) /\ Present \in 0 .. PROGRAM_SIZE - 1
    <3>1. CASE /\ latch' = latch /\ pc' = pc
               /\ Held \/ end \/ ~ (FetchPC \div 4 <= PROGRAM_SIZE)
      <4>1. Held \/ end
        BY <2>5, <2>7, <3>1
      <4>2. end => Idle(IR("ID"))
        BY DEF EndSeen, Idle
      <4> QED
        BY <2>4, <3>1, <4>1, <4>2 DEF One, IR
    <3>2. CASE ~ Held /\ latch'["ID"] = Bubble /\ pc' = pc
      <4>1. Idle(Bubble.ir)
        BY DEF Bubble, Clean, Blank, Idle
      <4> QED
        BY <2>4, <3>2, <4>1 DEF One
    <3>3. CASE ~ Held /\ latch'["ID"].ir.opcode = "EOP" /\ pc' = pc
      BY <2>4, <3>3 DEF One, Idle
    <3>4. CASE /\ ~ Held /\ latch'["ID"].ir = Fetched /\ Fetched.opcode # "EOP"
               /\ pc' = Wrap(FetchPC + 4)
      <4>1. Fetched.opcode # "NOP" /\ FetchPC \div 4 \in 0 .. PROGRAM_SIZE - 1
        BY <3>4, FetchedIs
      <4>2. ~ Idle(latch'["ID"].ir)
        BY <3>4, <4>1 DEF Idle
      <4> QED
        BY <2>4, <2>5, <2>7, <3>4, <4>1, <4>2 DEF One
    <3> QED
      BY <1>2, <3>1, <3>2, <3>3, <3>4 DEF FetchMove
  <2>9. CASE pc' = pc /\ InID' = InID
    <3>1. Present' = Present
      BY <2>2, <2>3, <2>9 DEF Present, Latched
    <3> QED
      BY <2>9, <3>1 DEF CountInv
  <2>10. CASE /\ InID = 0 /\ InID' = 1
              /\ pc' = Wrap(pc + 4) /\ Present \in 0 .. PROGRAM_SIZE - 1
    <3>1. Present' = Present + 1
      BY <2>1, <2>2, <2>3, <2>10 DEF Present, Latched
    <3>2. pc + 4 = 4 * (Present + 1) /\ pc + 4 <= 4 * PROGRAM_SIZE
      BY <2>6, <2>7, <2>10 DEF PROGRAM_SIZE
    <3>3. pc + 4 \in Nat /\ pc + 4 < WordSize
      BY <2>6, <2>7, <3>2, SizeGiven DEF AddressesFit, PROGRAM_SIZE
    <3>4. Wrap(pc + 4) = pc + 4
      BY <3>3, SmallWraps
    <3> QED
      BY <2>10, <3>1, <3>2, <3>4 DEF CountInv
  <2> QED
    BY <2>8, <2>9, <2>10
<1> QED
  BY <1>1, <1>2 DEF Move

-----------------------------------------------------------------------------
(* The invariant *)

Calm    == Access /\ NotTaken /\ EndSeen /\ NoneBehind
FlowInv == Calm /\ NoTwins /\ Gone /\ Place /\ CountInv

LEMMA StepMoves ==
  ASSUME ProgramsGiven, WordsGiven, TypeInv, Access,
         Step \/ (\E n \in Calls : Run(n)) \/ UNCHANGED vars
  PROVE  Move
<1>1. CASE Step
  BY <1>1, WritebackMoves, MemoryMoves, ExecuteMoves, DecodeMoves, FetchMoves, RestMoves
     DEF Step, Move
<1>2. CASE (\E n \in Calls : Run(n)) \/ UNCHANGED vars
  BY <1>2, RestMoves DEF Move
<1> QED
  BY <1>1, <1>2

LEMMA CalmMove ==
  ASSUME ProgramsGiven, WordsGiven, CleanStart(Setups), TypeInv, Calm, Move
  PROVE  Calm'
<1>1. Access /\ NotTaken /\ EndSeen /\ NoneBehind
  BY DEF Calm
<1>2. Access' /\ NotTaken' /\ EndSeen' /\ NoneBehind'
  BY <1>1, AccessMove, NotTakenMove, EndSeenMove, NoneBehindMove
<1> QED
  BY <1>2 DEF Calm

\* At first the latches and units are empty.
LEMMA EmptyStart ==
  ASSUME CleanStart(Setups), UnitsGiven, Init
  PROVE  /\ ~ InStall("MEM") /\ delayed = 0 /\ stall["EXE"].hazard_type # "WAW"
         /\ \A u \in DOMAIN exec_units : exec_units[u].instruction = Blank("NOP")
         /\ \A s \in Stages : IR(s) = Blank("NOP") /\ latch[s].COND = UNDEFINED
         /\ ~ end /\ pc = 0 /\ total_instr_count = 0 /\ phase = "idle"
<1>1. PICK s \in Setups :
        /\ exec_units = s.units /\ delayed = s.delayed
        /\ stall = [st \in Stages |-> [in_stall |-> FALSE, reg |-> UNDEFINED,
                                       hazard_type |-> s.hazard_type]]
  BY DEF Init
<1>2. s.delayed = 0 /\ s.hazard_type # "WAW"
  BY DEF CleanStart
<1>3. ~ InStall("MEM") /\ stall["EXE"].hazard_type # "WAW"
  BY <1>1, <1>2 DEF InStall, Stages
<1>4. \A u \in DOMAIN exec_units : exec_units[u].instruction = Blank("NOP")
  <2>1. s.units = [u \in DOMAIN s.units |-> Unit(s.units[u].type, s.units[u].delayed)]
    BY DEF UnitsGiven
  <2>2. \A t, d : Unit(t, d).instruction = Blank("NOP")
    BY DEF Unit
  <2> QED
    BY <1>1, <2>1, <2>2
<1>5. \A st \in Stages : IR(st) = Blank("NOP") /\ latch[st].COND = UNDEFINED
  BY EmptyPipeIs DEF Init, IR
<1>6. ~ end /\ pc = 0 /\ total_instr_count = 0 /\ phase = "idle"
  BY DEF Init
<1> QED
  BY <1>1, <1>2, <1>3, <1>4, <1>5, <1>6

LEMMA InitCalm ==
  ASSUME CleanStart(Setups), UnitsGiven, Init
  PROVE  Calm
<1>1. Blank("NOP").opcode = "NOP" /\ Idle(Blank("NOP"))
  BY BlankNop
<1>2. \A s \in {"ID", "EXE", "MEM", "WB"} : IR(s).opcode = "NOP" /\ Idle(IR(s))
  BY <1>1, EmptyStart DEF Stages
<1>3. Access
  BY EmptyStart DEF Access
<1>4. NotTaken
  BY <1>1, EmptyStart DEF NotTaken, Jumps, Branches, Stages
<1>5. EndSeen
  BY <1>1, <1>2, EmptyStart DEF EndSeen
<1>6. NoneBehind
  BY <1>2 DEF NoneBehind
<1> QED
  BY <1>3, <1>4, <1>5, <1>6 DEF Calm

LEMMA InitFlow ==
  ASSUME KeepInstructions(Setups), UnitsGiven, Init
  PROVE  FlowInv
<1>1. CleanStart(Setups)
  BY DEF KeepInstructions
<1>2. Blank("NOP").opcode = "NOP" /\ Idle(Blank("NOP"))
  BY BlankNop
<1>3. \A s \in {"ID", "EXE", "MEM", "WB"} : IR(s).opcode = "NOP" /\ Idle(IR(s))
  BY <1>1, <1>2, EmptyStart DEF Stages
<1>4. Working = {} /\ Done(exec_units) = {}
  BY <1>1, <1>2, EmptyStart DEF Working, Done
<1>5. NoTwins
  BY DEF Init, KeepInstructions, NoTwins
<1>6. Gone /\ Place
  BY <1>3, <1>4 DEF Gone, Place
<1>7. CountInv
  <2>1. InWB = 0 /\ InMEM = 0 /\ InEXE = 0 /\ InID = 0
    BY <1>3 DEF InWB, InMEM, InEXE, InID, One
  <2>2. Cardinality(Working) = 0 /\ pc = 0 /\ total_instr_count = 0
    BY <1>1, <1>4, FS_EmptySet, EmptyStart
  <2> QED
    BY <2>1, <2>2 DEF CountInv, Present, Latched, PROGRAM_SIZE
<1> QED
  BY <1>1, <1>5, <1>6, <1>7, InitCalm DEF FlowInv

\* The driver resets a pipeline that has nothing in flight.
LEMMA EmptyReset ==
  ASSUME TypeInv, Calm, Reset, Ended
  PROVE  /\ delayed' = 0 /\ ~ stall'["MEM"].in_stall
         /\ stall'["EXE"].hazard_type # "WAW"
         /\ DOMAIN exec_units' = DOMAIN exec_units
         /\ \A u \in DOMAIN exec_units :
              /\ exec_units'[u].type = exec_units[u].type
              /\ exec_units'[u].delayed = exec_units[u].delayed
              /\ exec_units'[u].instruction.opcode = "NOP"
         /\ \A s \in {"ID", "EXE", "MEM", "WB"} :
              latch'[s].ir.opcode = "NOP" /\ Idle(latch'[s].ir)
         /\ \A s \in Stages : latch'[s].COND = UNDEFINED /\ latch'[s].ir.opcode = "NOP"
         /\ ~ end' /\ pc' = 0 /\ total_instr_count' = 0 /\ phase' = "idle"
<1>1. /\ \A s \in Stages : latch'[s].ir = Blank("NOP") /\ latch'[s].COND = UNDEFINED
      /\ end' = FALSE /\ pc' = 0 /\ total_instr_count' = 0 /\ delayed' = delayed
      /\ phase' = "idle"
  BY EmptyPipeIs DEF Reset
<1>2. IR("WB").opcode = "EOP"
  BY DEF Ended
<1>3. Working = {} /\ delayed = 0
  BY <1>2 DEF Calm, NoneBehind, Access
<1>4. /\ ~ stall'["MEM"].in_stall
      /\ stall'["EXE"].hazard_type = stall["EXE"].hazard_type
      /\ DOMAIN exec_units' = DOMAIN exec_units
      /\ \A u \in DOMAIN exec_units :
           /\ exec_units'[u].type = exec_units[u].type
           /\ exec_units'[u].delayed = exec_units[u].delayed
           /\ exec_units'[u].instruction = exec_units[u].instruction
  BY ResetIs DEF Stages, InStall
<1>5. \A u \in DOMAIN exec_units : exec_units[u].instruction.opcode = "NOP"
  BY <1>3 DEF Working
<1>6. Blank("NOP").opcode = "NOP" /\ Idle(Blank("NOP"))
  BY BlankNop
<1>7. \A s \in {"ID", "EXE", "MEM", "WB"} : latch'[s].ir.opcode = "NOP" /\ Idle(latch'[s].ir)
  BY <1>1, <1>6 DEF Stages
<1>8. stall'["EXE"].hazard_type # "WAW"
  BY <1>4 DEF Calm, Access
<1> QED
  BY <1>1, <1>3, <1>4, <1>5, <1>6, <1>7, <1>8

LEMMA ResetCalm ==
  ASSUME TypeInv, Calm, Reset, Ended
  PROVE  Calm'
<1>1. Access'
  BY EmptyReset DEF Access, InStall
<1>2. NotTaken'
  BY EmptyReset DEF NotTaken, IR, Jumps, Branches, Stages
<1>3. EndSeen'
  BY EmptyReset DEF EndSeen, IR
<1>4. NoneBehind'
  BY EmptyReset DEF NoneBehind, IR
<1> QED
  BY <1>1, <1>2, <1>3, <1>4 DEF Calm

LEMMA ResetFlow ==
  ASSUME TypeInv, FlowInv, Reset, Ended
  PROVE  FlowInv'
<1>1. Calm
  BY DEF FlowInv
<1>2. /\ \A s \in {"ID", "EXE", "MEM", "WB"} : Idle(latch'[s].ir)
      /\ phase' = "idle" /\ pc' = 0 /\ total_instr_count' = 0
      /\ DOMAIN exec_units' = DOMAIN exec_units
      /\ \A u \in DOMAIN exec_units : /\ exec_units'[u].type = exec_units[u].type
                                      /\ exec_units'[u].instruction.opcode = "NOP"
  BY <1>1, EmptyReset
<1>3. NoTwins'
  BY <1>2 DEF FlowInv, NoTwins
<1>4. Gone' /\ Place'
  BY <1>2 DEF Gone, Place, IR
<1>5. CountInv'
  <2>1. InWB' = 0 /\ InMEM' = 0 /\ InEXE' = 0 /\ InID' = 0
    BY <1>2 DEF InWB, InMEM, InEXE, InID, IR, Idle, One
  <2>2. Working' = {}
    BY <1>2 DEF Working
  <2>3. Cardinality(Working') = 0 /\ PROGRAM_SIZE \in Nat
    BY <2>2, FS_EmptySet DEF PROGRAM_SIZE
  <2>4. Latched' = 0
    BY <2>1 DEF Latched
  <2>5. Present' = 0
    BY <1>2, <2>3, <2>4 DEF Present
  <2> QED
    BY <1>2, <2>5 DEF CountInv, PROGRAM_SIZE
<1> QED
  BY <1>1, <1>3, <1>4, <1>5, ResetCalm DEF FlowInv

\* Two sets with no element in common.
LEMMA ApartCount ==
  ASSUME NEW S, NEW T, IsFiniteSet(S), IsFiniteSet(T), S \cap T = {}
  PROVE  /\ IsFiniteSet(S \cup T)
         /\ Cardinality(S \cup T) = Cardinality(S) + Cardinality(T)
<1>1. Cardinality(S \cap T) = 0
  BY FS_EmptySet
<1>2. Cardinality(S) \in Nat /\ Cardinality(T) \in Nat
  BY FS_CardinalityType
<1>3. Cardinality(S \cup T) = Cardinality(S) + Cardinality(T) - Cardinality(S \cap T)
  BY FS_Union
<1>4. IsFiniteSet(S \cup T)
  BY FS_Union
<1> QED
  BY <1>1, <1>2, <1>3, <1>4

\* Between two cycles each latch and each unit counts once.
LEMMA FlowHolds ==
  ASSUME TypeInv, FlowInv, Boundary
  PROVE  pc = 4 * (total_instr_count + Cardinality(Waiting) + Cardinality(Working))
<1>1. /\ InWB = One(~ Idle(IR("WB"))) /\ InMEM = One(~ Idle(IR("MEM")))
      /\ InEXE = One(~ Idle(IR("EXE"))) /\ InID = One(~ Idle(IR("ID")))
  BY DEF Boundary, InWB, InMEM, InEXE, InID, One
<1> DEFINE W(s) == {t \in {s} : ~ Idle(IR(t))}
<1>2. \A s : IsFiniteSet(W(s)) /\ Cardinality(W(s)) = One(~ Idle(IR(s)))
  <2>1. SUFFICES ASSUME NEW s
                 PROVE  IsFiniteSet(W(s)) /\ Cardinality(W(s)) = One(~ Idle(IR(s)))
    OBVIOUS
  <2>2. CASE Idle(IR(s))
    <3>1. W(s) = {}
      BY <2>2
    <3> QED
      BY <2>2, <3>1, FS_EmptySet DEF One
  <2>3. CASE ~ Idle(IR(s))
    <3>1. W(s) = {s}
      BY <2>3
    <3> QED
      BY <2>3, <3>1, FS_Singleton DEF One
  <2> QED
    BY <2>2, <2>3
<1>3. \A s : W(s) \subseteq {s}
  OBVIOUS
<1>4. Waiting = ((W("WB") \cup W("MEM")) \cup W("EXE")) \cup W("ID")
  BY DEF Waiting
<1> HIDE DEF W
<1>5. /\ IsFiniteSet(W("WB") \cup W("MEM"))
      /\ Cardinality(W("WB") \cup W("MEM")) = InWB + InMEM
  <2>1. W("WB") \cap W("MEM") = {}
    BY <1>3
  <2> QED
    BY <1>1, <1>2, <2>1, ApartCount
<1>6. /\ IsFiniteSet((W("WB") \cup W("MEM")) \cup W("EXE"))
      /\ Cardinality((W("WB") \cup W("MEM")) \cup W("EXE")) = (InWB + InMEM) + InEXE
  <2>1. (W("WB") \cup W("MEM")) \cap W("EXE") = {}
    BY <1>3
  <2> QED
    BY <1>1, <1>2, <1>5, <2>1, ApartCount
<1>7. Cardinality(Waiting) = ((InWB + InMEM) + InEXE) + InID
  <2>1. ((W("WB") \cup W("MEM")) \cup W("EXE")) \cap W("ID") = {}
    BY <1>3
  <2> QED
    BY <1>1, <1>2, <1>4, <1>6, <2>1, ApartCount
<1>8. Latched = Cardinality(Waiting)
  BY <1>7 DEF Latched
<1> QED
  BY <1>8 DEF FlowInv, CountInv, Present

\* Between two cycles the program counter has passed the instructions that were
\* retired, those in the latches and those in the units, and no others: none is lost
\* or done twice, as long as no two units give their result in one cycle.
THEOREM NothingLost ==
  ProgramsGiven /\ UnitsGiven /\ WordsGiven /\ AddressesFit /\ KeepInstructions(Setups)
    => (Spec /\ []OneDone /\ ResetsAtEnd => []NoneLost)
<1> SUFFICES ASSUME ProgramsGiven /\ UnitsGiven /\ WordsGiven /\ AddressesFit
                      /\ KeepInstructions(Setups)
             PROVE  Spec /\ []OneDone /\ ResetsAtEnd => []NoneLost
  OBVIOUS
<1>1. Init => TypeInv /\ FlowInv
  BY InitTypes, InitFlow
<1>2. TypeInv /\ FlowInv /\ OneDone /\ [Next]_vars /\ [Reset => Ended]_vars
        => TypeInv' /\ FlowInv'
  <2> SUFFICES ASSUME TypeInv, FlowInv, OneDone, [Next]_vars, [Reset => Ended]_vars
               PROVE  TypeInv' /\ FlowInv'
    OBVIOUS
  <2>1. TypeInv'
    BY NextTypes
  <2>2. CASE Step \/ (\E n \in Calls : Run(n)) \/ UNCHANGED vars
    <3>1. Calm /\ Access /\ NotTaken /\ EndSeen /\ NoTwins /\ Gone /\ Place /\ CountInv
      BY DEF FlowInv, Calm
    <3>2. Move
      BY <2>2, <3>1, StepMoves
    <3>3. CleanStart(Setups)
      BY DEF KeepInstructions
    <3>4. Calm'
      BY <3>1, <3>2, <3>3, CalmMove
    <3>5. NoTwins' /\ Gone' /\ Place'
      BY <3>1, <3>2, NoTwinsMove, GoneMove, PlaceMove
    <3>6. CountInv'
      BY <2>1, <3>1, <3>2, <3>3, CountMove
    <3> QED
      BY <3>4, <3>5, <3>6, <2>1 DEF FlowInv
  <2>3. CASE Reset /\ ~ UNCHANGED vars
    <3>1. Ended
      BY <2>3
    <3> QED
      BY <2>1, <2>3, <3>1, ResetFlow
  <2> QED
    BY <2>2, <2>3 DEF Next
<1>3. TypeInv /\ FlowInv => NoneLost
  BY FlowHolds DEF NoneLost
<1> QED
  BY <1>1, <1>2, <1>3, PTL DEF Spec, ResetsAtEnd

-----------------------------------------------------------------------------
(* Operations read finished operands: where the instructions in flight stand *)

\* What the latches of WB and MEM, the latch of EXE and the units hold: 0, -1, -2 and
\* the numbers of the units.  A stage that was called has handed its instruction on.
Contents == [q \in {-2, -1, 0} \cup DOMAIN exec_units |->
  CASE q = 0  -> IF phase = "memory" THEN Blank("NOP") ELSE IR("WB")
    [] q = -1 -> IF phase = "execute" /\ ~ InStall("MEM") THEN Blank("NOP") ELSE IR("MEM")
    [] q = -2 -> IR("EXE")
    [] OTHER  -> exec_units[q].instruction]

\* The places behind EXE.
Slots == {-1, 0} \cup DOMAIN exec_units

\* How many instructions were fetched, and how many have left EXE.
Fetches == pc \div 4
Passed  == Fetches - InID - InEXE

Counter == \E n \in 0 .. PROGRAM_SIZE : pc = 4 * n

\* ID and EXE hold the last ones that were fetched,
Front ==
  /\ Passed >= 0
  /\ InID = 1 => Fetches - 1 \in DOMAIN prog /\ IR("ID") = prog[Fetches - 1]
  /\ InEXE = 1 => Passed \in DOMAIN prog /\ IR("EXE") = prog[Passed]

\* and the places behind them earlier ones, each another one; none of them awaits
\* an earlier one.
Apart ==
  \A q, r \in Slots : ~ Idle(Contents[q]) /\ ~ Idle(Contents[r]) =>
    \E k, l \in DOMAIN prog :
      /\ k < Passed /\ l < Passed
      /\ prog[k] = Contents[q] /\ prog[l] = Contents[r]
      /\ q # r => k # l /\ (l < k => ~ Awaits(Contents[q], Contents[r]))

\* Loads leave the unit they enter.
NoLoads ==
  \A u \in DOMAIN exec_units :
    /\ exec_units[u].type = "INTEGER" => exec_units[u].delayed = 0
    /\ exec_units[u].instruction.opcode # "LWS"

\* Fetch waits behind branches only,
IfStall == InStall("IF") => Fetches > 0 /\ StallsFetch(Instr(Fetches - 1))

\* so that it finds the instruction before in ID or, once that has been called, in EXE.
Last ==
  Fetches > 0 /\ ~ end /\ ~ StallsFetch(Instr(Fetches - 1)) =>
    IF phase = "fetch" /\ ~ Held THEN ~ Idle(IR("EXE")) ELSE ~ Idle(IR("ID"))

\* ID waits for what its instruction awaits, and the one in EXE awaits nothing.
Waits ==
  InID = 1 =>
    \A q \in Slots \cup {-2} : (q = -2 => InEXE = 1) /\ Awaits(IR("ID"), Contents[q]) =>
      InStall("ID") /\ stall["ID"].hazard_type = "RAW" /\ stall["ID"].reg = Contents[q].dest

Ready == InEXE = 1 => \A q \in Slots : ~ Awaits(IR("EXE"), Contents[q])

LEMMA ContentsAre ==
  ASSUME TypeInv, DOMAIN exec_units' = DOMAIN exec_units
  PROVE  /\ Slots' = Slots /\ -1 \in Slots /\ 0 \in Slots /\ -2 \notin Slots
         /\ \A u \in DOMAIN exec_units : u \in Slots /\ u # 0 /\ u # -1
         /\ \A q \in Slots : q = 0 \/ q = -1 \/ q \in DOMAIN exec_units
         /\ Contents[0] = IF phase = "memory" THEN Blank("NOP") ELSE IR("WB")
         /\ Contents[-1] = IF phase = "execute" /\ ~ InStall("MEM") THEN Blank("NOP")
                           ELSE IR("MEM")
         /\ Contents[-2] = IR("EXE")
         /\ \A u \in DOMAIN exec_units : Contents[u] = exec_units[u].instruction
         /\ Contents'[0] = IF phase' = "memory" THEN Blank("NOP") ELSE latch'["WB"].ir
         /\ Contents'[-1] = IF phase' = "execute" /\ ~ stall'["MEM"].in_stall
                            THEN Blank("NOP") ELSE latch'["MEM"].ir
         /\ Contents'[-2] = latch'["EXE"].ir
         /\ \A u \in DOMAIN exec_units : Contents'[u] = exec_units'[u].instruction
<1>1. PICK n \in Nat : DOMAIN exec_units = 1 .. n
  BY DEF TypeInv, Table
<1>2. \A u \in DOMAIN exec_units : u # 0 /\ u # -1 /\ u # -2
  BY <1>1
<1>3. /\ Slots' = Slots /\ -1 \in Slots /\ 0 \in Slots /\ -2 \notin Slots
      /\ \A u \in DOMAIN exec_units : u \in Slots
      /\ \A q \in Slots : q = 0 \/ q = -1 \/ q \in DOMAIN exec_units
  BY <1>2 DEF Slots
<1>4. /\ Contents[0] = IF phase = "memory" THEN Blank("NOP") ELSE IR("WB")
      /\ Contents[-1] = IF phase = "execute" /\ ~ InStall("MEM") THEN Blank("NOP")
                        ELSE IR("MEM")
      /\ Contents[-2] = IR("EXE")
      /\ \A u \in DOMAIN exec_units : Contents[u] = exec_units[u].instruction
  BY <1>2 DEF Contents
<1>5. /\ Contents'[0] = IF phase' = "memory" THEN Blank("NOP") ELSE latch'["WB"].ir
      /\ Contents'[-1] = IF phase' = "execute" /\ ~ stall'["MEM"].in_stall
                         THEN Blank("NOP") ELSE latch'["MEM"].ir
      /\ Contents'[-2] = latch'["EXE"].ir
      /\ \A u \in DOMAIN exec_units : Contents'[u] = exec_units'[u].instruction
  BY <1>2 DEF Contents, IR, InStall
<1> QED
  BY <1>2, <1>3, <1>4, <1>5

\* The instructions behind EXE have come from the places in from.
Carried(from) ==
  \E o \in [Slots -> from] : \A q \in Slots : ~ Idle(Contents'[q]) =>
    /\ Contents'[q] = Contents[o[q]]
    /\ \A r \in Slots : ~ Idle(Contents'[r]) /\ q # r => o[q] # o[r]

\* A stage but that of EXE moves instructions from one place to the next at most.
LEMMA KeptPlaces ==
  ASSUME TypeInv,
         \/ WritebackMove \/ MemoryMove \/ DecodeMove \/ FetchMove \/ RestMove
         \/ ExecuteMove /\ InStall("MEM")
  PROVE  /\ DOMAIN exec_units' = DOMAIN exec_units
         /\ Carried(Slots)
<1>1. /\ DOMAIN exec_units' = DOMAIN exec_units
      /\ \A u \in DOMAIN exec_units : exec_units'[u].instruction = exec_units[u].instruction
  BY DEF WritebackMove, MemoryMove, DecodeMove, FetchMove, RestMove, ExecuteMove
<1>2. Idle(Blank("NOP")) /\ Idle(Bubble.ir)
  BY BlankNop DEF Bubble, Clean, Idle
<1>3. \A u \in DOMAIN exec_units : Contents'[u] = Contents[u]
  BY <1>1, ContentsAre
<1>4. CASE \A q \in Slots : ~ Idle(Contents'[q]) => Contents'[q] = Contents[q]
  <2> DEFINE o == [q \in Slots |-> q]
  <2>1. o \in [Slots -> Slots] /\ \A q \in Slots : o[q] = q
    OBVIOUS
  <2> HIDE DEF o
  <2> QED
    BY <1>1, <1>4, <2>1 DEF Carried
<1>5. CASE MemoryMove /\ ~ stall'["MEM"].in_stall
  <2> DEFINE o == [q \in Slots |-> IF q = 0 THEN -1 ELSE q]
  <2>1. o \in [Slots -> Slots] /\ \A q \in Slots : o[q] = IF q = 0 THEN -1 ELSE q
    BY <1>1, ContentsAre
  <2>2. phase = "memory" /\ phase' = "execute" /\ latch'["WB"].ir = IR("MEM")
    BY <1>5 DEF MemoryMove
  <2>3. Contents[-1] = IR("MEM") /\ Contents'[0] = IR("MEM") /\ Idle(Contents'[-1])
    BY <1>1, <1>2, <1>5, <2>2, ContentsAre
  <2>4. \A q \in Slots : q = 0 \/ q = -1 \/ q \in DOMAIN exec_units
    BY <1>1, ContentsAre
  <2> HIDE DEF o
  <2> QED
    BY <1>1, <1>3, <2>1, <2>3, <2>4 DEF Carried
<1>6. CASE ~ (MemoryMove /\ ~ stall'["MEM"].in_stall)
  <2>1. ~ Idle(Contents'[0]) => Contents'[0] = Contents[0]
    BY <1>1, <1>2, <1>6, ContentsAre
    DEF WritebackMove, MemoryMove, DecodeMove, FetchMove, RestMove, ExecuteMove, IR
  <2>2. ~ Idle(Contents'[-1]) => Contents'[-1] = Contents[-1]
    BY <1>1, <1>2, <1>6, ContentsAre
    DEF WritebackMove, MemoryMove, DecodeMove, FetchMove, RestMove, ExecuteMove, IR, InStall
  <2> QED
    BY <1>1, <1>3, <1>4, <2>1, <2>2, ContentsAre
<1> QED
  BY <1>5, <1>6

\* EXE hands its instruction to a unit, and a unit to MEM.
LEMMA ExecutePlaces ==
  ASSUME WordsGiven, TypeInv, ExecuteMove, ~ InStall("MEM")
  PROVE  /\ DOMAIN exec_units' = DOMAIN exec_units
         /\ \E o \in [Slots -> Slots \cup {-2}] :
              \A q \in Slots : ~ Idle(Contents'[q]) =>
                /\ Contents'[q] = Contents[o[q]]
                /\ o[q] = -2 => ~ Idle(IR("EXE"))
                /\ \A r \in Slots : ~ Idle(Contents'[r]) /\ q # r => o[q] # o[r]
<1>1. /\ DOMAIN exec_units' = DOMAIN exec_units /\ DOMAIN Taking = DOMAIN exec_units
      /\ phase = "execute" /\ phase' = "decode"
      /\ latch'["WB"] = latch["WB"] /\ ~ stall'["MEM"].in_stall
  BY TakingIs DEF ExecuteMove
<1> DEFINE from(u) == IF ~ Idle(IR("EXE")) /\ u = Taker THEN -2 ELSE u
<1>2. \A u \in DOMAIN exec_units : /\ Taking[u].instruction = Contents[from(u)]
                                   /\ from(u) \in Slots \cup {-2}
                                   /\ from(u) = -2 => ~ Idle(IR("EXE"))
                                   /\ from(u) # 0 /\ from(u) # -1
  <2>1. SUFFICES ASSUME NEW u \in DOMAIN exec_units
                 PROVE  /\ Taking[u].instruction = Contents[from(u)]
                        /\ from(u) \in Slots \cup {-2}
                        /\ from(u) = -2 => ~ Idle(IR("EXE"))
                        /\ from(u) # 0 /\ from(u) # -1
    OBVIOUS
  <2>2. /\ u \in Slots /\ u # 0 /\ u # -1 /\ u # -2
        /\ Contents[u] = exec_units[u].instruction /\ Contents[-2] = IR("EXE")
    BY <1>1, ContentsAre
  <2>3. CASE ~ Idle(IR("EXE")) /\ u = Taker
    <3>1. Taking[u].instruction = IR("EXE")
      BY <2>3, TakingIs
    <3> HIDE DEF Taking, Taker
    <3> QED
      BY <2>2, <2>3, <3>1
  <2>4. CASE ~ (~ Idle(IR("EXE")) /\ u = Taker)
    <3>1. Taking[u] = exec_units[u]
      BY <2>4, TakingIs
    <3> HIDE DEF Taking, Taker
    <3> QED
      BY <2>2, <2>4, <3>1
  <2> QED
    BY <2>3, <2>4
<1>3. \A u, v \in DOMAIN exec_units : u # v => from(u) # from(v)
  <2>1. \A u \in DOMAIN exec_units : u # -2
    BY <1>1, ContentsAre
  <2> QED
    BY <2>1
<1>4. \A u \in DOMAIN exec_units : ~ Idle(Contents'[u]) =>
        Contents'[u] = Contents[from(u)] /\ u \notin Done(Taking)
  <2>1. SUFFICES ASSUME NEW u \in DOMAIN exec_units, ~ Idle(Contents'[u])
                 PROVE  Contents'[u] = Contents[from(u)] /\ u \notin Done(Taking)
    OBVIOUS
  <2>2. Contents'[u] = exec_units'[u].instruction
    BY <1>1, ContentsAre
  <2>3. u \notin Done(Taking)
    BY <2>1, <2>2, TakingIs, BlankNop DEF Idle
  <2>4. exec_units'[u].instruction = Taking[u].instruction
    BY <2>3, TakingIs
  <2> QED
    BY <1>2, <2>2, <2>3, <2>4
<1>5. /\ 0 \in Slots /\ -1 \in Slots
      /\ \A q \in Slots : q = 0 \/ q = -1 \/ q \in DOMAIN exec_units
      /\ \A u \in DOMAIN exec_units : u \in Slots /\ u # 0 /\ u # -1
      /\ Contents'[0] = Contents[0]
      /\ Contents'[-1] = latch'["MEM"].ir
  BY <1>1, ContentsAre DEF IR
<1> HIDE DEF from
<1>6. CASE Done(Taking) = {}
  <2>1. Idle(Contents'[-1])
    BY <1>5, <1>6 DEF ExecuteMove
  <2> DEFINE o == [q \in Slots |-> IF q \in DOMAIN exec_units THEN from(q) ELSE q]
  <2>2. /\ o \in [Slots -> Slots \cup {-2}]
        /\ \A q \in Slots : o[q] = IF q \in DOMAIN exec_units THEN from(q) ELSE q
    BY <1>2, <1>5
  <2> HIDE DEF o
  <2>3. \A q \in Slots : ~ Idle(Contents'[q]) =>
          /\ Contents'[q] = Contents[o[q]]
          /\ o[q] = -2 => ~ Idle(IR("EXE"))
          /\ \A r \in Slots : ~ Idle(Contents'[r]) /\ q # r => o[q] # o[r]
    BY <1>2, <1>3, <1>4, <1>5, <2>1, <2>2
  <2> QED
    BY <1>1, <2>2, <2>3
<1>7. CASE Done(Taking) # {}
  <2>1. PICK w \in DOMAIN exec_units :
               w \in Done(Taking) /\ latch'["MEM"].ir = Taking[w].instruction
    BY <1>7, LeftIs
  <2> DEFINE o == [q \in Slots |-> IF q \in DOMAIN exec_units THEN from(q)
                                   ELSE IF q = -1 THEN from(w) ELSE q]
  <2>2. /\ o \in [Slots -> Slots \cup {-2}]
        /\ \A q \in Slots : o[q] = IF q \in DOMAIN exec_units THEN from(q)
                                   ELSE IF q = -1 THEN from(w) ELSE q
    BY <1>2, <1>5
  <2>3. Contents'[-1] = Contents[from(w)]
    BY <1>2, <1>5, <2>1
  <2>4. \A u \in DOMAIN exec_units : ~ Idle(Contents'[u]) => u # w
    BY <1>4, <2>1
  <2> HIDE DEF o
  <2>5. \A q \in Slots : ~ Idle(Contents'[q]) =>
          /\ Contents'[q] = Contents[o[q]]
          /\ o[q] = -2 => ~ Idle(IR("EXE"))
          /\ \A r \in Slots : ~ Idle(Contents'[r]) /\ q # r => o[q] # o[r]
    BY <1>2, <1>3, <1>4, <1>5, <2>2, <2>3, <2>4
  <2> QED
    BY <1>1, <2>2, <2>5
<1> QED
  BY <1>6, <1>7

\* The stalls of IF and ID change in inst_writeback, inst_memory and inst_fetch.
LEMMA KeptStalls ==
  ASSUME TypeInv,
         \/ MemoryWait \/ MemoryPass \/ MemoryAccess
         \/ ExecuteWait \/ ExecutePass \/ ExecuteIssue
         \/ DecodeBlocked \/ DecodeStall \/ DecodeConflict \/ DecodePass \/ Decode
         \/ EndCycle \/ (\E n \in Calls : Run(n)) \/ UNCHANGED vars
  PROVE  /\ stall'["ID"] = stall["ID"]
         /\ stall'["IF"].in_stall => InStall("IF")
<1>1. CASE MemoryWait \/ MemoryPass \/ MemoryAccess
  <2>1. stall' = MemoryStall(IR("MEM")) /\ IR("MEM") \in Instruction
    BY <1>1, LatchWords DEF MemoryWait, MemoryPass, MemoryAccess, CheckMemory, IR, Stages
  <2> QED
    BY <2>1, MemoryStallIs
<1>2. CASE ExecuteWait \/ ExecutePass \/ ExecuteIssue
  <2>1. stall' = ExecuteStall(IR("EXE"))
    BY <1>2 DEF ExecuteWait, ExecutePass, ExecuteIssue, CheckExecute
  <2> QED
    BY <2>1, ExecuteStallIs DEF InStall
<1>3. CASE DecodeConflict \/ DecodePass \/ Decode
  <2>1. stall' = ExecuteStall(IR("ID"))
    BY <1>3 DEF DecodeConflict, DecodePass, Decode, CheckDecode
  <2> QED
    BY <2>1, ExecuteStallIs DEF InStall
<1>4. CASE DecodeBlocked \/ DecodeStall \/ EndCycle \/ (\E n \in Calls : Run(n)) \/ UNCHANGED vars
  <2>1. stall' = stall
    BY <1>4 DEF DecodeBlocked, DecodeStall, EndCycle, Run, vars
  <2> QED
    BY <2>1 DEF InStall
<1> QED
  BY <1>1, <1>2, <1>3, <1>4

\* What is in WB ends the wait for its register, and may start one for an instruction
\* that it awaits itself.
LEMMA WritebackStalls ==
  ASSUME TypeInv, WritebackNothing \/ WritebackEnd \/ Writeback
  PROVE  /\ stall'["IF"].in_stall => InStall("IF")
         /\ \/ stall'["ID"] = stall["ID"]
            \/ ~ Idle(IR("WB")) /\ stall["ID"].reg = IR("WB").dest
            \/ \E s \in {"EXE", "MEM", "WB"} :
                 /\ Awaits(IR("WB"), IR(s))
                 /\ stall'["ID"] = Raised("RAW", IR(s).dest)
<1>1. CASE WritebackNothing \/ WritebackEnd
  <2>1. stall' = stall
    BY <1>1 DEF WritebackNothing, WritebackEnd
  <2> QED
    BY <2>1 DEF InStall
<1>2. CASE Writeback
  <2> DEFINE i == IR("WB")
             lowered == [s \in Stages |->
               IF stall[s].reg = i.dest /\ stall[s].hazard_type = "RAW" /\ InStall(s)
               THEN [stall[s] EXCEPT !.in_stall = FALSE, !.reg = UNDEFINED] ELSE stall[s]]
  <2>1. stall' = WritebackStall(i) /\ ~ Idle(i)
    BY <1>2 DEF Writeback
  <2>2. /\ WritebackStall(i) = RawStall(lowered, i)
        /\ lowered \in [Stages -> StallType]
        /\ lowered["IF"].in_stall => InStall("IF")
        /\ WritebackStall(i)["IF"] = lowered["IF"]
    BY WritebackStallIs DEF Stages
  <2>3. lowered["ID"] = stall["ID"] \/ stall["ID"].reg = i.dest
    BY DEF Stages
  <2> HIDE DEF lowered
  <2>4. \/ RawStall(lowered, i) = lowered
        \/ \E s \in {"EXE", "MEM", "WB"} :
             Awaits(i, IR(s)) /\ RawStall(lowered, i)["ID"] = Raised("RAW", IR(s).dest)
    BY <2>2, RawStallIs
  <2> QED
    BY <2>1, <2>2, <2>3, <2>4
<1> QED
  BY <1>1, <1>2

\* Fetch looks for what its instruction awaits.
LEMMA FetchStalls ==
  ASSUME ProgramsGiven, TypeInv,
         FetchNothing \/ FetchHeld \/ FetchStall \/ FetchEnd \/ Fetch
  PROVE  \/ /\ stall' = stall /\ latch' = latch /\ pc' = pc /\ end' = end
            /\ Held \/ end \/ ~ (FetchPC \div 4 <= PROGRAM_SIZE)
         \/ /\ ~ Held /\ InStall("IF") /\ stall'["IF"] = stall["IF"]
            /\ latch'["ID"] = Bubble /\ pc' = pc
         \/ /\ ~ Held /\ stall' = stall
            /\ latch'["ID"].ir.opcode = "EOP" /\ pc' = pc /\ end'
         \/ /\ ~ Held /\ ~ end /\ end' = end
            /\ latch'["ID"].ir = Fetched /\ Fetched.opcode # "EOP"
            /\ pc' = Wrap(FetchPC + 4)
            /\ stall'["IF"].in_stall => StallsFetch(Fetched)
            /\ \/ \A s \in {"EXE", "MEM", "WB"} : ~ Awaits(Fetched, IR(s))
               \/ \E s \in {"EXE", "MEM", "WB"} :
                    /\ Awaits(Fetched, IR(s))
                    /\ stall'["ID"] = Raised("RAW", IR(s).dest)
<1>1. /\ latch \in [Stages -> LatchRecord] /\ stall \in [Stages -> StallType]
      /\ Fetched \in Instruction
  BY InstrIs DEF TypeInv, Fetched
<1> DEFINE raw == RawStall(stall, Fetched)
<1>2. /\ raw \in [Stages -> StallType] /\ raw["IF"] = stall["IF"]
      /\ \/ \A s \in {"EXE", "MEM", "WB"} : ~ Awaits(Fetched, IR(s))
         \/ \E s \in {"EXE", "MEM", "WB"} :
              Awaits(Fetched, IR(s)) /\ raw["ID"] = Raised("RAW", IR(s).dest)
  BY <1>1, RawStallIs DEF Stages
<1>3. /\ ControlStall(raw, Fetched)["ID"] = raw["ID"]
      /\ ControlStall(raw, Fetched)["IF"].in_stall => raw["IF"].in_stall \/ StallsFetch(Fetched)
  BY <1>1, <1>2, ControlStallIs DEF Stages
<1>4. \A w : [Clean(Fetched) EXCEPT !.NPC = w].ir = Fetched
  BY DEF Clean
<1> HIDE DEF raw
<1> USE DEF Stages
<1>5. CASE FetchNothing
  BY <1>5 DEF FetchNothing, InProgram
<1>6. CASE FetchHeld
  BY <1>6 DEF FetchHeld
<1>7. CASE FetchStall
  BY <1>1, <1>2, <1>7 DEF FetchStall, raw
<1>8. CASE FetchEnd
  BY <1>1, <1>4, <1>8 DEF FetchEnd
<1>9. CASE Fetch
  <2>1. /\ ~ Held /\ ~ end /\ end' = end /\ ~ InStall("IF") /\ Fetched.opcode # "EOP"
        /\ latch'["ID"].ir = Fetched /\ pc' = Wrap(FetchPC + 4)
        /\ stall' = ControlStall(raw, Fetched)
    BY <1>1, <1>4, <1>9 DEF Fetch, InProgram, raw
  <2> HIDE DEF Fetched, FetchPC, Held, Stages
  <2> QED
    BY <1>2, <1>3, <2>1 DEF InStall
<1> QED
  BY <1>5, <1>6, <1>7, <1>8, <1>9

\* The next instruction of the program, and the address after it.
LEMMA NextFetch ==
  ASSUME ProgramsGiven, CleanStart(Setups), AddressesFit, TypeInv, NotTaken, Counter
  PROVE  /\ Fetches \in 0 .. PROGRAM_SIZE /\ pc = 4 * Fetches
         /\ FetchPC \div 4 <= PROGRAM_SIZE
         /\ Fetched.opcode # "EOP" =>
              /\ Fetches \in DOMAIN prog /\ Fetched = prog[Fetches] /\ ~ Idle(Fetched)
              /\ Wrap(FetchPC + 4) = 4 * (Fetches + 1) /\ Fetches + 1 \in 0 .. PROGRAM_SIZE
<1>1. PICK n \in 0 .. PROGRAM_SIZE : pc = 4 * n
  BY DEF Counter
<1>2. n \in Nat /\ n <= PROGRAM_SIZE
  BY <1>1 DEF PROGRAM_SIZE
<1>3. pc \div 4 = n
  BY <1>1, <1>2
<1>4. FetchPC = pc
  BY DEF FetchPC, NotTaken, Stages
<1>5. ASSUME Fetched.opcode # "EOP"
      PROVE  /\ n \in DOMAIN prog /\ Fetched = prog[n] /\ ~ Idle(Fetched)
             /\ Wrap(FetchPC + 4) = 4 * (n + 1) /\ n + 1 \in 0 .. PROGRAM_SIZE
  <2>1. n \in 0 .. PROGRAM_SIZE - 1 /\ ~ Idle(Fetched)
    BY <1>3, <1>4, <1>5, FetchedIs DEF Idle
  <2>2. n \in DOMAIN prog /\ Fetched = prog[n]
    BY <1>3, <1>4, <1>5, InstrIs, BlankEop DEF Fetched
  <2>3. pc + 4 = 4 * (n + 1) /\ pc + 4 <= 4 * PROGRAM_SIZE
    BY <1>1, <1>2, <2>1 DEF PROGRAM_SIZE
  <2>4. pc + 4 \in Nat /\ pc + 4 < WordSize
    BY <1>1, <1>2, <2>3, SizeGiven DEF AddressesFit, PROGRAM_SIZE
  <2>5. Wrap(pc + 4) = pc + 4
    BY <2>4, SmallWraps
  <2> QED
    BY <1>2, <1>4, <2>1, <2>2, <2>3, <2>5 DEF PROGRAM_SIZE
<1> QED
  BY <1>1, <1>3, <1>4, <1>5 DEF Fetches, PROGRAM_SIZE

\* The ways the front of the pipeline moves: not at all; EXE hands its instruction to
\* a unit; ID to EXE; and fetch finds one.
Stays ==
  /\ pc' = pc /\ InID' = InID /\ InEXE' = InEXE
  /\ InID = 1 => latch'["ID"].ir = IR("ID")
  /\ InEXE = 1 => latch'["EXE"].ir = IR("EXE")
  /\ \/ WritebackMove \/ MemoryMove \/ DecodeMove \/ FetchMove \/ RestMove
     \/ ExecuteMove /\ InStall("MEM")

Issues ==
  /\ ExecuteMove /\ ~ InStall("MEM")
  /\ pc' = pc /\ InID' = InID /\ InEXE' = 0 /\ latch'["ID"].ir = IR("ID")

Decodes ==
  /\ DecodeMove /\ ~ Held'
  /\ pc' = pc /\ InID = 1 /\ InEXE = 0 /\ InID' = 0 /\ InEXE' = 1
  /\ latch'["EXE"].ir = IR("ID")

Enters ==
  /\ FetchMove /\ ~ Held
  /\ InID = 0 /\ InID' = 1 /\ InEXE' = InEXE /\ latch'["EXE"].ir = IR("EXE")
  /\ latch'["ID"].ir = Fetched /\ Fetched.opcode # "EOP" /\ pc' = Wrap(FetchPC + 4)

LEMMA FrontMoves ==
  ASSUME ProgramsGiven, CleanStart(Setups), AddressesFit, TypeInv, NotTaken, EndSeen,
         Counter, Move
  PROVE  Stays \/ Issues \/ Decodes \/ Enters
<1>1. CASE \/ WritebackMove \/ MemoryMove \/ RestMove
           \/ ExecuteMove /\ InStall("MEM")
  <2>1. CASE WritebackMove
    BY <2>1 DEF WritebackMove, Stays, InID, InEXE, IR, Idle, InStall
  <2>2. CASE MemoryMove
    <3>1. latch'["ID"] = latch["ID"] /\ latch'["EXE"] = latch["EXE"]
      BY <2>2 DEF MemoryMove
    <3> QED
      BY <2>2, <3>1 DEF MemoryMove, Stays, InID, InEXE, IR, Idle
  <2>3. CASE RestMove
    <3>1. Held' = Held /\ InStall("MEM")' = InStall("MEM")
      BY <2>3 DEF RestMove, Held, InStall
    <3> QED
      BY <2>3, <3>1 DEF RestMove, Stays, InID, InEXE, IR, Idle
  <2>4. CASE ExecuteMove /\ InStall("MEM")
    BY <2>4 DEF ExecuteMove, Stays, InID, InEXE, IR, Idle, InStall
  <2> QED
    BY <1>1, <2>1, <2>2, <2>3, <2>4
<1>2. CASE ExecuteMove /\ ~ InStall("MEM")
  <2>1. latch'["ID"] = latch["ID"] /\ phase = "execute" /\ phase' = "decode" /\ pc' = pc
        /\ ~ stall'["MEM"].in_stall
    BY <1>2 DEF ExecuteMove
  <2>2. InID' = InID /\ InEXE' = 0
    BY <2>1 DEF InID, InEXE, IR, Idle, InStall, One
  <2> QED
    BY <1>2, <2>1, <2>2 DEF Issues, IR
<1>3. CASE DecodeMove
  <2>1. /\ latch'["ID"] = latch["ID"] /\ phase = "decode" /\ phase' = "fetch" /\ pc' = pc
        /\ stall'["MEM"].in_stall <=> InStall("MEM")
    BY <1>3 DEF DecodeMove
  <2>2. CASE InStall("MEM")
    <3>1. latch' = latch /\ Held'
      BY <1>3, <2>2 DEF DecodeMove
    <3> QED
      BY <1>3, <2>1, <2>2, <3>1 DEF Stays, InID, InEXE, IR, Idle
  <2>3. CASE ~ InStall("MEM")
    <3>1. InID = One(~ Idle(IR("ID"))) /\ InEXE = 0
      BY <2>1, <2>3 DEF InID, InEXE, One
    <3>2. CASE latch'["EXE"] = Bubble /\ Held'
      <4>1. Idle(Bubble.ir)
        BY DEF Bubble, Clean, Blank, Idle
      <4>2. InID' = InID /\ InEXE' = 0
        BY <2>1, <3>1, <3>2, <4>1 DEF InID, InEXE, IR, Idle, One
      <4> QED
        BY <1>3, <2>1, <3>1, <4>2 DEF Stays, IR
    <3>3. CASE latch'["EXE"].ir = IR("ID") /\ ~ Held'
      <4>1. InID' = 0 /\ InEXE' = One(~ Idle(IR("ID")))
        BY <2>1, <3>3 DEF InID, InEXE, IR, Idle, One
      <4>2. CASE Idle(IR("ID"))
        BY <1>3, <2>1, <3>1, <4>1, <4>2 DEF Stays, One
      <4>3. CASE ~ Idle(IR("ID"))
        BY <1>3, <2>1, <3>1, <3>3, <4>1, <4>3 DEF Decodes, One
      <4> QED
        BY <4>2, <4>3
    <3> QED
      BY <1>3, <2>3, <3>2, <3>3 DEF DecodeMove
  <2> QED
    BY <2>2, <2>3
<1>4. CASE FetchMove
  <2>1. /\ phase = "fetch" /\ phase' = "units" /\ latch'["EXE"] = latch["EXE"]
    BY <1>4 DEF FetchMove
  <2>2. /\ InID = One(Held /\ ~ Idle(IR("ID"))) /\ InID' = One(~ Idle(latch'["ID"].ir))
        /\ InEXE' = InEXE
    BY <2>1 DEF InID, InEXE, IR, Idle, One
  <2>3. FetchPC \div 4 <= PROGRAM_SIZE
    BY NextFetch
  <2>4. CASE /\ latch' = latch /\ pc' = pc
             /\ Held \/ end \/ ~ (FetchPC \div 4 <= PROGRAM_SIZE)
    <3>1. Held \/ Idle(IR("ID"))
      BY <2>3, <2>4 DEF EndSeen, Idle
    <3>2. InID' = InID
      BY <2>2, <2>4, <3>1 DEF One, IR
    <3> QED
      BY <1>4, <2>2, <2>4, <3>2 DEF Stays, IR
  <2>5. CASE ~ Held /\ Idle(latch'["ID"].ir) /\ pc' = pc
    <3>1. InID' = 0 /\ InID = 0
      BY <2>2, <2>5 DEF One
    <3> QED
      BY <1>4, <2>1, <2>2, <2>5, <3>1 DEF Stays, IR
  <2>6. CASE /\ ~ Held /\ latch'["ID"].ir = Fetched /\ Fetched.opcode # "EOP"
             /\ pc' = Wrap(FetchPC + 4)
    <3>1. ~ Idle(Fetched)
      BY <2>6, NextFetch
    <3>2. InID' = 1 /\ InID = 0
      BY <2>2, <2>6, <3>1 DEF One
    <3> QED
      BY <1>4, <2>1, <2>2, <2>6, <3>2 DEF Enters, IR
  <2>7. Idle(Bubble.ir)
    BY DEF Bubble, Clean, Blank, Idle
  <2> QED
    BY <1>4, <2>4, <2>5, <2>6, <2>7 DEF FetchMove, Idle
<1> QED
  BY <1>1, <1>2, <1>3, <1>4 DEF Move

LEMMA FrontMove ==
  ASSUME ProgramsGiven, CleanStart(Setups), AddressesFit, TypeInv, NotTaken, EndSeen,
         Counter, Front, Move
  PROVE  /\ Counter' /\ Front'
         /\ Passed \in Int
         /\ Issues => Passed' = Passed + InEXE
         /\ ~ Issues => Passed' = Passed
<1>1. /\ InID \in {0, 1} /\ InEXE \in {0, 1} /\ InID' \in {0, 1} /\ InEXE' \in {0, 1}
  BY DEF InID, InEXE, One
<1>2. /\ Fetches \in 0 .. PROGRAM_SIZE /\ Fetches \in Int /\ prog' = prog
  BY NextFetch DEF PROGRAM_SIZE, Move, WritebackMove, MemoryMove, ExecuteMove, DecodeMove,
                   FetchMove, RestMove
<1>3. /\ Passed = Fetches - InID - InEXE
      /\ Passed' = Fetches' - InID' - InEXE'
  BY DEF Passed
<1>6. Passed \in Int
  BY <1>1, <1>2, <1>3
<1>4. CASE pc' = pc
  <2>1. Fetches' = Fetches /\ Counter'
    BY <1>4 DEF Fetches, Counter
  <2>2. CASE Stays
    <3>1. ~ Issues /\ Passed' = Passed
      BY <1>3, <2>1, <2>2 DEF Stays, Issues, WritebackMove, MemoryMove, DecodeMove, FetchMove,
                              RestMove, ExecuteMove
    <3>2. Front'
      BY <1>2, <2>1, <2>2, <3>1 DEF Stays, Front, IR
    <3> QED
      BY <1>6, <2>1, <3>1, <3>2
  <2>3. CASE Issues
    <3>1. Passed' = Passed + InEXE
      BY <1>1, <1>2, <1>3, <2>1, <2>3 DEF Issues
    <3>2. Front'
      BY <1>1, <1>2, <1>3, <2>1, <2>3, <3>1 DEF Issues, Front, IR
    <3> QED
      BY <1>6, <2>1, <2>3, <3>1, <3>2
  <2>4. CASE Decodes
    <3>1. ~ Issues /\ Passed' = Fetches - 1 /\ Passed = Fetches - 1
      BY <1>1, <1>2, <1>3, <2>1, <2>4 DEF Decodes, Issues, DecodeMove, ExecuteMove
    <3>2. Front'
      BY <1>1, <1>2, <2>1, <2>4, <3>1 DEF Decodes, Front, IR
    <3> QED
      BY <1>6, <2>1, <3>1, <3>2
  <2>5. ~ Enters
    <3>1. pc = 4 * Fetches /\ Fetches \in Nat
      BY NextFetch DEF PROGRAM_SIZE
    <3>2. Enters => pc' = 4 * (Fetches + 1)
      BY NextFetch DEF Enters
    <3> QED
      BY <1>4, <3>1, <3>2
  <2> QED
    BY <2>2, <2>3, <2>4, <2>5, FrontMoves
<1>5. CASE Enters
  <2>1. /\ pc' = 4 * (Fetches + 1) /\ Fetches + 1 \in 0 .. PROGRAM_SIZE
        /\ Fetches \in DOMAIN prog /\ Fetched = prog[Fetches]
    BY <1>5, NextFetch DEF Enters
  <2>2. Counter'
    BY <2>1 DEF Counter
  <2>3. Fetches' = Fetches + 1
    BY <1>2, <2>1 DEF Fetches
  <2>4. ~ Issues /\ Passed' = Passed
    BY <1>1, <1>2, <1>3, <1>5, <2>3 DEF Enters, Issues, FetchMove, ExecuteMove
  <2>5. Fetches' - 1 = Fetches
    BY <1>2, <2>3
  <2>6. Front'
    BY <1>2, <1>5, <2>1, <2>4, <2>5 DEF Enters, Front, IR
  <2> QED
    BY <1>6, <2>2, <2>4, <2>6
<1> QED
  BY <1>4, <1>5, FrontMoves DEF Stays, Issues, Decodes

\* A load takes the unit of the kind that is done at once.
LEMMA NoLoadsMove ==
  ASSUME WordsGiven, TypeInv, NoLoads, Move
  PROVE  NoLoads'
<1>1. CASE \/ WritebackMove \/ MemoryMove \/ DecodeMove \/ FetchMove
           \/ ExecuteMove /\ InStall("MEM")
  <2>1. exec_units' = exec_units
    BY <1>1 DEF WritebackMove, MemoryMove, DecodeMove, FetchMove, ExecuteMove
  <2> QED
    BY <2>1 DEF NoLoads
<1>2. CASE RestMove
  BY <1>2 DEF RestMove, NoLoads
<1>3. CASE ExecuteMove /\ ~ InStall("MEM")
  <2>1. \A u \in DOMAIN exec_units : Taking[u].instruction.opcode = "LWS" => u \in Done(Taking)
    <3>1. SUFFICES ASSUME NEW u \in DOMAIN exec_units, Taking[u].instruction.opcode = "LWS"
                   PROVE  u \in Done(Taking)
      OBVIOUS
    <3>2. /\ ~ Idle(IR("EXE")) /\ u = Taker /\ Taking[u].instruction = IR("EXE")
      BY <1>3, <3>1, TakingIs DEF NoLoads
    <3>3. /\ exec_units[u].type = UnitFor(IR("EXE").opcode)
          /\ Taking[u].busy = exec_units[u].delayed
      BY <1>3, <3>2, TakingIs
    <3>4. UnitFor("LWS") = "INTEGER"
      BY DEF UnitFor
    <3>5. Taking[u].busy = 0
      BY <3>1, <3>2, <3>3, <3>4 DEF NoLoads
    <3>6. DOMAIN Taking = DOMAIN exec_units
      BY <1>3 DEF ExecuteMove
    <3> HIDE DEF Taking
    <3> QED
      BY <3>1, <3>5, <3>6 DEF Done
  <2>2. \A u \in DOMAIN exec_units :
          /\ exec_units'[u].type = exec_units[u].type
          /\ exec_units'[u].delayed = exec_units[u].delayed
          /\ exec_units'[u].instruction.opcode # "LWS"
    BY <1>3, <2>1, TakingIs, BlankNop
  <2>3. DOMAIN exec_units' = DOMAIN exec_units
    BY <1>3, TakingIs
  <2> QED
    BY <2>2, <2>3 DEF NoLoads
<1> QED
  BY <1>1, <1>2, <1>3 DEF Move

LEMMA IfStallMove ==
  ASSUME ProgramsGiven, WordsGiven, CleanStart(Setups), AddressesFit, TypeInv, Access, NotTaken,
         Counter, IfStall, Step \/ (\E n \in Calls : Run(n)) \/ UNCHANGED vars
  PROVE  IfStall'
<1>1. Move
  BY StepMoves
<1>2. prog' = prog /\ (Fetches' = Fetches \/ pc' # pc)
  BY <1>1 DEF Move, WritebackMove, MemoryMove, ExecuteMove, DecodeMove, FetchMove, RestMove,
              Fetches
<1>3. CASE pc' = pc /\ (stall'["IF"].in_stall => InStall("IF"))
  BY <1>2, <1>3 DEF IfStall, InStall, Instr
<1>4. CASE FetchNothing \/ FetchHeld \/ FetchStall \/ FetchEnd \/ Fetch
  <2>1. CASE pc' = pc /\ stall'["IF"] = stall["IF"]
    BY <1>3, <2>1 DEF InStall
  <2>2. CASE /\ Fetched.opcode # "EOP" /\ pc' = Wrap(FetchPC + 4)
             /\ stall'["IF"].in_stall => StallsFetch(Fetched)
    <3>1. /\ pc' = 4 * (Fetches + 1) /\ Fetches \in 0 .. PROGRAM_SIZE
          /\ Fetches \in DOMAIN prog /\ Fetched = prog[Fetches]
      BY <2>2, NextFetch
    <3>2. Fetches' = Fetches + 1 /\ Fetches' - 1 = Fetches /\ Fetches' > 0
      BY <3>1 DEF Fetches, PROGRAM_SIZE
    <3>3. Instr(Fetches - 1)' = Fetched
      BY <1>2, <3>1, <3>2 DEF Instr
    <3> QED
      BY <2>2, <3>2, <3>3 DEF IfStall, InStall
  <2> QED
    BY <1>4, <2>1, <2>2, FetchStalls
<1>5. CASE WritebackNothing \/ WritebackEnd \/ Writeback
  <2>1. pc' = pc
    BY <1>5 DEF WritebackNothing, WritebackEnd, Writeback
  <2> QED
    BY <1>3, <1>5, <2>1, WritebackStalls
<1>6. CASE \/ MemoryWait \/ MemoryPass \/ MemoryAccess
           \/ ExecuteWait \/ ExecutePass \/ ExecuteIssue
           \/ DecodeBlocked \/ DecodeStall \/ DecodeConflict \/ DecodePass \/ Decode
           \/ EndCycle \/ (\E n \in Calls : Run(n)) \/ UNCHANGED vars
  <2>1. pc' = pc
    BY <1>6 DEF MemoryWait, MemoryPass, MemoryAccess, CheckMemory,
                ExecuteWait, ExecutePass, ExecuteIssue, CheckExecute,
                DecodeBlocked, DecodeStall, DecodeConflict, DecodePass, Decode, CheckDecode,
                Decoding, EndCycle, Run, vars
  <2> QED
    BY <1>3, <1>6, <2>1, KeptStalls
<1> QED
  BY <1>4, <1>5, <1>6 DEF Step

LEMMA LastMove ==
  ASSUME ProgramsGiven, WordsGiven, CleanStart(Setups), AddressesFit, TypeInv, Access, NotTaken,
         Counter, IfStall, Last, Step \/ (\E n \in Calls : Run(n)) \/ UNCHANGED vars
  PROVE  Last'
<1>1. Move
  BY StepMoves
<1>2. SUFFICES ASSUME Fetches' > 0, ~ end', ~ StallsFetch(Instr(Fetches - 1)')
               PROVE  IF phase' = "fetch" /\ ~ Held' THEN ~ Idle(latch'["EXE"].ir)
                      ELSE ~ Idle(latch'["ID"].ir)
  BY DEF Last, IR
<1>3. prog' = prog
  BY <1>1 DEF Move, WritebackMove, MemoryMove, ExecuteMove, DecodeMove, FetchMove, RestMove
<1>4. ASSUME pc' = pc
      PROVE  /\ ~ StallsFetch(Instr(Fetches - 1))
             /\ ~ end => IF phase = "fetch" /\ ~ Held THEN ~ Idle(IR("EXE"))
                         ELSE ~ Idle(IR("ID"))
  <2>1. Fetches' = Fetches /\ Instr(Fetches - 1)' = Instr(Fetches - 1)
    BY <1>3, <1>4 DEF Fetches, Instr
  <2> QED
    BY <1>2, <2>1 DEF Last
<1>5. CASE WritebackMove \/ MemoryMove \/ ExecuteMove
  <2>1. /\ latch'["ID"] = latch["ID"] /\ phase # "fetch" /\ phase' # "fetch"
        /\ pc' = pc /\ end' = end
    BY <1>5 DEF WritebackMove, MemoryMove, ExecuteMove
  <2> QED
    BY <1>2, <1>4, <2>1 DEF IR
<1>6. CASE DecodeMove
  <2>1. /\ latch'["ID"] = latch["ID"] /\ phase # "fetch" /\ pc' = pc /\ end' = end
        /\ Held' \/ latch'["EXE"].ir = IR("ID")
    BY <1>6 DEF DecodeMove
  <2> QED
    BY <1>2, <1>4, <2>1 DEF IR
<1>7. CASE RestMove
  <2>1. /\ latch' = latch /\ pc' = pc /\ end' = end /\ Held' = Held
        /\ phase' = "fetch" <=> phase = "fetch"
    BY <1>7 DEF RestMove, Held, InStall
  <2> QED
    BY <1>2, <1>4, <2>1 DEF IR
<1>8. CASE FetchNothing \/ FetchHeld \/ FetchStall \/ FetchEnd \/ Fetch
  <2>1. phase = "fetch" /\ phase' = "units"
    BY <1>8, FetchMoves DEF FetchMove
  <2>2. FetchPC \div 4 <= PROGRAM_SIZE
    BY NextFetch
  <2>3. CASE /\ latch' = latch /\ pc' = pc /\ end' = end
             /\ Held \/ end \/ ~ (FetchPC \div 4 <= PROGRAM_SIZE)
    BY <1>2, <1>4, <2>1, <2>2, <2>3 DEF IR
  <2>4. CASE InStall("IF") /\ pc' = pc
    BY <1>4, <2>4 DEF IfStall
  <2>5. CASE latch'["ID"].ir = Fetched /\ Fetched.opcode # "EOP"
    BY <2>1, <2>5, NextFetch
  <2> QED
    BY <1>2, <1>8, <2>3, <2>4, <2>5, FetchStalls
<1>9. Move => \/ WritebackMove \/ MemoryMove \/ ExecuteMove \/ DecodeMove \/ RestMove
              \/ FetchNothing \/ FetchHeld \/ FetchStall \/ FetchEnd \/ Fetch
  <2>1. CASE Step
    BY <2>1, WritebackMoves, MemoryMoves, ExecuteMoves, DecodeMoves, RestMoves DEF Step
  <2>2. CASE (\E n \in Calls : Run(n)) \/ UNCHANGED vars
    BY <2>2, RestMoves
  <2> QED
    BY <2>1, <2>2
<1> QED
  BY <1>1, <1>5, <1>6, <1>7, <1>8, <1>9

LEMMA ProgramIs ==
  ASSUME TypeInv, CleanStart(Setups)
  PROVE  \A n \in DOMAIN prog : n \in Nat
<1>1. PICK s \in Setups : prog = s.prog
  BY DEF TypeInv
<1>2. DOMAIN prog \subseteq 0 .. PROGRAM_SIZE - 1
  BY <1>1 DEF CleanStart, StraightLine
<1> QED
  BY <1>2 DEF PROGRAM_SIZE

\* What two places hold, EXE among them: its instruction is the youngest, and awaits
\* no other.
LEMMA WidelyApart ==
  ASSUME TypeInv, CleanStart(Setups), Passed \in Int, Front, Apart, Ready,
         NEW a \in Slots \cup {-2}, NEW b \in Slots \cup {-2},
         a = -2 => InEXE = 1, b = -2 => InEXE = 1,
         ~ Idle(Contents[a]), ~ Idle(Contents[b])
  PROVE  \E k, l \in DOMAIN prog :
           /\ k < Passed + InEXE /\ l < Passed + InEXE
           /\ prog[k] = Contents[a] /\ prog[l] = Contents[b]
           /\ a # b => k # l /\ (l < k => ~ Awaits(Contents[a], Contents[b]))
<1>1. InEXE \in {0, 1} /\ Contents[-2] = IR("EXE")
  BY DEF InEXE, One, Contents
<1>2. \A k \in DOMAIN prog : k \in Int
  BY ProgramIs
<1>3. \A k \in DOMAIN prog : k < Passed => k < Passed + InEXE
  BY <1>1, <1>2
<1>4. CASE a \in Slots /\ b \in Slots
  <2>1. PICK k, l \in DOMAIN prog :
          /\ k < Passed /\ l < Passed
          /\ prog[k] = Contents[a] /\ prog[l] = Contents[b]
          /\ a # b => k # l /\ (l < k => ~ Awaits(Contents[a], Contents[b]))
    BY <1>4 DEF Apart
  <2>2. k < Passed + InEXE /\ l < Passed + InEXE
    BY <1>3, <2>1
  <2> QED
    BY <2>1, <2>2
<1>5. CASE a = -2 /\ b \in Slots
  <2>1. PICK l \in DOMAIN prog : l < Passed /\ prog[l] = Contents[b]
    BY <1>5 DEF Apart
  <2>2. Passed \in DOMAIN prog /\ prog[Passed] = Contents[a] /\ Passed < Passed + InEXE
    BY <1>1, <1>5 DEF Front
  <2>3. l < Passed + InEXE /\ Passed # l
    BY <1>2, <1>3, <2>1
  <2>4. ~ Awaits(Contents[a], Contents[b])
    BY <1>1, <1>5 DEF Ready
  <2> QED
    BY <2>1, <2>2, <2>3, <2>4
<1>6. CASE a \in Slots /\ b = -2
  <2>1. PICK k \in DOMAIN prog : k < Passed /\ prog[k] = Contents[a]
    BY <1>6 DEF Apart
  <2>2. Passed \in DOMAIN prog /\ prog[Passed] = Contents[b] /\ Passed < Passed + InEXE
    BY <1>1, <1>6 DEF Front
  <2>3. k < Passed + InEXE /\ k # Passed /\ ~ (Passed < k)
    BY <1>2, <1>3, <2>1
  <2> QED
    BY <2>1, <2>2, <2>3
<1>7. CASE a = -2 /\ b = -2
  <2>1. Passed \in DOMAIN prog /\ prog[Passed] = Contents[a] /\ Passed < Passed + InEXE
    BY <1>1, <1>7 DEF Front
  <2> QED
    BY <1>7, <2>1
<1> QED
  BY <1>4, <1>5, <1>6, <1>7

\* Every step takes the instructions behind EXE from there or from EXE.
LEMMA Places ==
  ASSUME WordsGiven, TypeInv, Stays \/ Issues \/ Decodes \/ Enters
  PROVE  /\ DOMAIN exec_units' = DOMAIN exec_units
         /\ ~ Issues => Carried(Slots)
         /\ \E o \in [Slots -> Slots \cup {-2}] :
              \A q \in Slots : ~ Idle(Contents'[q]) =>
                /\ Contents'[q] = Contents[o[q]]
                /\ o[q] = -2 => InEXE = 1
                /\ \A r \in Slots : ~ Idle(Contents'[r]) /\ q # r => o[q] # o[r]
<1>1. CASE ~ Issues
  <2>1. DOMAIN exec_units' = DOMAIN exec_units /\ Carried(Slots)
    BY <1>1, KeptPlaces DEF Stays, Decodes, Enters
  <2>2. -2 \notin Slots
    BY <2>1, ContentsAre
  <2>3. PICK o \in [Slots -> Slots] : \A q \in Slots : ~ Idle(Contents'[q]) =>
          /\ Contents'[q] = Contents[o[q]]
          /\ \A r \in Slots : ~ Idle(Contents'[r]) /\ q # r => o[q] # o[r]
    BY <2>1 DEF Carried
  <2>4. o \in [Slots -> Slots \cup {-2}] /\ \A q \in Slots : o[q] # -2
    BY <2>2
  <2> QED
    BY <2>1, <2>3, <2>4
<1>2. CASE Issues
  <2>1. phase = "execute" /\ ExecuteMove /\ ~ InStall("MEM")
    BY <1>2 DEF Issues, ExecuteMove
  <2>2. ~ Idle(IR("EXE")) => InEXE = 1
    BY <2>1 DEF InEXE, One
  <2>3. DOMAIN exec_units' = DOMAIN exec_units
    BY <2>1, ExecutePlaces
  <2>4. PICK o \in [Slots -> Slots \cup {-2}] : \A q \in Slots : ~ Idle(Contents'[q]) =>
          /\ Contents'[q] = Contents[o[q]]
          /\ o[q] = -2 => ~ Idle(IR("EXE"))
          /\ \A r \in Slots : ~ Idle(Contents'[r]) /\ q # r => o[q] # o[r]
    BY <2>1, ExecutePlaces
  <2> QED
    BY <1>2, <2>2, <2>3, <2>4
<1> QED
  BY <1>1, <1>2

LEMMA ApartMove ==
  ASSUME ProgramsGiven, WordsGiven, CleanStart(Setups), AddressesFit, TypeInv, NotTaken,
         EndSeen, Counter, Front, Apart, Ready, Move
  PROVE  Apart'
<1>1. /\ Stays \/ Issues \/ Decodes \/ Enters
      /\ Passed \in Int
      /\ Issues => Passed' = Passed + InEXE
      /\ ~ Issues => Passed' = Passed
  BY FrontMoves, FrontMove
<1>2. Slots' = Slots /\ prog' = prog
  BY <1>1, Places, ContentsAre DEF Move, WritebackMove, MemoryMove, ExecuteMove, DecodeMove,
                                   FetchMove, RestMove
<1>3. SUFFICES ASSUME NEW q \in Slots, NEW r \in Slots,
                      ~ Idle(Contents'[q]), ~ Idle(Contents'[r])
               PROVE  \E k, l \in DOMAIN prog :
                        /\ k < Passed' /\ l < Passed'
                        /\ prog[k] = Contents'[q] /\ prog[l] = Contents'[r]
                        /\ q # r => k # l /\ (l < k => ~ Awaits(Contents'[q], Contents'[r]))
  <2>1. Apart' <=> \A q, r \in Slots : ~ Idle(Contents'[q]) /\ ~ Idle(Contents'[r]) =>
          \E k, l \in DOMAIN prog :
            /\ k < Passed' /\ l < Passed'
            /\ prog[k] = Contents'[q] /\ prog[l] = Contents'[r]
            /\ q # r => k # l /\ (l < k => ~ Awaits(Contents'[q], Contents'[r]))
    BY <1>2 DEF Apart, Awaits, Depends, Idle
  <2> QED
    BY <2>1
<1>4. CASE Issues
  <2>1. PICK o \in [Slots -> Slots \cup {-2}] : \A p \in Slots : ~ Idle(Contents'[p]) =>
          /\ Contents'[p] = Contents[o[p]]
          /\ o[p] = -2 => InEXE = 1
          /\ \A t \in Slots : ~ Idle(Contents'[t]) /\ p # t => o[p] # o[t]
    BY <1>1, Places
  <2>2. /\ o[q] \in Slots \cup {-2} /\ o[r] \in Slots \cup {-2}
        /\ Contents'[q] = Contents[o[q]] /\ Contents'[r] = Contents[o[r]]
        /\ o[q] = -2 => InEXE = 1
        /\ o[r] = -2 => InEXE = 1
        /\ q # r => o[q] # o[r]
    BY <1>3, <2>1
  <2>3. ~ Idle(Contents[o[q]]) /\ ~ Idle(Contents[o[r]])
    BY <1>3, <2>2
  <2>4. \E k, l \in DOMAIN prog :
          /\ k < Passed + InEXE /\ l < Passed + InEXE
          /\ prog[k] = Contents[o[q]] /\ prog[l] = Contents[o[r]]
          /\ o[q] # o[r] => k # l /\ (l < k => ~ Awaits(Contents[o[q]], Contents[o[r]]))
    BY <1>1, <2>2, <2>3, WidelyApart
  <2> QED
    BY <1>1, <1>4, <2>2, <2>4
<1>5. CASE ~ Issues
  <2>1. PICK o \in [Slots -> Slots] : \A p \in Slots : ~ Idle(Contents'[p]) =>
          /\ Contents'[p] = Contents[o[p]]
          /\ \A t \in Slots : ~ Idle(Contents'[t]) /\ p # t => o[p] # o[t]
    BY <1>1, <1>5, Places DEF Carried
  <2>2. /\ o[q] \in Slots /\ o[r] \in Slots
        /\ Contents'[q] = Contents[o[q]] /\ Contents'[r] = Contents[o[r]]
        /\ q # r => o[q] # o[r]
    BY <1>3, <2>1
  <2>3. ~ Idle(Contents[o[q]]) /\ ~ Idle(Contents[o[r]])
    BY <1>3, <2>2
  <2>4. \E k, l \in DOMAIN prog :
          /\ k < Passed /\ l < Passed
          /\ prog[k] = Contents[o[q]] /\ prog[l] = Contents[o[r]]
          /\ o[q] # o[r] => k # l /\ (l < k => ~ Awaits(Contents[o[q]], Contents[o[r]]))
    BY <2>2, <2>3 DEF Apart
  <2> QED
    BY <1>1, <1>5, <2>2, <2>4
<1> QED
  BY <1>4, <1>5

LEMMA ReadyMove ==
  ASSUME ProgramsGiven, WordsGiven, CleanStart(Setups), AddressesFit, TypeInv, Access, NotTaken,
         EndSeen, Counter, Waits, Ready,
         Step \/ (\E n \in Calls : Run(n)) \/ UNCHANGED vars
  PROVE  Ready'
<1>1. Move
  BY StepMoves
<1>2. Stays \/ Issues \/ Decodes \/ Enters
  BY <1>1, FrontMoves
<1>3. Slots' = Slots /\ -2 \notin Slots
  BY <1>2, Places, ContentsAre
<1>4. SUFFICES ASSUME InEXE' = 1, NEW q \in Slots, Awaits(latch'["EXE"].ir, Contents'[q])
               PROVE  FALSE
  BY <1>3 DEF Ready, IR, Awaits, Depends, Idle
<1>5. ~ Issues
  BY <1>4 DEF Issues
<1>6. ~ Idle(Contents'[q])
  BY <1>4 DEF Awaits, Depends
<1>7. PICK p \in Slots : Contents'[q] = Contents[p]
  <2>1. PICK o \in [Slots -> Slots] : ~ Idle(Contents'[q]) => Contents'[q] = Contents[o[q]]
    BY <1>2, <1>5, Places DEF Carried
  <2> QED
    BY <1>6, <2>1
<1>8. CASE Stays \/ Enters
  BY <1>4, <1>7, <1>8 DEF Stays, Enters, Ready
<1>9. CASE Decodes
  <2>1. DecodeMove /\ InID = 1 /\ latch'["EXE"].ir = IR("ID") /\ ~ Held'
    BY <1>9 DEF Decodes
  <2>2. stall'["ID"] = stall["ID"]
    <3>1. phase = "decode" /\ phase' = "fetch"
      BY <2>1 DEF DecodeMove
    <3>2. DecodeBlocked \/ DecodeStall \/ DecodeConflict \/ DecodePass \/ Decode
      BY <3>1 DEF Step, WritebackNothing, WritebackEnd, Writeback, MemoryWait, MemoryPass,
                  MemoryAccess, CheckMemory, ExecuteWait, ExecutePass, ExecuteIssue,
                  CheckExecute, FetchNothing, FetchHeld, FetchStall, FetchEnd, Fetch, Fetching,
                  Enter, EndCycle, Run, vars
    <3> QED
      BY <3>2, KeptStalls
  <2>3. InStall("ID")
    BY <1>3, <1>4, <1>7, <2>1 DEF Waits
  <2> QED
    BY <2>1, <2>2, <2>3 DEF Held, InStall
<1> QED
  BY <1>2, <1>5, <1>8, <1>9

LEMMA Seen ==
  ASSUME TypeInv, KeepOperands(Setups)
  PROVE  \A n \in DOMAIN prog :
           /\ ~ Awaits(prog[n], prog[n])
           /\ \A m \in DOMAIN prog : m < n /\ Awaits(prog[n], prog[m]) =>
                /\ \A k \in DOMAIN prog : k < n /\ Depends(prog[k], prog[n]) => k = m
                /\ prog[m].opcode \in FpAlu => m = n - 1
                /\ \A j, k \in DOMAIN prog :
                     j < k /\ k < n /\ Awaits(prog[j], prog[k]) => prog[m].dest = prog[k].dest
<1>1. SeenOperands(prog)
  BY DEF TypeInv, KeepOperands
<1>2. SUFFICES ASSUME NEW n \in DOMAIN prog
               PROVE  /\ ~ Awaits(prog[n], prog[n])
                      /\ \A m \in DOMAIN prog : m < n /\ Awaits(prog[n], prog[m]) =>
                           /\ \A k \in DOMAIN prog : k < n /\ Depends(prog[k], prog[n]) => k = m
                           /\ prog[m].opcode \in FpAlu => m = n - 1
                           /\ \A j, k \in DOMAIN prog :
                                j < k /\ k < n /\ Awaits(prog[j], prog[k])
                                  => prog[m].dest = prog[k].dest
  OBVIOUS
<1> DEFINE writers == {m \in DOMAIN prog : m < n /\ Depends(prog[m], prog[n])}
<1>3. prog[n].opcode \in FpAlu =>
        /\ ~ Depends(prog[n], prog[n])
        /\ \A m, k \in writers : m = k
        /\ \A m \in writers : prog[m].opcode \in FpAlu => m = n - 1
        /\ \A m \in writers, j, k \in DOMAIN prog :
             j < k /\ k < n /\ Awaits(prog[j], prog[k]) => prog[m].dest = prog[k].dest
  BY <1>1 DEF SeenOperands
<1>4. \A m \in DOMAIN prog : m < n /\ Awaits(prog[n], prog[m]) =>
        m \in writers /\ prog[n].opcode \in FpAlu
  BY DEF Awaits
<1>5. \A k \in DOMAIN prog : k < n /\ Depends(prog[k], prog[n]) => k \in writers
  OBVIOUS
<1>6. ~ Awaits(prog[n], prog[n])
  BY <1>3 DEF Awaits
<1> HIDE DEF writers
<1> QED
  BY <1>3, <1>4, <1>5, <1>6

\* What ID awaits has one place, and the only thing it can be.
LEMMA OneAwaited ==
  ASSUME TypeInv, KeepOperands(Setups), Passed \in Int, Front, Apart, Ready,
         NEW n \in DOMAIN prog, n = Passed + InEXE,
         NEW a \in Slots \cup {-2}, NEW b \in Slots \cup {-2},
         a = -2 => InEXE = 1, b = -2 => InEXE = 1,
         Awaits(prog[n], Contents[a]), Depends(Contents[b], prog[n])
  PROVE  a = b
<1>1. CleanStart(Setups) /\ ~ Idle(Contents[a]) /\ ~ Idle(Contents[b])
  BY DEF KeepOperands, Awaits, Depends
<1>2. PICK k, l \in DOMAIN prog :
        /\ k < n /\ l < n /\ prog[k] = Contents[a] /\ prog[l] = Contents[b]
        /\ a # b => k # l
  BY <1>1, WidelyApart
<1>3. l = k
  BY <1>2, Seen
<1> QED
  BY <1>2, <1>3

\* While ID holds an instruction, what came into the stall of ID is what it awaits.
LEMMA WaitsKept ==
  ASSUME ProgramsGiven, WordsGiven, CleanStart(Setups), AddressesFit, TypeInv, NotTaken,
         EndSeen, Counter, Waits, Move, InID = 1, InID' = 1, Stays \/ Issues,
         NEW q \in Slots \cup {-2}, q = -2 => InEXE' = 1,
         Awaits(latch'["ID"].ir, Contents'[q])
  PROVE  /\ latch'["ID"].ir = IR("ID") /\ InStall("ID") /\ stall["ID"].hazard_type = "RAW"
         /\ \E p \in Slots \cup {-2} :
              /\ p = -2 => InEXE = 1
              /\ Contents'[q] = Contents[p] /\ Awaits(IR("ID"), Contents[p])
              /\ stall["ID"].reg = Contents[p].dest
<1>1. latch'["ID"].ir = IR("ID") /\ ~ Idle(Contents'[q])
  BY DEF Stays, Issues, Awaits, Depends
<1>2. \E p \in Slots \cup {-2} : (p = -2 => InEXE = 1) /\ Contents'[q] = Contents[p]
  <2>1. CASE q \in Slots
    <3>1. PICK o \in [Slots -> Slots \cup {-2}] : ~ Idle(Contents'[q]) =>
                 /\ Contents'[q] = Contents[o[q]]
                 /\ o[q] = -2 => InEXE = 1
      BY <2>1, Places
    <3> QED
      BY <1>1, <2>1, <3>1
  <2>2. CASE q = -2
    <3>1. Stays /\ InEXE = 1
      BY <2>2 DEF Stays, Issues
    <3>2. Contents'[-2] = latch'["EXE"].ir /\ Contents[-2] = IR("EXE")
      BY Places, ContentsAre
    <3> QED
      BY <2>2, <3>1, <3>2 DEF Stays
  <2> QED
    BY <2>1, <2>2
<1>3. PICK p \in Slots \cup {-2} : (p = -2 => InEXE = 1) /\ Contents'[q] = Contents[p]
  BY <1>2
<1>4. Awaits(IR("ID"), Contents[p])
  BY <1>1, <1>3
<1> QED
  BY <1>1, <1>3, <1>4 DEF Waits

\* Fetch raises a stall for what its instruction awaits,
LEMMA FetchWaits ==
  ASSUME ProgramsGiven, WordsGiven, KeepOperands(Setups), AddressesFit, TypeInv, Access,
         NotTaken, EndSeen, Counter, Front, Apart, NoLoads, Last, Ready, Enters,
         FetchNothing \/ FetchHeld \/ FetchStall \/ FetchEnd \/ Fetch
  PROVE  Waits'
<1>1. CleanStart(Setups) /\ FetchMove
  BY FetchMoves DEF KeepOperands
<1>2. /\ ~ Held /\ InID = 0 /\ InEXE' = InEXE /\ Fetched.opcode # "EOP"
      /\ latch'["ID"].ir = Fetched /\ pc' = Wrap(FetchPC + 4)
  BY DEF Enters
<1>3. /\ Fetches \in 0 .. PROGRAM_SIZE /\ pc = 4 * Fetches
      /\ Fetches \in DOMAIN prog /\ Fetched = prog[Fetches] /\ ~ Idle(Fetched)
      /\ pc' = 4 * (Fetches + 1)
  BY <1>1, <1>2, NextFetch
<1>4. /\ phase = "fetch" /\ phase' = "units" /\ exec_units' = exec_units
      /\ \A s \in {"EXE", "MEM", "WB"} : latch'[s] = latch[s]
  BY <1>1 DEF FetchMove
<1>5. InEXE \in {0, 1} /\ (~ Idle(IR("EXE")) => InEXE = 1)
  BY <1>4 DEF InEXE, One
<1>6. Fetches \in Int /\ Passed \in Int /\ Fetches = Passed + InEXE
  BY <1>2, <1>3, <1>5 DEF Passed, PROGRAM_SIZE
<1>7. /\ Slots' = Slots /\ 0 \in Slots /\ -1 \in Slots
      /\ \A q \in Slots : q = 0 \/ q = -1 \/ q \in DOMAIN exec_units
      /\ Contents[0] = IR("WB") /\ Contents[-1] = IR("MEM") /\ Contents[-2] = IR("EXE")
      /\ \A u \in DOMAIN exec_units : Contents[u] = exec_units[u].instruction
      /\ \A q \in Slots \cup {-2} : Contents'[q] = Contents[q]
  BY <1>4, ContentsAre DEF IR
<1>8. /\ ~ end
      /\ \/ \A s \in {"EXE", "MEM", "WB"} : ~ Awaits(Fetched, IR(s))
         \/ \E s \in {"EXE", "MEM", "WB"} :
              Awaits(Fetched, IR(s)) /\ stall'["ID"] = Raised("RAW", IR(s).dest)
  <2>1. pc' # pc
    BY <1>3, <1>6
  <2>2. ~ (latch'["ID"].ir.opcode = "EOP")
    BY <1>2
  <2> QED
    BY <1>1, <2>1, <2>2, FetchStalls
<1>9. SUFFICES ASSUME NEW q \in Slots \cup {-2}, q = -2 => InEXE = 1,
                      Awaits(Fetched, Contents[q])
               PROVE  /\ stall'["ID"].in_stall /\ stall'["ID"].hazard_type = "RAW"
                      /\ stall'["ID"].reg = Contents[q].dest
  BY <1>2, <1>7 DEF Waits, IR, InStall, Awaits, Depends, Idle
<1>10. q \notin DOMAIN exec_units
  <2>1. SUFFICES ASSUME q \in DOMAIN exec_units
                 PROVE  FALSE
    OBVIOUS
  <2>2. q \in Slots /\ Contents[q].opcode \in FpAlu /\ ~ Idle(Contents[q])
    BY <1>7, <1>9, <2>1 DEF Awaits, Depends, NoLoads, Slots
  <2>3. PICK k \in DOMAIN prog : k < Passed /\ prog[k] = Contents[q]
    BY <2>2 DEF Apart
  <2>4. k \in Nat
    BY <1>1, ProgramIs
  <2>5. k < Fetches
    BY <1>5, <1>6, <2>3, <2>4
  <2>6. k = Fetches - 1
    BY <1>3, <1>9, <2>2, <2>3, <2>5, Seen
  <2>7. Instr(Fetches - 1) = prog[k]
    BY <2>6 DEF Instr
  <2>8. ~ StallsFetch(Instr(Fetches - 1))
    BY <2>2, <2>3, <2>7 DEF StallsFetch, FpAlu
  <2>9. ~ Idle(IR("EXE"))
    BY <1>2, <1>4, <1>6, <1>8, <2>4, <2>5, <2>8 DEF Last
  <2>10. k < k
    BY <1>5, <1>6, <2>3, <2>4, <2>6, <2>9
  <2> QED
    BY <2>4, <2>10
<1>11. q = 0 \/ q = -1 \/ q = -2
  BY <1>7, <1>10
<1>12. PICK s \in {"EXE", "MEM", "WB"} :
         Awaits(Fetched, IR(s)) /\ stall'["ID"] = Raised("RAW", IR(s).dest)
  BY <1>7, <1>8, <1>9, <1>11
<1>13. PICK p \in Slots \cup {-2} : Contents[p] = IR(s) /\ (p = -2 => InEXE = 1)
  <2>1. CASE s = "EXE"
    BY <1>5, <1>7, <1>12, <2>1 DEF Awaits, Depends
  <2>2. CASE s = "MEM" \/ s = "WB"
    <3>1. 0 # -2 /\ -1 # -2
      OBVIOUS
    <3> QED
      BY <1>7, <2>2, <3>1
  <2> QED
    BY <2>1, <2>2
<1>14. q = p
  <2>1. Awaits(prog[Fetches], Contents[q]) /\ Depends(Contents[p], prog[Fetches])
    BY <1>3, <1>9, <1>12, <1>13 DEF Awaits
  <2> QED
    BY <1>3, <1>6, <1>9, <1>13, <2>1, OneAwaited
<1> QED
  BY <1>12, <1>13, <1>14 DEF Raised

\* and what inst_writeback does to it ends the wait for what leaves, or changes nothing.
LEMMA WritebackWaits ==
  ASSUME ProgramsGiven, WordsGiven, KeepOperands(Setups), AddressesFit, TypeInv, Access,
         NotTaken, EndSeen, Counter, Front, Apart, Waits, Ready, Move, Stays,
         WritebackNothing \/ WritebackEnd \/ Writeback
  PROVE  Waits'
<1>1. CleanStart(Setups) /\ WritebackMove
  BY WritebackMoves DEF KeepOperands
<1>2. /\ phase = "writeback" /\ phase' = "memory" /\ latch' = latch /\ exec_units' = exec_units
  BY <1>1 DEF WritebackMove
<1>3. InEXE \in {0, 1} /\ (~ Idle(IR("EXE")) => InEXE = 1)
  BY <1>2 DEF InEXE, One
<1>4. /\ Slots' = Slots /\ 0 \in Slots /\ -1 \in Slots /\ -2 \notin Slots
      /\ Contents[0] = IR("WB") /\ Contents[-1] = IR("MEM") /\ Contents[-2] = IR("EXE")
      /\ Contents'[0] = Blank("NOP")
  BY <1>2, ContentsAre
<1>5. SUFFICES ASSUME InID' = 1, NEW q \in Slots \cup {-2}, q = -2 => InEXE' = 1,
                      Awaits(latch'["ID"].ir, Contents'[q])
               PROVE  /\ stall'["ID"].in_stall /\ stall'["ID"].hazard_type = "RAW"
                      /\ stall'["ID"].reg = Contents'[q].dest
  BY <1>4 DEF Waits, IR, InStall, Awaits, Depends, Idle
<1>6. InID = 1 /\ IR("ID") = latch'["ID"].ir /\ InEXE' = InEXE
  BY <1>5 DEF Stays
<1>7. /\ InStall("ID") /\ stall["ID"].hazard_type = "RAW"
      /\ Contents'[q] = Contents[q] /\ stall["ID"].reg = Contents[q].dest /\ q # 0
      /\ Awaits(IR("ID"), Contents[q])
  <2>1. q # 0
    BY <1>4, <1>5, BlankNop DEF Awaits, Depends
  <2>2. Contents'[q] = Contents[q]
    <3>1. \A u \in DOMAIN exec_units : Contents'[u] = Contents[u]
      BY <1>2, ContentsAre
    <3>2. Contents'[-1] = Contents[-1] /\ Contents'[-2] = Contents[-2]
      BY <1>2, <1>4, ContentsAre DEF IR
    <3> QED
      BY <2>1, <3>1, <3>2 DEF Slots
  <2>3. Awaits(IR("ID"), Contents[q])
    BY <1>5, <1>6, <2>2
  <2> QED
    BY <1>5, <1>6, <2>1, <2>2, <2>3 DEF Waits
<1>8. /\ Fetches \in Int /\ Passed \in Int /\ Fetches - 1 = Passed + InEXE
      /\ Fetches - 1 \in DOMAIN prog /\ IR("ID") = prog[Fetches - 1]
  BY <1>1, <1>3, <1>6, NextFetch DEF Front, Passed, PROGRAM_SIZE
<1> DEFINE n == Fetches - 1
<1>9. n \in DOMAIN prog /\ n = Passed + InEXE /\ n \in Int /\ IR("ID") = prog[n]
  BY <1>8
<1> HIDE DEF n
<1>10. ~ Idle(IR("WB")) => stall["ID"].reg # IR("WB").dest
  <2>1. SUFFICES ASSUME ~ Idle(IR("WB")), stall["ID"].reg = IR("WB").dest
                 PROVE  FALSE
    OBVIOUS
  <2>2. Depends(Contents[0], prog[n])
    BY <1>4, <1>7, <1>9, <2>1 DEF Awaits, Depends
  <2>3. Awaits(prog[n], Contents[q]) /\ 0 # -2
    BY <1>7, <1>9
  <2>4. q = 0
    BY <1>4, <1>5, <1>6, <1>8, <1>9, <2>2, <2>3, OneAwaited
  <2> QED
    BY <1>7, <2>4
<1>11. ASSUME NEW s \in {"EXE", "MEM", "WB"}, Awaits(IR("WB"), IR(s))
       PROVE  IR(s).dest = Contents[q].dest
  <2>1. ~ Idle(IR("WB")) /\ ~ Idle(IR(s))
    BY <1>11 DEF Awaits, Depends
  <2>2. PICK m \in DOMAIN prog : m < n /\ prog[m] = Contents[q]
    <3>1. ~ Idle(Contents[q])
      BY <1>7 DEF Awaits, Depends
    <3> QED
      BY <1>1, <1>5, <1>6, <1>8, <1>9, <3>1, WidelyApart
  <2>3. s # "WB"
    <3>1. PICK k \in DOMAIN prog : prog[k] = IR("WB")
      BY <1>4, <2>1 DEF Apart
    <3> QED
      BY <1>11, <3>1, Seen
  <2>4. PICK p \in Slots \cup {-2} : Contents[p] = IR(s) /\ (p = -2 => InEXE = 1) /\ p # 0
    BY <1>3, <1>4, <2>1, <2>3
  <2>5. PICK j, k \in DOMAIN prog :
          /\ j < n /\ k < n /\ prog[j] = IR("WB") /\ prog[k] = IR(s)
          /\ j # k /\ (k < j => ~ Awaits(IR("WB"), IR(s)))
    <3>1. 0 # -2 /\ 0 \in Slots \cup {-2} /\ ~ Idle(Contents[0]) /\ ~ Idle(Contents[p])
      BY <1>4, <2>1, <2>4
    <3>2. \E j, k \in DOMAIN prog :
            /\ j < n /\ k < n /\ prog[j] = Contents[0] /\ prog[k] = Contents[p]
            /\ 0 # p => j # k /\ (k < j => ~ Awaits(Contents[0], Contents[p]))
      BY <1>1, <1>8, <1>9, <2>4, <3>1, WidelyApart
    <3> QED
      BY <1>4, <2>4, <3>2
  <2>6. j < k
    <3>1. j \in Nat /\ k \in Nat
      BY <1>1, ProgramIs
    <3> QED
      BY <1>11, <2>5, <3>1
  <2>7. Awaits(prog[n], prog[m])
    BY <1>7, <1>9, <2>2
  <2> QED
    BY <1>9, <1>11, <2>2, <2>5, <2>6, <2>7, Seen
<1> QED
  BY <1>7, <1>10, <1>11, WritebackStalls DEF InStall, Raised

LEMMA WaitsMove ==
  ASSUME ProgramsGiven, WordsGiven, KeepOperands(Setups), AddressesFit, TypeInv, Access,
         NotTaken, EndSeen, Counter, Front, Apart, NoLoads, Last, Waits, Ready,
         Step \/ (\E n \in Calls : Run(n)) \/ UNCHANGED vars
  PROVE  Waits'
<1>1. Move /\ CleanStart(Setups)
  BY StepMoves DEF KeepOperands
<1>2. Stays \/ Issues \/ Decodes \/ Enters
  BY <1>1, FrontMoves
<1>3. InID \in {0, 1} /\ InID' \in {0, 1}
  BY DEF InID, One
<1>4. CASE Decodes
  BY <1>4 DEF Decodes, Waits
<1>5. CASE Enters
  <2>1. phase = "fetch" /\ phase' = "units"
    BY <1>5 DEF Enters, FetchMove
  <2>2. FetchNothing \/ FetchHeld \/ FetchStall \/ FetchEnd \/ Fetch
    BY <2>1 DEF Step, WritebackNothing, WritebackEnd, Writeback, MemoryWait, MemoryPass,
                MemoryAccess, CheckMemory, ExecuteWait, ExecutePass, ExecuteIssue,
                CheckExecute, DecodeBlocked, DecodeStall, DecodeConflict, DecodePass, Decode,
                CheckDecode, Decoding, Enter, EndCycle, Run, vars
  <2> QED
    BY <1>5, <2>2, FetchWaits
<1>6. CASE Stays \/ Issues
  <2>1. CASE stall'["ID"] = stall["ID"]
    <3>1. Slots' = Slots
      BY <1>2, Places, ContentsAre
    <3>2. SUFFICES ASSUME InID' = 1, NEW q \in Slots \cup {-2}, q = -2 => InEXE' = 1,
                          Awaits(latch'["ID"].ir, Contents'[q])
                   PROVE  /\ stall'["ID"].in_stall /\ stall'["ID"].hazard_type = "RAW"
                          /\ stall'["ID"].reg = Contents'[q].dest
      BY <3>1 DEF Waits, IR, InStall, Awaits, Depends, Idle
    <3>3. InID = 1
      BY <1>6, <3>2 DEF Stays, Issues
    <3>4. /\ InStall("ID") /\ stall["ID"].hazard_type = "RAW"
          /\ \E p \in Slots \cup {-2} :
               Contents'[q] = Contents[p] /\ stall["ID"].reg = Contents[p].dest
      BY <1>1, <1>6, <3>2, <3>3, WaitsKept
    <3> QED
      BY <2>1, <3>4 DEF InStall
  <2>2. CASE WritebackNothing \/ WritebackEnd \/ Writeback
    <3>1. Stays
      <4>1. WritebackMove
        BY <2>2, WritebackMoves
      <4> QED
        BY <1>6, <4>1 DEF Issues, WritebackMove, ExecuteMove
    <3> QED
      BY <1>1, <2>2, <3>1, WritebackWaits
  <2>3. CASE FetchNothing \/ FetchHeld \/ FetchStall \/ FetchEnd \/ Fetch
    <3>1. CASE stall' = stall
      BY <2>1, <3>1
    <3>2. CASE Idle(latch'["ID"].ir)
      BY <3>2 DEF Waits, IR, Awaits, Depends, Idle
    <3>3. CASE latch'["ID"].ir = Fetched /\ Fetched.opcode # "EOP" /\ pc' = Wrap(FetchPC + 4)
      <4>1. pc' = 4 * (Fetches + 1) /\ pc = 4 * Fetches /\ Fetches \in 0 .. PROGRAM_SIZE
        BY <1>1, <3>3, NextFetch
      <4>2. pc' # pc
        BY <4>1 DEF PROGRAM_SIZE
      <4> QED
        BY <1>6, <4>2 DEF Stays, Issues
    <3>4. Idle(Bubble.ir)
      BY DEF Bubble, Clean, Blank, Idle
    <3> QED
      BY <2>3, <3>1, <3>2, <3>3, <3>4, FetchStalls DEF Idle
  <2>4. CASE \/ MemoryWait \/ MemoryPass \/ MemoryAccess
             \/ ExecuteWait \/ ExecutePass \/ ExecuteIssue
             \/ DecodeBlocked \/ DecodeStall \/ DecodeConflict \/ DecodePass \/ Decode
             \/ EndCycle \/ (\E n \in Calls : Run(n)) \/ UNCHANGED vars
    BY <2>1, <2>4, KeptStalls
  <2> QED
    BY <2>2, <2>3, <2>4 DEF Step
<1> QED
  BY <1>2, <1>4, <1>5, <1>6

-----------------------------------------------------------------------------
(* Operations read finished operands *)

OperandsInv ==
  Calm /\ Counter /\ Front /\ Apart /\ NoLoads /\ IfStall /\ Last /\ Waits /\ Ready

LEMMA InitOperands ==
  ASSUME KeepOperands(Setups), UnitsGiven, Init
  PROVE  OperandsInv
<1>1. CleanStart(Setups)
  BY DEF KeepOperands
<1>2. Blank("NOP").opcode = "NOP" /\ Idle(Blank("NOP"))
  BY BlankNop
<1>3. \A s \in {"ID", "EXE", "MEM", "WB"} : Idle(IR(s))
  BY <1>1, <1>2, EmptyStart DEF Stages
<1>4. pc = 0 /\ ~ end /\ \A u \in DOMAIN exec_units : Idle(exec_units[u].instruction)
  BY <1>1, <1>2, EmptyStart
<1>5. InEXE = 0 /\ InID = 0 /\ Fetches = 0 /\ Passed = 0
  <2>1. InEXE = 0 /\ InID = 0
    BY <1>3 DEF InEXE, InID, One
  <2>2. Fetches = 0
    BY <1>4 DEF Fetches
  <2> QED
    BY <2>1, <2>2 DEF Passed
<1>6. Counter /\ Front /\ Last /\ Waits /\ Ready
  BY <1>4, <1>5 DEF Counter, Front, Last, Waits, Ready, PROGRAM_SIZE
<1>7. Apart
  <2>1. \A q \in Slots : Idle(Contents[q])
    BY <1>2, <1>3, <1>4 DEF Slots, Contents
  <2> QED
    BY <2>1 DEF Apart
<1>8. IfStall
  <2>1. PICK s \in Setups :
          stall = [st \in Stages |-> [in_stall |-> FALSE, reg |-> UNDEFINED,
                                     hazard_type |-> s.hazard_type]]
    BY DEF Init
  <2>2. ~ InStall("IF")
    BY <2>1 DEF InStall, Stages
  <2> QED
    BY <2>2 DEF IfStall
<1>9. NoLoads
  <2>1. PICK s \in Setups : exec_units = s.units
    BY DEF Init
  <2>2. \A u \in DOMAIN exec_units : exec_units[u].type = "INTEGER" => exec_units[u].delayed = 0
    BY <2>1 DEF KeepOperands
  <2>3. \A u \in DOMAIN exec_units : exec_units[u].instruction.opcode # "LWS"
    BY <1>4 DEF Idle
  <2> QED
    BY <2>2, <2>3 DEF NoLoads
<1> QED
  BY <1>1, <1>6, <1>7, <1>8, <1>9, InitCalm DEF OperandsInv

LEMMA ResetOperands ==
  ASSUME TypeInv, OperandsInv, Reset, Ended
  PROVE  OperandsInv'
<1>1. Calm /\ NoLoads
  BY DEF OperandsInv
<1>2. /\ \A s \in {"ID", "EXE", "MEM", "WB"} : Idle(latch'[s].ir)
      /\ phase' = "idle" /\ pc' = 0
      /\ DOMAIN exec_units' = DOMAIN exec_units
      /\ \A u \in DOMAIN exec_units :
           /\ exec_units'[u].type = exec_units[u].type
           /\ exec_units'[u].delayed = exec_units[u].delayed
           /\ exec_units'[u].instruction.opcode = "NOP"
  BY <1>1, EmptyReset
<1>3. InEXE' = 0 /\ InID' = 0 /\ Fetches' = 0 /\ Passed' = 0
  BY <1>2 DEF InEXE, InID, IR, Fetches, Passed, Idle, One
<1>4. Counter' /\ Front' /\ Last' /\ Waits' /\ Ready'
  BY <1>2, <1>3 DEF Counter, Front, Last, Waits, Ready, PROGRAM_SIZE
<1>5. Apart'
  <2>1. /\ Slots' = Slots
        /\ \A q \in Slots : q = 0 \/ q = -1 \/ q \in DOMAIN exec_units
        /\ Contents'[0] = latch'["WB"].ir /\ Contents'[-1] = latch'["MEM"].ir
        /\ \A u \in DOMAIN exec_units : Contents'[u] = exec_units'[u].instruction
    BY <1>2, ContentsAre
  <2>2. \A q \in Slots : Idle(Contents'[q])
    BY <1>2, <2>1 DEF Idle
  <2> QED
    BY <2>1, <2>2 DEF Apart, Idle
<1>6. IfStall'
  <2>1. ~ stall'["IF"].in_stall
    BY ResetIs DEF Stages, InStall
  <2> QED
    BY <2>1 DEF IfStall, InStall
<1>7. NoLoads'
  BY <1>1, <1>2 DEF NoLoads
<1> QED
  BY <1>1, <1>4, <1>5, <1>6, <1>7, ResetCalm DEF OperandsInv

LEMMA OperandsMove ==
  ASSUME ProgramsGiven, WordsGiven, KeepOperands(Setups), AddressesFit, TypeInv, OperandsInv,
         Step \/ (\E n \in Calls : Run(n)) \/ UNCHANGED vars
  PROVE  OperandsInv'
<1>1. /\ CleanStart(Setups) /\ Calm /\ Access /\ NotTaken /\ EndSeen
      /\ Counter /\ Front /\ Apart /\ NoLoads /\ IfStall /\ Last /\ Waits /\ Ready
  BY DEF KeepOperands, OperandsInv, Calm
<1>2. Move
  BY <1>1, StepMoves
<1>3. Calm'
  BY <1>1, <1>2, CalmMove
<1>4. Counter' /\ Front'
  BY <1>1, <1>2, FrontMove
<1>5. Apart' /\ NoLoads'
  BY <1>1, <1>2, ApartMove, NoLoadsMove
<1>6. IfStall' /\ Last'
  BY <1>1, IfStallMove, LastMove
<1>7. Waits' /\ Ready'
  BY <1>1, WaitsMove, ReadyMove
<1> QED
  BY <1>3, <1>4, <1>5, <1>6, <1>7 DEF OperandsInv

LEMMA OperandsHold ==
  ASSUME TypeInv, OperandsInv
  PROVE  OperandsReady
<1>1. SUFFICES ASSUME phase = "fetch", IR("EXE").opcode \in FpAlu, NEW older \in Writers
               PROVE  ~ Awaits(IR("EXE"), older)
  BY DEF OperandsReady
<1>2. ~ Idle(IR("EXE"))
  BY <1>1 DEF Idle, FpAlu
<1>3. InEXE = 1
  BY <1>1, <1>2 DEF InEXE, One
<1>4. \E q \in Slots : older = Contents[q]
  <2>1. CASE older \in {IR(s) : s \in {"MEM", "WB"}}
    <3>1. /\ 0 \in Slots /\ -1 \in Slots /\ Contents[0] = IR("WB") /\ Contents[-1] = IR("MEM")
      BY <1>1 DEF Slots, Contents
    <3> QED
      BY <2>1, <3>1
  <2>2. CASE older \in {exec_units[u].instruction : u \in DOMAIN exec_units}
    <3>1. PICK n \in Nat : DOMAIN exec_units = 1 .. n
      BY DEF TypeInv, Table
    <3>2. \A u \in DOMAIN exec_units : u \in Slots /\ Contents[u] = exec_units[u].instruction
      BY <3>1 DEF Slots, Contents
    <3> QED
      BY <2>2, <3>2
  <2> QED
    BY <2>1, <2>2 DEF Writers
<1> QED
  BY <1>3, <1>4 DEF OperandsInv, Ready

\* A floating-point operation leaves ID only when no instruction ahead of it, in a latch
\* or in a unit, has still to write what it reads: checking_Stall, which looks at the
\* latches only, is enough for programs whose dependences it can see.
THEOREM OperandsCorrect ==
  ProgramsGiven /\ UnitsGiven /\ WordsGiven /\ AddressesFit /\ KeepOperands(Setups)
    => (Spec /\ ResetsAtEnd => []OperandsReady)
<1> SUFFICES ASSUME ProgramsGiven /\ UnitsGiven /\ WordsGiven /\ AddressesFit
                      /\ KeepOperands(Setups)
             PROVE  Spec /\ ResetsAtEnd => []OperandsReady
  OBVIOUS
<1>1. Init => TypeInv /\ OperandsInv
  BY InitTypes, InitOperands
<1>2. TypeInv /\ OperandsInv /\ [Next]_vars /\ [Reset => Ended]_vars
        => TypeInv' /\ OperandsInv'
  <2> SUFFICES ASSUME TypeInv, OperandsInv, [Next]_vars, [Reset => Ended]_vars
               PROVE  TypeInv' /\ OperandsInv'
    OBVIOUS
  <2>1. TypeInv'
    BY NextTypes
  <2>2. CASE Step \/ (\E n \in Calls : Run(n)) \/ UNCHANGED vars
    BY <2>1, <2>2, OperandsMove
  <2>3. CASE Reset /\ ~ UNCHANGED vars
    <3>1. Ended
      BY <2>3
    <3> QED
      BY <2>1, <2>3, <3>1, ResetOperands
  <2> QED
    BY <2>2, <2>3 DEF Next
<1>3. TypeInv /\ OperandsInv => OperandsReady
  BY OperandsHold
<1> QED
  BY <1>1, <1>2, <1>3, PTL DEF Spec, ResetsAtEnd
=============================================================================
