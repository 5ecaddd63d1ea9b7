----------------------------- MODULE PipeLatch -----------------------------
(***************************************************************************)
(* What the two pipelines of mips_pipeline have in common: instructions in *)
(* flight, the registers between two stages, and stalls.                   *)
(***************************************************************************)
EXTENDS Isa

PROGRAM_SIZE == 50
Stages == {"IF", "ID", "EXE", "MEM", "WB"}

Blank(op) == [opcode |-> op, src1 |-> UNDEFINED, src2 |-> UNDEFINED,
              dest |-> UNDEFINED, immediate |-> UNDEFINED]

\* clean_registers, with an instruction in the instruction register.
Clean(i) == [ir |-> i, NPC |-> UNDEFINED, A |-> UNDEFINED, B |-> UNDEFINED,
             IMM |-> UNDEFINED, COND |-> UNDEFINED, ALU_OUTPUT |-> UNDEFINED,
             LMD |-> UNDEFINED]

Bubble    == Clean(Blank("NOP"))
EmptyPipe == [s \in Stages |-> Bubble]

Idle(i) == i.opcode \in {"NOP", "EOP"}

\* The branches that stop fetch until they reach MEM.
StallsFetch(i) == i.opcode \in {"BEQZ", "BNEZ", "JUMP"}

Depends(older, i) ==
  /\ ~ Idle(older) /\ ~ Idle(i)
  /\ older.dest # UNDEFINED /\ older.dest \in {i.src1, i.src2}

Raised(type, reg) == [in_stall |-> TRUE, hazard_type |-> type, reg |-> reg]

=============================================================================
