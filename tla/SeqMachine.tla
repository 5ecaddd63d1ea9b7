----------------------------- MODULE SeqMachine -----------------------------
(***************************************************************************)
(* What a program means: one instruction at a time, in program order.      *)
(* Every processor simulator of the repository promises the registers and  *)
(* the memory this machine computes.                                       *)
(***************************************************************************)
EXTENDS Isa

CONSTANTS
  Programs,   \* instruction memories: functions from 0 .. n - 1
  IntFiles,   \* initial integer registers
  FpFiles,    \* initial floating-point registers
  Memories    \* initial data memories

VARIABLES prog, pc, gp_int, gp_fp, data_memory, executed

vars == <<prog, pc, gp_int, gp_fp, data_memory, executed>>

Fetched == prog[pc]
Running(ops) == pc \in DOMAIN prog /\ Fetched.opcode \in ops

Advance == pc' = pc + 1 /\ executed' = executed + 1 /\ UNCHANGED prog

Address(base) == Wrap(gp_int[base] + Fetched.immediate)
LoadedFrom(a) == IF a \in DOMAIN data_memory THEN data_memory[a] ELSE UNDEFINED

IntOp ==
  /\ Running(RegisterOps \cup ImmediateOps \cup IntMulDiv)
  /\ LET v2 == IF Fetched.opcode \in ImmediateOps THEN UNDEFINED
               ELSE gp_int[Fetched.src2]
     IN gp_int' = [gp_int EXCEPT ![Fetched.dest] =
          Alu(Fetched.opcode, gp_int[Fetched.src1], v2, Fetched.immediate, 4 * pc)]
  /\ Advance
  /\ UNCHANGED <<gp_fp, data_memory>>

FpOp ==
  /\ Running(FpAlu)
  /\ gp_fp' = [gp_fp EXCEPT ![Fetched.dest] =
       Alu(Fetched.opcode, gp_fp[Fetched.src1], gp_fp[Fetched.src2], 0, 4 * pc)]
  /\ Advance
  /\ UNCHANGED <<gp_int, data_memory>>

Load ==
  /\ Running({"LW"})
  /\ gp_int' = [gp_int EXCEPT ![Fetched.dest] = LoadedFrom(Address(Fetched.src1))]
  /\ Advance
  /\ UNCHANGED <<gp_fp, data_memory>>

LoadFp ==
  /\ Running({"LWS"})
  /\ gp_fp' = [gp_fp EXCEPT ![Fetched.dest] = LoadedFrom(Address(Fetched.src1))]
  /\ Advance
  /\ UNCHANGED <<gp_int, data_memory>>

Stored(value) == [a \in DOMAIN data_memory |->
                    IF a = Address(Fetched.src2) THEN value ELSE data_memory[a]]

Store ==
  /\ Running({"SW"})
  /\ data_memory' = Stored(gp_int[Fetched.src1])
  /\ Advance
  /\ UNCHANGED <<gp_int, gp_fp>>

StoreFp ==
  /\ Running({"SWS"})
  /\ data_memory' = Stored(gp_fp[Fetched.src1])
  /\ Advance
  /\ UNCHANGED <<gp_int, gp_fp>>

Branch ==
  /\ Running(Branches)
  /\ pc' = Alu(Fetched.opcode, gp_int[Fetched.src1], 0, Fetched.immediate, 4 * pc)
             \div 4
  /\ executed' = executed + 1
  /\ UNCHANGED <<prog, gp_int, gp_fp, data_memory>>

Init ==
  /\ prog \in Programs
  /\ pc = 0
  /\ gp_int \in IntFiles
  /\ gp_fp \in FpFiles
  /\ data_memory \in Memories
  /\ executed = 0

Next == IntOp \/ FpOp \/ Load \/ LoadFp \/ Store \/ StoreFp \/ Branch

Spec == Init /\ [][Next]_vars
=============================================================================
