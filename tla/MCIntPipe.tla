----------------------------- MODULE MCIntPipe -----------------------------
(* Set-ups of the integer pipeline for TLC. *)
EXTENDS IntPipeProps, TLC

Word3(op, d, s1, s2, imm) ==
  [opcode |-> op, dest |-> d, src1 |-> s1, src2 |-> s2, immediate |-> imm]
R(op, d, s1, s2)  == Word3(op, d, s1, s2, UNDEFINED)
I(op, d, s1, imm) == Word3(op, d, s1, UNDEFINED, imm)
LW(d, imm, b)     == Word3("LW", d, b, UNDEFINED, imm)
SW(src, imm, b)   == Word3("SW", UNDEFINED, src, b, imm)
B(op, src, n)     == Word3(op, UNDEFINED, src, UNDEFINED, Wrap(4 * n))

Sequences(alphabet, n) == [0 .. n - 1 -> alphabet]

\* Register 4 is an address, and memory holds addresses.
Alphabet == {R("ADD", 1, 1, 2), R("XOR", 2, 3, 3), I("SUBI", 3, 1, 4),
             LW(1, 0, 4), LW(4, 4, 4), SW(1, 0, 4), B("BEQZ", 4, 1)}

Machines(programs, latencies) ==
  [prog : programs, latency : latencies,
   gp_int : {(1 :> 3 @@ 2 :> 5 @@ 3 :> 7 @@ 4 :> 64)},
   data_memory : {[a \in {64, 68} |-> 132 - a]}]

Plain == {p \in Sequences(Alphabet, 4) : OneProducer(p) /\ NoOverwrite(p)}

PipeSetups == Machines(Plain, {0})
                \cup Machines({p \in Plain : QuietAccess(p)}, {2})

\* Written out, so that TLC does not look for them among the set-ups at each reset.
Restart(l) ==
  [prog |-> (0 :> I("SUBI", 3, 1, 4) @@ 1 :> LW(4, 4, 4) @@ 2 :> B("BEQZ", 4, 1)
             @@ 3 :> R("ADD", 1, 1, 2)),
   latency |-> l,
   gp_int |-> (1 :> 3 @@ 2 :> 5 @@ 3 :> 7 @@ 4 :> 64),
   data_memory |-> (64 :> 68 @@ 68 :> 64)]

PipeRestarts == {Restart(0), Restart(2)}

ASSUME TheoremsApply ==
  /\ KeepValues(PipeSetups)
  /\ AddressesFit /\ ProgramsGiven /\ RegistersRead /\ WordsGiven

-----------------------------------------------------------------------------
(* Programs on which the pipeline leaves the program order *)

\* ADDI waits in EXE for the load before it, and the ADDI behind it waits for
\* an operand in ID: inst_decode puts a NOP in the place of the first.
LostInstruction ==
  Machines({(0 :> LW(1, 0, 4) @@ 1 :> I("ADDI", 3, 2, 1) @@ 2 :> I("ADDI", 1, 3, 1))},
           {1})

\* To try by hand with ImplementsProgramOrder: ADD waits for two registers and
\* the stall remembers one of them.
TwoProducers ==
  Machines({(0 :> I("SUBI", 1, 2, 1) @@ 1 :> I("ADDI", 2, 3, 1) @@ 2 :> R("ADD", 3, 1, 2))},
           {0})

NoRestarts == {}
=============================================================================
