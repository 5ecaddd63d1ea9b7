------------------------------ MODULE MCFpPipe ------------------------------
(* Set-ups of the pipeline with execution units for TLC. *)
EXTENDS FpPipeProps, TLC

Word3(op, d, s1, s2, imm) ==
  [opcode |-> op, dest |-> d, src1 |-> s1, src2 |-> s2, immediate |-> imm]
R(op, d, s1, s2)  == Word3(op, d, s1, s2, UNDEFINED)
SUBI(d, s1, imm)  == Word3("SUBI", d, s1, UNDEFINED, imm)
LWS(d, imm, b)    == Word3("LWS", d, b, UNDEFINED, imm)
SWS(src, imm, b)  == Word3("SWS", UNDEFINED, src, b, imm)
SW(src, imm, b)   == Word3("SW", UNDEFINED, src, b, imm)

Sequences(alphabet, n) == [0 .. n - 1 -> alphabet]

\* Register 4 is an address.
Moves    == {LWS(1, 0, 4), LWS(2, 4, 4), SWS(1, 0, 4), SW(3, 4, 4), SUBI(4, 4, 4)}
FloatOps == {R("MULTS", 2, 1, 3), R("MULTS", 1, 3, 3), R("DIVS", 3, 1, 2),
             R("ADDS", 1, 2, 3)}

\* Delays far enough apart that no two units are done in the same cycle.
Units == <<Unit("INTEGER", 0), Unit("MULTIPLIER", 11), Unit("ADDER", 5),
           Unit("DIVIDER", 17)>>

\* No two operations use one unit.
OwnUnits(p) == \A m, n \in DOMAIN p :
  m # n /\ p[m].opcode \in FpAlu => UnitFor(p[m].opcode) # UnitFor(p[n].opcode)

\* An operation waits for one instruction at most, and for one that is in a
\* unit only if it comes right behind it.
SeenProducer(p) == \A n \in DOMAIN p :
  LET producers == {m \in 0 .. n - 1 : Awaits(p[n], p[m])}
  IN /\ Cardinality(producers) <= 1
     /\ \A m \in producers : p[m].opcode = "LWS" \/ m = n - 1

\* The other instructions do not wait for operands, so they must not need to.
NoNearOperands(p) == \A m, n \in DOMAIN p :
  m < n /\ n - m <= 2 /\ p[n].opcode \notin FpAlu => ~ Depends(p[m], p[n])

\* No memory access stops the pipeline while a unit counts down.
NoAccessBehind(p) == \A m, n \in DOMAIN p :
  m < n /\ p[m].opcode \in FpAlu => ~ MemoryOp(p[n])

\* As floats of four bits, 39 is rounded up, 76 and 68 lie halfway between two
\* floats, and 72 and 64 are floats.
Machines(programs, latencies, counters) ==
  [prog : programs, latency : latencies, units : {Units},
   delayed : counters, hazard_type : {"RAW"},
   gp_int : {(3 :> 7 @@ 4 :> 64)}, gp_fp : {(1 :> 39 @@ 2 :> 5 @@ 3 :> UNDEFINED)},
   data_memory : {[a \in {56, 60, 64, 68} |-> 132 - a]}]

Plain == {p \in Sequences(Moves \cup FloatOps, 4) :
            SeenProducer(p) /\ NoNearOperands(p)}

\* With a branch, which is not taken: fetch waits for it.
Guard == Word3("BEQZ", UNDEFINED, 3, UNDEFINED, 4)
Guarded == {p \in Sequences(Moves \cup FloatOps \cup {Guard}, 3) :
              /\ SeenProducer(p) /\ NoNearOperands(p)
              /\ \E n \in DOMAIN p : p[n] = Guard}

\* A counter that starts at another number than 0 lets a unit be reused too early.
PipeSetups ==
  Machines(Plain \cup Guarded, {0}, {0})
    \cup Machines({p \in Plain : OwnUnits(p)}, {0}, {5})
    \cup Machines({p \in Plain \cup Guarded : NoAccessBehind(p)}, {2}, {0})

\* Written out, so that TLC does not look for it among the set-ups at each reset.
Restart(l) ==
  [prog |-> (0 :> LWS(1, 0, 4) @@ 1 :> SW(3, 4, 4) @@ 2 :> R("DIVS", 3, 1, 2)
             @@ 3 :> R("ADDS", 1, 2, 3)),
   latency |-> l, units |-> Units, delayed |-> 0, hazard_type |-> "RAW",
   gp_int |-> (3 :> 7 @@ 4 :> 64), gp_fp |-> (1 :> 39 @@ 2 :> 5 @@ 3 :> UNDEFINED),
   data_memory |-> [a \in {56, 60, 64, 68} |-> 132 - a]]

PipeRestarts == {Restart(0), Restart(2)}

ASSUME TheoremsApply ==
  /\ LET clean == {m \in PipeSetups : m.delayed = 0}
     IN KeepInstructions(clean) /\ KeepOperands(clean)
  /\ AddressesFit /\ ProgramsGiven /\ UnitsGiven /\ WordsGiven

-----------------------------------------------------------------------------
(* Programs that end otherwise *)

\* testcase_fp4 with three float registers: operations that wait for themselves.
SelfUpdate ==
  {[m EXCEPT !.units = <<Unit("INTEGER", 0), Unit("ADDER", 4), Unit("MULTIPLIER", 9),
                         Unit("DIVIDER", 19)>>] : m \in Machines(
     {(0 :> R("MULTS", 1, 1, 2) @@ 1 :> R("ADDS", 1, 3, 3) @@ 2 :> R("DIVS", 2, 2, 3)
       @@ 3 :> LWS(2, 0, 4) @@ 4 :> R("MULTS", 2, 3, 3))}, {0}, {0})}

\* To try by hand with ImplementsProgramOrder: a float whose pattern has six
\* significant bits is stored.
FloatStore == Machines({(0 :> SWS(1, 0, 4))}, {0}, {0})

\* To try by hand with NoneLost: the adder and the multiplier are done in the same
\* cycle; the counter is not initialised to 0; an access stops the pipeline while a
\* unit counts down.
SameCycle ==
  Machines({(0 :> R("MULTS", 1, 2, 2) @@ 1 :> SUBI(4, 4, 4) @@ 2 :> SW(3, 4, 4)
             @@ 3 :> SW(3, 4, 4) @@ 4 :> SUBI(4, 4, 4) @@ 5 :> SUBI(4, 4, 4)
             @@ 6 :> R("ADDS", 3, 2, 2))}, {0}, {0})

UnitReused ==
  Machines({(0 :> R("DIVS", 1, 2, 2) @@ 1 :> R("DIVS", 3, 2, 2))}, {0}, {5})
AccessBehind ==
  Machines({(0 :> R("ADDS", 1, 2, 2) @@ 1 :> SW(3, 4, 4) @@ 2 :> SW(3, 4, 4)
             @@ 3 :> SUBI(3, 3, 4))}, {2}, {0})

NoRestarts == {}
=============================================================================
