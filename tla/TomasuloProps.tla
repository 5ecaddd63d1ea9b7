--------------------------- MODULE TomasuloProps ---------------------------
(***************************************************************************)
(* Correctness of the processor of Tomasulo.                               *)
(***************************************************************************)
EXTENDS Tomasulo

UnsignedFunctions(F) == \A f \in F : \A r \in DOMAIN f : f[r] \in Word

SlotType == [pc : Word, state : {"ISSUE", "EXECUTE", "WRITE_RESULT", "COMMIT"},
             ready : BOOLEAN, destination : Word, value : Word, result : Word]

StationRecord == [pc : Word, value1 : Word, value2 : Word, tag1 : Word, tag2 : Word,
                  destination : Word, address : Word, write_result : BOOLEAN]

TypeOK ==
  /\ rob \in [Slots -> SlotType]
  /\ stations \in [Stations -> StationRecord]
  /\ rb_wr_idx \in Slots
  /\ rb_rd_idx \in Slots
  /\ UnsignedFunctions({gp_int, gp_fp, gp_int_tag, gp_fp_tag, data_memory,
                        str_bypass_value})
  /\ count \in Nat
  /\ branch_target \in Word
  /\ clean_rb_idx \in Slots \cup {UNDEFINED}
  /\ clean_str_execution \in Units \cup {UNDEFINED}
  /\ clear_res_stat_idx \subseteq Stations
  /\ \A u \in Units : /\ exec_units[u].pc \in Word
                      /\ exec_units[u].busy \in 0 .. latency[u]
                      /\ exec_units[u].clean \in BOOLEAN
  /\ phase \in {"commit", "store", "reclaim", "write_result", "execute", "issue", "end"}

-----------------------------------------------------------------------------
(* What the theorems ask of the machine and of the programs. *)

\* No unit comes after the memory units: the loop that commits a store ends with the
\* unit that retires it.
MemoryUnitLast == \A u \in Units : UnitType[u] = "MEMORY" => u + 1 \notin Units

\* A retired entry still fills its slot when issue runs, and a program needs stations
\* for its operations.
CanIssue ==
  /\ RobSize > 1
  /\ \A p \in Programs : \A n \in DOMAIN p :
       p[n].opcode # "EOP" =>
         \E j \in Stations : StationType[j] = StationFor(p[n].opcode)

\* An operation reads registers: load_program gives every source it has one of the 32
\* names, and a source it has not the number UNDEFINED.
SourcesNamed ==
  \A p \in Programs : \A n \in DOMAIN p : p[n].opcode # "EOP" =>
    /\ p[n].src1 \in 0 .. 31
    /\ p[n].opcode \in FpAlu \cup IntMulDiv \cup RegisterOps \cup {"SWS"} =>
         p[n].src2 \in 0 .. 31

\* Registers, memory and programs hold words, and a program reads registers there are.
\* A latency of 0 would wrap the count of cycles a unit is busy (sim_ooo.cc:1387).
WordsGiven ==
  /\ BitwiseGivesWords
  /\ UnsignedFunctions(IntFiles \cup FpFiles \cup Memories)
  /\ \A l \in Latencies : \A u \in Units : l[u] \in Nat \ {0}
  /\ \A p \in Programs : \A n \in DOMAIN p : p[n].opcode # "EOP" =>
       /\ p[n].opcode \in FpAlu \cup {"LWS"} => p[n].dest \in 0 .. 31
       /\ IF p[n].opcode \in FpAlu \cup IntMulDiv \cup {"SWS"}
          THEN \A f \in FpFiles : p[n].src1 \in DOMAIN f
          ELSE \A f \in IntFiles : p[n].src1 \in DOMAIN f
       /\ p[n].opcode \in FpAlu \cup IntMulDiv =>
            \A f \in FpFiles : p[n].src2 \in DOMAIN f
       /\ p[n].opcode \in RegisterOps \cup {"SWS"} =>
            \A f \in IntFiles : p[n].src2 \in DOMAIN f

\* When several entries write the base of a store, issue looks the base up by the
\* number of the other source (sim_ooo.cc:1158); some entry has to write that number.
BaseFound ==
  phase = "issue" /\ Instr(count).opcode = "SWS"
    /\ Cardinality(Writers(Instr(count).src2, 0)) > 1
  => Writers(Instr(count).src1, 0) # {}

-----------------------------------------------------------------------------

\* The entries of instructions not yet committed.
Live == {i \in Slots : InFlight(i) /\ i # clean_rb_idx}

Place(i) == Back(i, rb_rd_idx)   \* how far slot i is behind the head

\* The next instruction to take effect.
ArchPC ==
  IF branch_picked THEN branch_target \div 4
  ELSE IF rb_rd_idx \in Live THEN head.pc \div 4 ELSE count

InOrder == INSTANCE SeqMachine WITH pc <- ArchPC, executed <- instructions_executed

(***************************************************************************)
(* Out of order execution, speculation past branches and store-to-load     *)
(* bypassing are invisible: each commit makes exactly the step of the      *)
(* in-order machine, and nothing else changes registers or memory.         *)
(***************************************************************************)
ImplementsProgramOrder == InOrder!Spec

(***************************************************************************)
(* A reset starts the next program as the first one was started.           *)
(***************************************************************************)
RestartsInOrder ==
  /\ InOrder!Init
  /\ [][InOrder!Next \/ InOrder!Init']_(InOrder!vars)

\* The reorder buffer holds consecutive instructions, oldest at the head, and
\* fetch goes on where they end.
RingInOrder ==
  ~ branch_picked =>
    /\ \A i \in Live : /\ Place(i) < Cardinality(Live)
                       /\ rob[i].pc = 4 * (ArchPC + Place(i))
    /\ rb_wr_idx = (rb_rd_idx + Cardinality(Live)) % RobSize
    /\ count = ArchPC + Cardinality(Live)

Boundary == phase = "commit" /\ at = 0

\* Between two cycles a tag names an older instruction in flight without a
\* result; otherwise the station would wait for ever or take another's result.
TagsPending ==
  Boundary =>
    \A j \in Stations : \A t \in {stations[j].tag1, stations[j].tag2} \ {UNDEFINED} :
      /\ t \in Live
      /\ ~ rob[t].ready
      /\ Place(t) < Place(stations[j].destination)

WritesInt(i) == Op(i) \notin Branches /\ ~ IsFp(Op(i))
WritesFp(i)  == IsFp(Op(i)) /\ Op(i) # "SWS"
Dest(i)      == At(rob[i].pc).dest

\* S is the tag of register r: the youngest live slot that writes it, if any.
Names(tag, writers) ==
  IF writers = {} THEN tag = UNDEFINED
  ELSE tag \in writers /\ \A i \in writers : Place(i) <= Place(tag)

\* A register's tag is "the index of the ROB entry that will write this
\* register", UNDEFINED when none will.
RegisterTags ==
  Boundary =>
    /\ \A r \in DOMAIN gp_int :
         Names(gp_int_tag[r], {i \in Live : WritesInt(i) /\ Dest(i) = r})
    /\ \A r \in DOMAIN gp_fp :
         Names(gp_fp_tag[r], {i \in Live : WritesFp(i) /\ Dest(i) = r})

\* An execution unit is held by one instruction in flight, by the store just
\* committed, or by nobody: no unit is lost and none is shared.
UnitsHeld ==
  Boundary =>
    \A u \in Units : exec_units[u].pc # UNDEFINED =>
      /\ u = clean_str_execution \/ \E i \in Live : rob[i].pc = exec_units[u].pc
      /\ Holding(exec_units[u].pc) = {u}

\* An instruction waits in at most one station, which knows its entry, and has
\* one until it has written its result.
StationsMatch ==
  Boundary =>
    /\ \A j \in Stations : stations[j].pc # UNDEFINED =>
         /\ rob[stations[j].destination].pc = stations[j].pc
         /\ Holders(stations[j].destination) = {j}
    /\ \A i \in Live : rob[i].state \in {"ISSUE", "EXECUTE"} => Holders(i) # {}

\* run stops at the EOP the program reaches, never at one seen on a wrong path.
NoEarlyEnd == end_of_program => Instr(ArchPC).opcode = "EOP"

\* run(0) comes to an end.
Terminates == <>end_of_program
=============================================================================
