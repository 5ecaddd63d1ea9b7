------------------------------ MODULE Tomasulo ------------------------------
(***************************************************************************)
(* The dynamically scheduled processor of tomasulo_with_rob (sim_ooo.cc):  *)
(* Tomasulo's algorithm with a reorder buffer.  A clock cycle of run is    *)
(* split at the phases commit, write result, execution, issue and end, in  *)
(* the order of the code; the loops over reorder buffer entries, execution *)
(* units and the issue width take one step an iteration (at counts them).  *)
(*                                                                         *)
(* The machine is deterministic.  Its program, unit latencies, registers   *)
(* and memory are chosen at the start from the sets the constants name.    *)
(* The log, the instruction window and the clock are left out.             *)
(***************************************************************************)
EXTENDS Isa, FiniteSets

CONSTANTS
  RobSize,      \* rob.num_entries
  StationType,  \* the type of each reservation station, by index
  UnitType,     \* the type of each execution unit, by index
  IssueWidth,   \* issue_width
  Programs,     \* instruction memories: functions from 0 .. n - 1
  Latencies,    \* latencies of the units: functions like UnitType
  IntFiles,     \* initial integer registers
  FpFiles,      \* initial floating-point registers
  Memories      \* initial data memories

Slots    == 0 .. RobSize - 1
Stations == DOMAIN StationType
Units    == DOMAIN UnitType

ASSUME TomasuloAssumption ==
  /\ RobSize \in Nat \ {0}
  /\ IssueWidth \in Nat \ {0}
  /\ RobSize + 64 < UNDEFINED
  /\ Stations \subseteq Nat
  /\ Units \subseteq Nat /\ 0 \in Units /\ UNDEFINED \notin Units
  /\ \A p \in Programs : \A n \in DOMAIN p : /\ n \in Nat /\ 4 * n < UNDEFINED
                                            /\ p[n] \in Instruction

VARIABLES
  \* chosen once
  prog, latency,
  \* architectural state
  gp_int, gp_fp, data_memory, instructions_executed,
  gp_int_tag, gp_fp_tag,
  \* fetch and branches
  count, eop, branch_picked, branch_target, branch_end_of_program,
  end_of_program,
  \* reorder buffer, reservation stations, execution units
  rob, rb_wr_idx, rb_rd_idx, stations, exec_units,
  \* store-to-load bypassing
  str_bypass_write, str_bypass_rdy, str_bypass_value, store_com_bypass,
  \* work left for later in the cycle
  clean_rb_idx, clean_str_execution, clear_res_stat_idx,
  \* the point of the cycle
  phase, at

chosen   == <<prog, latency>>
arch     == <<gp_int, gp_fp, data_memory, instructions_executed>>
tags     == <<gp_int_tag, gp_fp_tag>>
front    == <<count, eop, branch_end_of_program>>
branch   == <<branch_picked, branch_target>>
ring     == <<rb_wr_idx, rb_rd_idx>>
waiting  == <<str_bypass_write, str_bypass_value, store_com_bypass>>
bypass   == <<waiting, str_bypass_rdy>>
cleanup  == <<clean_rb_idx, clear_res_stat_idx>>

vars == <<chosen, arch, tags, front, branch, end_of_program, rob, ring, stations,
          exec_units, bypass, cleanup, clean_str_execution, phase, at>>

-----------------------------------------------------------------------------
(* Instructions and structures *)

Eop == [opcode |-> "EOP", src1 |-> UNDEFINED, src2 |-> UNDEFINED,
        dest |-> UNDEFINED, immediate |-> UNDEFINED]

Instr(n) == IF n \in DOMAIN prog THEN prog[n] ELSE Eop
At(pc)   == Instr(pc \div 4)

\* clear_rb leaves result alone: nothing reads it before it is set again.
EmptySlot == [pc |-> UNDEFINED, state |-> "ISSUE", ready |-> FALSE,
              destination |-> UNDEFINED, value |-> UNDEFINED, result |-> UNDEFINED]

EmptyStation ==
  [pc |-> UNDEFINED, value1 |-> UNDEFINED, value2 |-> UNDEFINED,
   tag1 |-> UNDEFINED, tag2 |-> UNDEFINED, destination |-> UNDEFINED,
   address |-> UNDEFINED, write_result |-> FALSE]

IdleUnit == [pc |-> UNDEFINED, busy |-> 0, clean |-> FALSE]

UnitFor(op) ==
  CASE op \in Loads \cup {"SWS"}    -> "MEMORY"
    [] op \in {"ADDS", "SUBS"}      -> "ADDER"
    [] op \in {"MULT", "MULTS"}     -> "MULTIPLIER"
    [] op \in {"DIV", "DIVS"}       -> "DIVIDER"
    [] OTHER                        -> "INTEGER"

StationFor(op) ==
  CASE op \in Loads \cup {"SWS"}    -> "LOAD_B"
    [] op \in {"ADDS", "SUBS"}      -> "ADD_RS"
    [] op \in {"MULT", "MULTS", "DIV", "DIVS"} -> "MULT_RS"
    [] OTHER                        -> "INTEGER_RS"

First(S) == CHOOSE n \in S : \A m \in S : n <= m

FreeUnits(op) == {u \in Units : /\ UnitType[u] = UnitFor(op)
                                /\ exec_units[u].busy = 0
                                /\ exec_units[u].pc = UNDEFINED}

\* Mutant: a station is free whatever it holds.
FreeStationsAny(op) == {j \in Stations : op # "EOP" /\ StationType[j] = StationFor(op)}

FreeStations(op) == {j \in Stations : /\ op # "EOP"
                                      /\ StationType[j] = StationFor(op)
                                      /\ stations[j].pc = UNDEFINED}

\* The entry k places before slot i in the cyclic buffer.
Back(i, k) == (i - k) % RobSize

Holding(pc) == {u \in Units : exec_units[u].pc = pc}

\* Bytes outside data_memory are read as UNDEFINED.
ReadMemory(a) == IF a \in DOMAIN data_memory THEN data_memory[a] ELSE UNDEFINED

-----------------------------------------------------------------------------
(* commit *)

head == rob[rb_rd_idx]

\* Fewer than two instructions were fetched: run skips commit and write_result.
SkipCommit ==
  /\ phase = "commit"
  /\ count < 2
  /\ phase' = IF count >= 1 THEN "execute" ELSE "issue"
  /\ at' = 0
  /\ UNCHANGED <<chosen, arch, tags, front, branch, end_of_program, rob, ring,
                 stations, exec_units, bypass, cleanup, clean_str_execution>>

\* The units as commit finds them: that of the last store is released first.
Released == [u \in Units |-> IF u = clean_str_execution
                             THEN [exec_units[u] EXCEPT !.pc = UNDEFINED]
                             ELSE exec_units[u]]

Committing == phase = "commit" /\ count >= 2 /\ at = 0

\* Mutant: the read index does not wrap.
RetireNoWrap == /\ clean_rb_idx' = rb_rd_idx
                /\ rb_rd_idx' = rb_rd_idx + 1
                /\ instructions_executed' = instructions_executed + 1

Retire == /\ clean_rb_idx' = rb_rd_idx
          /\ rb_rd_idx' = (rb_rd_idx + 1) % RobSize
          /\ instructions_executed' = instructions_executed + 1

GoTo(p) == phase' = p /\ at' = 0

CommitNothing ==
  /\ Committing
  /\ ~ head.ready
  /\ exec_units' = Released
  /\ clean_str_execution' = UNDEFINED
  /\ GoTo("reclaim")
  /\ UNCHANGED <<chosen, arch, tags, front, branch, end_of_program, rob, ring,
                 stations, bypass, cleanup>>

\* A store first takes a memory unit, ...
CommitStoreStart ==
  /\ Committing
  /\ head.ready
  /\ At(head.pc).opcode = "SWS"
  /\ head.state # "COMMIT"
  /\ LET free == {u \in Units : /\ UnitType[u] = "MEMORY"
                                /\ Released[u].busy = 0
                                /\ Released[u].pc = UNDEFINED}
     IN IF free = {} THEN exec_units' = Released /\ UNCHANGED rob
        ELSE /\ exec_units' = [Released EXCEPT ![First(free)] =
                  [@ EXCEPT !.busy = latency[First(free)] - 1, !.pc = head.pc]]
             /\ rob' = [rob EXCEPT ![rb_rd_idx].state = "COMMIT"]
  /\ clean_str_execution' = UNDEFINED
  /\ GoTo("reclaim")
  /\ UNCHANGED <<chosen, arch, tags, front, branch, end_of_program, ring, stations,
                 bypass, cleanup>>

\* ... then writes memory when that unit's latency has passed.  The loop goes on
\* over the other units after the head has moved.
CommitStoreContinue ==
  /\ Committing
  /\ head.ready
  /\ At(head.pc).opcode = "SWS"
  /\ head.state = "COMMIT"
  /\ exec_units' = Released
  /\ clean_str_execution' = UNDEFINED
  /\ GoTo("store")
  /\ UNCHANGED <<chosen, arch, tags, front, branch, end_of_program, rob, ring,
                 stations, bypass, cleanup>>

AfterUnit(u) ==
  IF u + 1 \in Units THEN at' = u + 1 /\ UNCHANGED phase ELSE GoTo("reclaim")

StoreUnitOther ==
  /\ phase = "store"
  /\ exec_units[at].pc # head.pc
  /\ AfterUnit(at)
  /\ UNCHANGED <<chosen, arch, tags, front, branch, end_of_program, rob, ring,
                 stations, exec_units, bypass, cleanup, clean_str_execution>>

StoreUnit ==
  /\ phase = "store"
  /\ exec_units[at].pc = head.pc
  /\ LET left == IF exec_units[at].busy # 0 THEN exec_units[at].busy - 1 ELSE 0
     IN /\ exec_units' = [exec_units EXCEPT ![at].busy = left]
        /\ IF left = 0
           THEN /\ data_memory' =
                     [a \in DOMAIN data_memory |->
                        IF a = head.destination THEN head.value ELSE data_memory[a]]
                /\ Retire
                /\ clean_str_execution' = at
           ELSE UNCHANGED <<data_memory, clean_rb_idx, rb_rd_idx,
                            instructions_executed, clean_str_execution>>
  /\ AfterUnit(at)
  /\ UNCHANGED <<chosen, gp_int, gp_fp, tags, front, branch, end_of_program, rob,
                 rb_wr_idx, stations, bypass, clear_res_stat_idx>>

\* Branches are predicted not taken; a taken one empties the machine when the
\* cycle ends.
CommitBranch ==
  /\ Committing
  /\ head.ready
  /\ At(head.pc).opcode \in Branches
  /\ IF head.value = head.pc + 4
     THEN Retire /\ UNCHANGED branch
     ELSE /\ branch_picked' = TRUE
          /\ branch_target' = head.value
          /\ rb_rd_idx' = 0
          /\ instructions_executed' = instructions_executed + 1
          /\ UNCHANGED clean_rb_idx
  /\ exec_units' = Released
  /\ clean_str_execution' = UNDEFINED
  /\ GoTo("reclaim")
  /\ UNCHANGED <<chosen, gp_int, gp_fp, data_memory, tags, front, end_of_program,
                 rob, rb_wr_idx, stations, bypass, clear_res_stat_idx>>

\* Mutant: the tag is cleared whoever will write the register.
ClearTagAlways(tag, r) == [tag EXCEPT ![r] = UNDEFINED]

\* The tag is kept when a younger instruction will write the register.
ClearTag(tag, r) == [tag EXCEPT ![r] = IF @ = rb_rd_idx THEN UNDEFINED ELSE @]

CommitFp ==
  /\ Committing
  /\ head.ready
  /\ IsFp(At(head.pc).opcode)
  /\ At(head.pc).opcode # "SWS"
  /\ LET r == head.destination - 32
     IN /\ gp_fp' = [gp_fp EXCEPT ![r] = head.value]
        /\ gp_fp_tag' = ClearTag(gp_fp_tag, r)
  /\ Retire
  /\ exec_units' = Released
  /\ clean_str_execution' = UNDEFINED
  /\ GoTo("reclaim")
  /\ UNCHANGED <<chosen, gp_int, data_memory, gp_int_tag, front, branch,
                 end_of_program, rob, rb_wr_idx, stations, bypass, clear_res_stat_idx>>

CommitInt ==
  /\ Committing
  /\ head.ready
  /\ ~ IsFp(At(head.pc).opcode)
  /\ At(head.pc).opcode \notin Branches
  /\ gp_int' = [gp_int EXCEPT ![head.destination] = head.value]
  /\ gp_int_tag' = ClearTag(gp_int_tag, head.destination)
  /\ Retire
  /\ exec_units' = Released
  /\ clean_str_execution' = UNDEFINED
  /\ GoTo("reclaim")
  /\ UNCHANGED <<chosen, gp_fp, data_memory, gp_fp_tag, front, branch,
                 end_of_program, rob, rb_wr_idx, stations, bypass, clear_res_stat_idx>>

\* Mutant: stranded units are kept.
StrandedNever(u) == FALSE

\* The instruction in unit u has left its station, and the unit may be reused.
Stranded(u) == /\ exec_units[u].pc # UNDEFINED
               /\ \E i \in Slots : rob[i].pc = exec_units[u].pc
               /\ \A j \in Stations : stations[j].pc # exec_units[u].pc
               /\ exec_units[u].busy = 0
               /\ clean_str_execution = UNDEFINED

\* Mutant: an EOP fetched behind a taken branch ends the program.
EndedOnWrongPath == (\A i \in Slots : rob[i].pc = UNDEFINED) /\ eop

Ended == /\ \A i \in Slots : rob[i].pc = UNDEFINED
         /\ eop
         /\ ~ branch_end_of_program

\* The end of commit: stranded units are released, unless a store was just
\* committed, and the end of the program is detected.
Reclaim ==
  /\ phase = "reclaim"
  /\ exec_units' = [u \in Units |-> IF Stranded(u)
                                    THEN [exec_units[u] EXCEPT !.pc = UNDEFINED]
                                    ELSE exec_units[u]]
  /\ end_of_program' = Ended
  /\ GoTo("write_result")
  /\ UNCHANGED <<chosen, arch, tags, front, branch, rob, ring, stations, bypass,
                 cleanup, clean_str_execution>>

-----------------------------------------------------------------------------
(* write_result *)

Finished == {j \in Stations : stations[j].write_result}

\* The station whose result slot i takes, if any.
Producers(i) == {j \in Finished : stations[j].pc = rob[i].pc}

Written(i) ==
  LET j == First(Producers(i))
  IN [rob[i] EXCEPT !.state = "WRITE_RESULT", !.ready = TRUE,
        !.value = IF At(rob[i].pc).opcode = "SWS" THEN stations[j].value1
                  ELSE rob[i].result]

\* The unit index of the inner loop is never reset, so only the unit of the
\* first finished station is marked for release.
Marked ==
  IF Finished = {} THEN {} ELSE Holding(stations[First(Finished)].pc)

WriteResult ==
  /\ phase = "write_result"
  /\ str_bypass_rdy' =
       [i \in Slots |-> \/ str_bypass_rdy[i]
                        \/ /\ rob[i].state = "WRITE_RESULT"
                           /\ At(rob[i].pc).opcode = "SWS"]
  /\ rob' = [i \in Slots |-> IF Producers(i) = {} THEN rob[i] ELSE Written(i)]
  /\ exec_units' = [u \in Units |-> IF u \in Marked
                                    THEN [exec_units[u] EXCEPT !.clean = TRUE]
                                    ELSE exec_units[u]]
  /\ clear_res_stat_idx' = clear_res_stat_idx \cup Finished
  /\ GoTo("execute")
  /\ UNCHANGED <<chosen, arch, tags, front, branch, end_of_program, ring, stations,
                 waiting, clean_rb_idx, clean_str_execution>>

-----------------------------------------------------------------------------
(* execution *)

InFlight(i)   == rob[i].pc # UNDEFINED
Holders(i)    == {j \in Stations : stations[j].pc = rob[i].pc}
Station(i)    == First(Holders(i))
Op(i)         == At(rob[i].pc).opcode
HasOperands(j) == stations[j].tag1 = UNDEFINED /\ stations[j].tag2 = UNDEFINED

Executing(i) == phase = "execute" /\ at = i /\ InFlight(i) /\ Holders(i) # {}
Starting(i)  == Executing(i) /\ rob[i].state = "ISSUE" /\ HasOperands(Station(i))
Going(i)     == Executing(i) /\ rob[i].state = "EXECUTE"

\* After the last entry the marked units are released.
NextSlot(units) ==
  IF at + 1 \in Slots
  THEN at' = at + 1 /\ UNCHANGED phase /\ exec_units' = units
  ELSE /\ GoTo("issue")
       /\ exec_units' = [u \in Units |->
            IF units[u].clean THEN [units[u] EXCEPT !.pc = UNDEFINED, !.clean = FALSE]
            ELSE units[u]]

ExecKeeps == UNCHANGED <<chosen, arch, tags, front, branch, end_of_program, ring,
                         str_bypass_rdy, cleanup, clean_str_execution>>

\* The instruction of slot i has spent a cycle in unit u, which was busy for
\* "busy" more cycles.
Work(i, u, busy) ==
  LET j    == Station(i)
      left == IF busy # 0 THEN busy - 1 ELSE 0
      load == Op(i) \in Loads
      addr == IF load /\ left = latency[u] - 1
              THEN Wrap(stations[j].value1 + stations[j].address)
              ELSE stations[j].address
      out  == IF load THEN ReadMemory(addr)
              ELSE Alu(Op(i), stations[j].value1, stations[j].value2,
                       At(rob[i].pc).immediate, rob[i].pc)
  IN /\ rob' = [rob EXCEPT ![i].state = "EXECUTE",
                           ![i].result = IF left = 0 THEN out ELSE @]
     /\ stations' = [stations EXCEPT ![j].address = addr,
                                     ![j].write_result = @ \/ left = 0]
     /\ NextSlot([exec_units EXCEPT ![u] = [@ EXCEPT !.busy = left,
                                                     !.pc = rob[i].pc]])

ExecNothing(i) ==
  /\ phase = "execute"
  /\ at = i
  /\ ~ Starting(i)
  /\ \/ ~ Going(i)
     \/ Op(i) # "SWS" /\ Holding(rob[i].pc) = {}
  /\ NextSlot(exec_units)
  /\ UNCHANGED <<rob, stations, waiting>>
  /\ ExecKeeps

\* A store computes its address, in one cycle and without a unit.
ExecStore(i) ==
  /\ Starting(i) \/ Going(i)
  /\ Op(i) = "SWS"
  /\ LET j == Station(i)
         a == Wrap(stations[j].value2 + stations[j].address)
     IN /\ rob' = [rob EXCEPT ![i].state = "EXECUTE", ![i].destination = a]
        /\ stations' = [stations EXCEPT ![j].address = a, ![j].write_result = TRUE]
  /\ NextSlot(exec_units)
  /\ UNCHANGED waiting
  /\ ExecKeeps

ExecGoOn(i) ==
  /\ Going(i)
  /\ Op(i) # "SWS"
  /\ \E u \in Holding(rob[i].pc) : Work(i, u, exec_units[u].busy)
  /\ UNCHANGED waiting
  /\ ExecKeeps

ExecStart(i) ==
  /\ Starting(i)
  /\ Op(i) \notin Loads \cup {"SWS"}
  /\ LET free == FreeUnits(Op(i))
     IN IF free = {} THEN NextSlot(exec_units) /\ UNCHANGED <<rob, stations>>
        ELSE Work(i, First(free), latency[First(free)])
  /\ UNCHANGED waiting
  /\ ExecKeeps

\* Is the word of slot s, a store, the one at address a, and in which state?
StoresAt(s, a, state) ==
  /\ At(rob[s].pc).opcode = "SWS"
  /\ rob[s].state = state
  /\ rob[s].destination = a

\* Mutant: stores without an address or a result are passed.
IgnoresUnknown(s, a) ==
  CASE StoresAt(s, a, "COMMIT") -> "committing"
    [] StoresAt(s, a, "WRITE_RESULT") ->
         IF str_bypass_rdy[s] THEN "ready" ELSE "written"
    [] OTHER -> "none"

(***************************************************************************)
(* load_store_bp: what the stores before the load in slot i say about its  *)
(* address a.  The nearest one with something to say decides.              *)
(***************************************************************************)
Verdict(s, a) ==
  LET st      == stations[Station(s)]
      unknown == st.tag2 # UNDEFINED \/ Wrap(st.address + st.value2) = a
      store   == At(rob[s].pc).opcode = "SWS"
  IN CASE store /\ rob[s].state = "EXECUTE" /\ st.address = a -> "wait"
       [] store /\ rob[s].state = "ISSUE" /\ unknown -> "wait"
       [] StoresAt(s, a, "COMMIT") -> "committing"
       [] StoresAt(s, a, "WRITE_RESULT") ->
            IF str_bypass_rdy[s] THEN "ready" ELSE "written"
       [] OTHER -> "none"

\* How far back the loop goes: to the head, but not past an empty entry.
Scanned(i) ==
  {k \in Slots : \A m \in 0 .. k : /\ InFlight(Back(i, m))
                                  /\ m < k => Back(i, m) # rb_rd_idx}

Conflicts(i, a) == {k \in Scanned(i) : Verdict(Back(i, k), a) # "none"}

\* [verdict, value]: "none" lets the load go to memory.
Scan(i, a) ==
  IF Conflicts(i, a) = {} THEN [verdict |-> "none", value |-> UNDEFINED]
  ELSE LET s == Back(i, First(Conflicts(i, a)))
       IN [verdict |-> Verdict(s, a), value |-> rob[s].value]

LoadAddress(i) == Wrap(stations[Station(i)].value1 + stations[Station(i)].address)

\* The load of slot i takes the value v of a store.
TakeBypass(i, v) ==
  LET j == Station(i)
  IN /\ rob' = [rob EXCEPT ![i].state = "EXECUTE", ![i].result = v]
     /\ stations' = [stations EXCEPT ![j].value2 = v, ![j].write_result = TRUE,
                                     ![j].address = LoadAddress(i)]
     /\ str_bypass_value' = [str_bypass_value EXCEPT ![j] = 0]
     /\ NextSlot(exec_units)

StartingLoad(i) == Starting(i) /\ Op(i) \in Loads

\* A value announced in an earlier cycle is taken, whatever happened since.
ExecLoadAnnounced(i) ==
  /\ StartingLoad(i)
  /\ str_bypass_write[Station(i)]
  /\ TakeBypass(i, str_bypass_value[Station(i)])
  /\ str_bypass_write' = [str_bypass_write EXCEPT ![Station(i)] = FALSE]
  /\ UNCHANGED store_com_bypass
  /\ ExecKeeps

Undecided(i) == StartingLoad(i) /\ ~ str_bypass_write[Station(i)]

\* What load_store_bp leaves behind in the arrays of the load's station.
Announce(i, scan) ==
  /\ str_bypass_write' = [str_bypass_write EXCEPT ![Station(i)] =
                            @ \/ scan.verdict = "written"]
  /\ store_com_bypass' = (store_com_bypass \/ scan.verdict = "committing")
  /\ str_bypass_value' =
       IF scan.verdict \in {"written", "committing"}
       THEN [str_bypass_value EXCEPT ![Station(i)] = scan.value]
       ELSE str_bypass_value

\* With a free memory unit.
ExecLoad(i) ==
  /\ Undecided(i)
  /\ FreeUnits(Op(i)) # {}
  /\ LET scan == Scan(i, LoadAddress(i))
         u    == First(FreeUnits(Op(i)))
     IN CASE scan.verdict = "none"  -> Work(i, u, latency[u]) /\ UNCHANGED waiting
          [] scan.verdict = "ready" -> /\ TakeBypass(i, scan.value)
                                       /\ UNCHANGED <<str_bypass_write, store_com_bypass>>
          [] OTHER -> /\ Announce(i, scan)
                      /\ NextSlot(exec_units)
                      /\ UNCHANGED <<rob, stations>>
  /\ ExecKeeps

\* Without one, only a value of a store can start the load.  A flag left by
\* another load is taken for one of this load's own; a store that is ready as
\* well then overwrites the value, by then zero.
ExecLoadNoUnit(i) ==
  /\ Undecided(i)
  /\ FreeUnits(Op(i)) = {}
  /\ LET scan == Scan(i, LoadAddress(i))
         own  == IF scan.verdict \in {"written", "committing"} THEN scan.value
                 ELSE str_bypass_value[Station(i)]
     IN IF store_com_bypass \/ scan.verdict = "committing"
        THEN /\ TakeBypass(i, IF scan.verdict = "ready" THEN 0 ELSE own)
             /\ store_com_bypass' = FALSE
             /\ str_bypass_write' = [str_bypass_write EXCEPT ![Station(i)] =
                                       scan.verdict = "written"]
        ELSE IF scan.verdict = "ready"
        THEN /\ TakeBypass(i, scan.value)
             /\ UNCHANGED <<str_bypass_write, store_com_bypass>>
        ELSE /\ Announce(i, scan)
             /\ NextSlot(exec_units)
             /\ UNCHANGED <<rob, stations>>
  /\ ExecKeeps

SkipExecution ==
  \E i \in Slots : ExecNothing(i)

Execution(i) ==
  \/ ExecStore(i)
  \/ ExecStart(i)
  \/ ExecGoOn(i)
  \/ ExecLoadAnnounced(i)
  \/ ExecLoad(i)
  \/ ExecLoadNoUnit(i)

-----------------------------------------------------------------------------
(* issue *)

\* Entries whose destination is register r; floating-point registers are
\* numbered from 32.
Writers(r, base) == {s \in Slots : Wrap(rob[s].destination - base) = r}

\* Mutant: the first entry of the array, wherever the buffer starts.
YoungestFromStart(r, base) ==
  IF Writers(r, base) = {} THEN RobSize + rb_wr_idx ELSE First(Writers(r, base))

\* rb_pick: the youngest of them, going back from the write index; the index
\* past the buffer when there is none.
Youngest(r, base) ==
  IF Writers(r, base) = {} THEN RobSize + rb_wr_idx
  ELSE Back(rb_wr_idx, First({k \in Slots : Back(rb_wr_idx, k) \in Writers(r, base)}))

Known(v)   == [value |-> v, tag |-> UNDEFINED]
Pending(s) == [value |-> UNDEFINED, tag |-> s]

\* What a read of the memory after rob.entries may yield.
Garbage == {Known(0), Known(UNDEFINED), Pending(RobSize)}

From(s) == IF s \notin Slots THEN Garbage
           ELSE IF rob[s].ready THEN {Known(rob[s].value)} ELSE {Pending(s)}

\* The operand held by register r; pick is the register rb_pick is asked for
\* when several entries write r.
Operand(file, r, base, pick) ==
  CASE Cardinality(Writers(r, base)) = 0 -> {Known(file[r])}
    [] Cardinality(Writers(r, base)) = 1 -> From(First(Writers(r, base)))
    [] OTHER -> From(Youngest(pick, base))

NoOperand == {Known(UNDEFINED)}

Operand1(in) ==
  IF in.opcode \in FpAlu \cup IntMulDiv \cup {"SWS"}
  THEN Operand(gp_fp, in.src1, 32, in.src1)
  ELSE Operand(gp_int, in.src1, 0, in.src1)

\* The base register of a store is looked up by the number of the other source.
Operand2(in) ==
  CASE in.opcode \in FpAlu \cup IntMulDiv -> Operand(gp_fp, in.src2, 32, in.src2)
    [] in.opcode = "SWS"                  -> Operand(gp_int, in.src2, 0, in.src1)
    [] in.opcode \in RegisterOps          -> Operand(gp_int, in.src2, 0, in.src2)
    [] OTHER                              -> NoOperand

\* Mutant: the second operand is never delivered.
CapturedFirst(st) ==
  [st EXCEPT
     !.value1 = IF st.tag1 \in Slots /\ rob'[st.tag1].ready
                THEN rob'[st.tag1].value ELSE @,
     !.tag1 = IF st.tag1 \in Slots /\ rob'[st.tag1].ready THEN UNDEFINED ELSE @]

\* tag_updt: waiting operands take the results that are ready.
Captured(st) ==
  [st EXCEPT
     !.value1 = IF st.tag1 \in Slots /\ rob'[st.tag1].ready
                THEN rob'[st.tag1].value ELSE @,
     !.tag1 = IF st.tag1 \in Slots /\ rob'[st.tag1].ready THEN UNDEFINED ELSE @,
     !.value2 = IF st.tag2 \in Slots /\ rob'[st.tag2].ready
                THEN rob'[st.tag2].value ELSE @,
     !.tag2 = IF st.tag2 \in Slots /\ rob'[st.tag2].ready THEN UNDEFINED ELSE @]

\* Mutant: full is one entry too many.
FullTooLate == Cardinality({i \in Slots : InFlight(i)}) > RobSize

Full == \A i \in Slots : InFlight(i)

NextIssue == IF at + 1 < IssueWidth THEN at' = at + 1 /\ UNCHANGED phase
             ELSE GoTo("end")

IssueKeeps == UNCHANGED <<chosen, arch, branch, end_of_program, rb_rd_idx, exec_units,
                          bypass, cleanup, clean_str_execution>>

IssueStall ==
  /\ phase = "issue"
  /\ FreeStations(Instr(count).opcode) = {} \/ Full
  /\ eop' = (eop \/ Instr(count).opcode = "EOP")
  /\ branch_end_of_program' = FALSE
  /\ UNCHANGED <<tags, count, rob, rb_wr_idx>>
  /\ stations' = [j \in Stations |-> Captured(stations[j])]
  /\ NextIssue
  /\ IssueKeeps

Destination(in) ==
  CASE in.opcode \in {"SWS"} \cup Branches -> rob[rb_wr_idx].destination
    [] IsFp(in.opcode) /\ in.opcode # "SWS" -> in.dest + 32
    [] OTHER -> in.dest

Issue ==
  /\ phase = "issue"
  /\ FreeStations(Instr(count).opcode) # {}
  /\ ~ Full
  /\ LET in == Instr(count)
         j  == First(FreeStations(in.opcode))
     IN /\ rob' = [rob EXCEPT ![rb_wr_idx] =
                     [@ EXCEPT !.ready = FALSE, !.pc = count * 4, !.state = "ISSUE",
                               !.destination = Destination(in)]]
        /\ \E o1 \in Operand1(in), o2 \in Operand2(in) :
             LET entry == [stations[j] EXCEPT
                   !.pc = count * 4, !.destination = rb_wr_idx,
                   !.value1 = o1.value, !.tag1 = o1.tag,
                   !.value2 = o2.value, !.tag2 = o2.tag,
                   !.address = IF in.opcode \in Loads \cup {"SWS"}
                               THEN in.immediate ELSE @]
             IN stations' = [k \in Stations |->
                               Captured(IF k = j THEN entry ELSE stations[k])]
        /\ gp_fp_tag' = IF IsFp(in.opcode) /\ in.opcode # "SWS"
                        THEN [gp_fp_tag EXCEPT ![in.dest] = rb_wr_idx] ELSE gp_fp_tag
        /\ gp_int_tag' = IF IsFp(in.opcode) \/ in.opcode \in Branches THEN gp_int_tag
                         ELSE [gp_int_tag EXCEPT ![in.dest] = rb_wr_idx]
  /\ count' = count + 1
  /\ rb_wr_idx' = (rb_wr_idx + 1) % RobSize
  /\ branch_end_of_program' = FALSE
  /\ NextIssue
  /\ UNCHANGED eop
  /\ IssueKeeps

-----------------------------------------------------------------------------
(* The end of the cycle *)

\* Mutant: the loop starts at entry 1.
FlushedSlotsButFirst == [i \in Slots |-> IF i = 0 THEN rob[i] ELSE EmptySlot]

FlushedSlots == [i \in Slots |-> EmptySlot]

\* Mutant: the tags of dropped instructions stay.
FlushedTagsNot(tag) == tag

FlushedTags(tag) == [r \in DOMAIN tag |-> UNDEFINED]

\* A taken branch was committed: everything in flight is dropped.
Flush ==
  /\ phase = "end"
  /\ branch_picked
  /\ count' = branch_target \div 4
  /\ rb_wr_idx' = 0
  /\ branch_picked' = FALSE
  /\ branch_end_of_program' = TRUE
  /\ rob' = FlushedSlots
  /\ stations' = [j \in Stations |-> EmptyStation]
  /\ exec_units' = [u \in Units |-> [exec_units[u] EXCEPT !.pc = UNDEFINED, !.busy = 0]]
  /\ gp_int_tag' = FlushedTags(gp_int_tag)
  /\ gp_fp_tag' = FlushedTags(gp_fp_tag)
  /\ clean_rb_idx' = UNDEFINED
  /\ clear_res_stat_idx' = {}
  /\ GoTo("commit")
  /\ UNCHANGED <<chosen, arch, eop, branch_target, end_of_program, rb_rd_idx, bypass,
                 clean_str_execution>>

EndCycle ==
  /\ phase = "end"
  /\ ~ branch_picked
  /\ rob' = [i \in Slots |-> IF i = clean_rb_idx
                             THEN EmptySlot ELSE rob[i]]
  /\ stations' = [j \in Stations |-> IF j \in clear_res_stat_idx
                                      THEN EmptyStation ELSE stations[j]]
  /\ clean_rb_idx' = UNDEFINED
  /\ clear_res_stat_idx' = {}
  /\ GoTo("commit")
  /\ UNCHANGED <<chosen, arch, tags, front, branch, end_of_program, ring, exec_units,
                 bypass, clean_str_execution>>

-----------------------------------------------------------------------------

Init ==
  /\ prog \in Programs
  /\ latency \in Latencies
  /\ gp_int \in IntFiles
  /\ gp_fp \in FpFiles
  /\ data_memory \in Memories
  /\ instructions_executed = 0
  /\ gp_int_tag = [r \in DOMAIN gp_int |-> UNDEFINED]
  /\ gp_fp_tag = [r \in DOMAIN gp_fp |-> UNDEFINED]
  /\ count = 0
  /\ eop = FALSE
  /\ branch_picked = FALSE
  /\ branch_target = 0
  /\ branch_end_of_program = FALSE
  /\ end_of_program = FALSE
  /\ rob = [i \in Slots |-> EmptySlot]
  /\ rb_wr_idx = 0
  /\ rb_rd_idx = 0
  /\ stations = [j \in Stations |-> EmptyStation]
  /\ exec_units = [u \in Units |-> IdleUnit]
  /\ str_bypass_write = [j \in Stations |-> FALSE]
  /\ str_bypass_rdy = [i \in Slots |-> FALSE]
  /\ str_bypass_value = [j \in Stations |-> 0]
  /\ store_com_bypass = FALSE
  /\ clean_rb_idx = UNDEFINED
  /\ clean_str_execution = UNDEFINED
  /\ clear_res_stat_idx = {}
  /\ phase = "commit"
  /\ at = 0

Commit ==
  \/ SkipCommit
  \/ CommitNothing
  \/ CommitStoreStart
  \/ CommitStoreContinue
  \/ StoreUnitOther
  \/ StoreUnit
  \/ CommitBranch
  \/ CommitFp
  \/ CommitInt
  \/ Reclaim

Next ==
  \/ Commit
  \/ WriteResult
  \/ SkipExecution
  \/ \E i \in Slots : Execution(i)
  \/ IssueStall
  \/ Issue
  \/ Flush
  \/ EndCycle

Spec == Init /\ [][Next]_vars

\* run(0) repeats the cycle until the end of the program.
FairSpec == Spec /\ WF_vars(Next)

-----------------------------------------------------------------------------
(* reset *)

\* Called between two cycles, with the next program, registers and memory of the
\* driver.  An entry keeps state and ready; count, the buffer indices, eop, the
\* branch, end_of_program, the units and the bypass arrays stay as they are.
Reset ==
  /\ phase = "commit" /\ at = 0
  /\ prog' \in Programs
  /\ gp_int' \in IntFiles
  /\ gp_fp' \in FpFiles
  /\ data_memory' \in Memories
  /\ gp_int_tag' = FlushedTags(gp_int_tag)
  /\ gp_fp_tag' = FlushedTags(gp_fp_tag)
  /\ rob' = [i \in Slots |-> [rob[i] EXCEPT !.pc = UNDEFINED, !.destination = UNDEFINED,
                                             !.value = UNDEFINED]]
  /\ stations' = [j \in Stations |-> EmptyStation]
  /\ clean_rb_idx' = UNDEFINED
  /\ clean_str_execution' = UNDEFINED
  /\ instructions_executed' = 0
  /\ UNCHANGED <<latency, front, branch, end_of_program, ring, exec_units, bypass,
                 clear_res_stat_idx, phase, at>>

ResetSpec == Init /\ [][Next \/ Reset]_vars
=============================================================================
