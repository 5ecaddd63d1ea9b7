------------------------- MODULE TomasuloInvariants -------------------------
(***************************************************************************)
(* What the processor of Tomasulo keeps beside the order of its buffer,    *)
(* for every machine and program: stations, units and register tags always *)
(* name the instructions in flight they belong to.                         *)
(***************************************************************************)
EXTENDS TomasuloProofs

-----------------------------------------------------------------------------
(* Entries in flight *)

\* The addresses of the instructions in flight grow from the head on, and the next
\* one to be fetched has a greater one.
LEMMA PcOrder ==
  ASSUME IInv, ~ branch_picked
  PROVE  /\ \A i \in Live : /\ i \in Slots
                            /\ rob[i].pc \in Nat /\ rob[i].pc # UNDEFINED
                            /\ rob[i].pc < 4 * count
                            /\ Place(i) \in Nat
         /\ \A i, k \in Live : rob[i].pc < rob[k].pc <=> Place(i) < Place(k)
         /\ \A i, k \in Live : rob[i].pc = rob[k].pc => i = k
<1>1. PICK n \in 0 .. RobSize : Ring(n)
  BY DEF IInv
<1>2. rb_rd_idx \in Slots /\ count \in Nat /\ n \in Nat /\ n <= count
  BY <1>1, Constants DEF IInv, Ring
<1>3. ASSUME NEW i \in Live
      PROVE  /\ i \in Slots /\ Place(i) \in Nat /\ Place(i) < n
             /\ rob[i].pc = 4 * (count - n + Place(i))
             /\ rob[i].pc # UNDEFINED
  <2>1. i \in Slots /\ rob[i].pc # UNDEFINED
    BY DEF Live, InFlight
  <2>2. Place(i) < n
    BY <1>1, <1>2, <2>1, LiveCount
  <2>3. Place(i) \in Nat
    BY <1>2, <2>1, PlaceIs, Constants
  <2> QED
    BY <1>1, <2>1, <2>2, <2>3 DEF Ring
<1>4. \A c, m, p \in Nat : m <= c /\ p < m => /\ 4 * (c - m + p) \in Nat
                                             /\ 4 * (c - m + p) < 4 * c
  OBVIOUS
<1>5. \A c, m, p, q \in Nat : m <= c /\ p < m /\ q < m =>
        /\ 4 * (c - m + p) < 4 * (c - m + q) <=> p < q
        /\ 4 * (c - m + p) = 4 * (c - m + q) => p = q
  OBVIOUS
<1>6. ASSUME NEW i \in Live
      PROVE  rob[i].pc \in Nat /\ rob[i].pc < 4 * count
  BY <1>2, <1>3, <1>4
<1>7. ASSUME NEW i \in Live, NEW k \in Live
      PROVE  /\ rob[i].pc < rob[k].pc <=> Place(i) < Place(k)
             /\ rob[i].pc = rob[k].pc => i = k
  <2>1. /\ rob[i].pc < rob[k].pc <=> Place(i) < Place(k)
        /\ rob[i].pc = rob[k].pc => Place(i) = Place(k)
    BY <1>2, <1>3, <1>5
  <2> QED
    BY <1>2, <1>3, <2>1, PlacesDiffer
<1> QED
  BY <1>3, <1>6, <1>7

\* Steps that do not move the head, issue or clear.
LEMMA LiveKept ==
  ASSUME clean_rb_idx' = clean_rb_idx, rb_rd_idx' = rb_rd_idx, prog' = prog,
         \A i \in Slots : rob'[i].pc = rob[i].pc
  PROVE  /\ Live' = Live
         /\ \A i \in Slots : Place(i)' = Place(i) /\ Op(i)' = Op(i) /\ Dest(i)' = Dest(i)
<1>1. \A pc : At(pc)' = At(pc)
  BY DEF At, Instr
<1>2. \A i \in Slots : /\ Place(i)' = Place(i) /\ Op(i)' = Op(i) /\ Dest(i)' = Dest(i)
                       /\ InFlight(i)' <=> InFlight(i)
  BY <1>1 DEF Place, Back, Op, Dest, InFlight
<1> QED
  BY <1>2 DEF Live

\* The retired entry is the oldest, and no longer in flight.
LEMMA LiveRetired ==
  ASSUME IInv, ~ branch_picked, clean_rb_idx = UNDEFINED, InFlight(rb_rd_idx), Retire,
         prog' = prog, \A i \in Slots : rob'[i].pc = rob[i].pc
  PROVE  /\ rb_rd_idx \in Live /\ rb_rd_idx' \in Slots
         /\ Live' = Live \ {rb_rd_idx}
         /\ \A i \in Live' : /\ Place(i)' = Place(i) - 1
                             /\ rob[rb_rd_idx].pc < rob[i].pc
         /\ \A i \in Slots : Op(i)' = Op(i) /\ Dest(i)' = Dest(i)
<1>1. /\ rb_rd_idx \in Slots /\ rb_rd_idx # UNDEFINED
      /\ clean_rb_idx' = rb_rd_idx /\ rb_rd_idx' = (rb_rd_idx + 1) % RobSize
  BY Constants DEF IInv, Retire
<1>2. rb_rd_idx \in Live
  BY <1>1 DEF Live
<1>3. \A pc : At(pc)' = At(pc)
  BY DEF At, Instr
<1>4. \A i \in Slots : /\ Op(i)' = Op(i) /\ Dest(i)' = Dest(i)
                       /\ InFlight(i)' <=> InFlight(i)
  BY <1>3 DEF Op, Dest, InFlight
<1>5. Live' = Live \ {rb_rd_idx}
  <2>1. \A i \in Slots : i # UNDEFINED
    BY Constants
  <2> QED
    BY <1>1, <1>4, <2>1 DEF Live
<1>6. /\ rb_rd_idx' \in Slots
      /\ \A i \in Slots : i # rb_rd_idx => Place(i)' = Place(i) - 1
  BY <1>1, NextPlace
<1>7. ASSUME NEW i \in Live'
      PROVE  Place(i)' = Place(i) - 1 /\ rob[rb_rd_idx].pc < rob[i].pc
  <2>1. i \in Live /\ i \in Slots /\ i # rb_rd_idx
    BY <1>5 DEF Live
  <2>2. Place(rb_rd_idx) = 0 /\ Place(i) # 0 /\ Place(i) \in Nat
    BY <1>1, <2>1, PlacesDiffer, PlaceIs, Constants
  <2>3. rob[rb_rd_idx].pc < rob[i].pc
    BY <1>2, <2>1, <2>2, PcOrder
  <2> QED
    BY <1>6, <2>1, <2>3
<1> QED
  BY <1>2, <1>4, <1>5, <1>6, <1>7

\* The record of the entry an instruction is issued to.
IssuedSlot == [rob[rb_wr_idx] EXCEPT !.ready = FALSE, !.pc = count * 4, !.state = "ISSUE",
                 !.destination = Destination(Instr(count))]

\* What issue does to the entries and the ring.
LEMMA IssueEntry ==
  ASSUME IInv, Issue
  PROVE  /\ Instr(count).opcode # "EOP" /\ count \in DOMAIN prog
         /\ count * 4 \in Nat /\ count * 4 # UNDEFINED /\ 4 * count < UNDEFINED
         /\ count' = count + 1 /\ rb_wr_idx' = (rb_wr_idx + 1) % RobSize
         /\ rb_rd_idx' = rb_rd_idx /\ clean_rb_idx' = clean_rb_idx
         /\ prog' = prog /\ branch_picked' = branch_picked
         /\ \A i \in Slots : i # rb_wr_idx => rob'[i] = rob[i]
         /\ rb_wr_idx \in Slots =>
              /\ rob'[rb_wr_idx].pc = count * 4
              /\ rob'[rb_wr_idx].state = "ISSUE"
              /\ rob'[rb_wr_idx].ready = FALSE
              /\ rob'[rb_wr_idx].destination = Destination(Instr(count))
<1>1. /\ FreeStations(Instr(count).opcode) # {}
      /\ count' = count + 1 /\ rb_wr_idx' = (rb_wr_idx + 1) % RobSize
      /\ rb_rd_idx' = rb_rd_idx /\ clean_rb_idx' = clean_rb_idx
      /\ prog' = prog /\ branch_picked' = branch_picked
      /\ rob' = [rob EXCEPT ![rb_wr_idx] = IssuedSlot]
  BY DEF Issue, IssueKeeps, chosen, cleanup, branch, IssuedSlot
<1>2. Shaped /\ count \in Nat
  BY DEF IInv
<1>3. Instr(count).opcode # "EOP"
  BY <1>1 DEF FreeStations
<1>4. count \in DOMAIN prog
  BY <1>3 DEF Instr, Eop
<1>5. count * 4 \in Nat /\ count * 4 # UNDEFINED /\ 4 * count < UNDEFINED
  <2>1. 4 * count < UNDEFINED
    BY <1>2, <1>4, TomasuloAssumption DEF Shaped
  <2> QED
    BY <1>2, <2>1, Constants
<1>6. \A i \in Slots : rob'[i] = IF i = rb_wr_idx THEN IssuedSlot ELSE rob[i]
  BY <1>1, <1>2 DEF Shaped
<1>7. rb_wr_idx \in Slots =>
        /\ IssuedSlot.pc = count * 4
        /\ IssuedSlot.state = "ISSUE"
        /\ IssuedSlot.ready = FALSE
        /\ IssuedSlot.destination = Destination(Instr(count))
  BY <1>2, Zenon DEF Shaped, EmptySlot, IssuedSlot
<1> QED
  BY <1>1, <1>3, <1>4, <1>5, <1>6, <1>7

\* The issued instruction is the youngest.
LEMMA LiveIssued ==
  ASSUME IInv, ~ branch_picked, Issue
  PROVE  /\ rb_wr_idx \in Slots /\ ~ InFlight(rb_wr_idx)
         /\ rb_wr_idx \notin Live /\ rb_wr_idx # clean_rb_idx
         /\ Live' = Live \cup {rb_wr_idx}
         /\ \A i \in Slots : Place(i)' = Place(i)
         /\ \A i \in Live : Place(i) < Place(rb_wr_idx)
         /\ \A i \in Slots : i # rb_wr_idx => Op(i)' = Op(i) /\ Dest(i)' = Dest(i)
         /\ \A i \in Slots : i = rb_wr_idx => /\ Op(i)' = Instr(count).opcode
                                              /\ Dest(i)' = Instr(count).dest
<1>1. PICK n \in 0 .. RobSize : Ring(n)
  BY DEF IInv
<1>2. rb_rd_idx \in Slots /\ count \in Nat /\ ~ Full
  BY DEF IInv, Issue
<1>3. /\ \A i \in Slots : rob'[i].pc = IF i = rb_wr_idx THEN count * 4 ELSE rob[i].pc
      /\ count' = count + 1 /\ rb_wr_idx' = (rb_wr_idx + 1) % RobSize
      /\ rb_rd_idx' = rb_rd_idx /\ clean_rb_idx' = clean_rb_idx
      /\ 4 * count < UNDEFINED /\ count * 4 # UNDEFINED /\ prog' = prog
  BY IssueEntry
<1>4. n + 1 \in 0 .. RobSize /\ rb_wr_idx \in Slots /\ ~ InFlight(rb_wr_idx)
  BY <1>1, <1>2, <1>3, RingIssue
<1>5. rb_wr_idx # clean_rb_idx
  BY <1>1, <1>4 DEF Ring
<1>6. \A i \in Slots : Place(i)' = Place(i)
  BY <1>3 DEF Place, Back
<1>7. \A i \in Slots : InFlight(i)' <=> InFlight(i) \/ i = rb_wr_idx
  BY <1>3 DEF InFlight
<1>8. Live' = Live \cup {rb_wr_idx}
  BY <1>3, <1>4, <1>5, <1>7 DEF Live
<1>9. \A i \in Live : Place(i) < Place(rb_wr_idx)
  <2>1. n \in Slots
    BY <1>4, Constants DEF Slots
  <2>2. Place(rb_wr_idx) = n
    BY <1>1, <1>2, <2>1, SlotAt DEF Ring
  <2> QED
    BY <1>1, <1>2, <2>2, LiveCount DEF Live
<1>10. \A pc : At(pc)' = At(pc)
  BY <1>3 DEF At, Instr
<1>11. \A i \in Slots : i # rb_wr_idx => Op(i)' = Op(i) /\ Dest(i)' = Dest(i)
  BY <1>3, <1>10 DEF Op, Dest
<1>12. At(count * 4) = Instr(count)
  <2>1. \A m \in Nat : (m * 4) \div 4 = m
    OBVIOUS
  <2> QED
    BY <1>2, <2>1 DEF At
<1>13. \A i \in Slots : i = rb_wr_idx => /\ Op(i)' = Instr(count).opcode
                                         /\ Dest(i)' = Instr(count).dest
  BY <1>3, <1>10, <1>12 DEF Op, Dest
<1> QED
  BY <1>4, <1>5, <1>6, <1>8, <1>9, <1>11, <1>13 DEF Live

\* The end of a cycle without a flush takes nothing in flight away, ...
LEMMA LiveCleared ==
  ASSUME EndCycle
  PROVE  /\ Live' = Live
         /\ \A i \in Live : rob'[i] = rob[i]
         /\ \A i \in Slots : Place(i)' = Place(i)
         /\ \A i \in Live : Op(i)' = Op(i) /\ Dest(i)' = Dest(i)
<1>1. /\ rob' = [i \in Slots |-> IF i = clean_rb_idx THEN EmptySlot ELSE rob[i]]
      /\ clean_rb_idx' = UNDEFINED /\ prog' = prog /\ rb_rd_idx' = rb_rd_idx
  BY DEF EndCycle, chosen, ring
<1>2. EmptySlot.pc = UNDEFINED
  BY DEF EmptySlot
<1>3. \A i \in Slots : InFlight(i)' <=> InFlight(i) /\ i # clean_rb_idx
  BY <1>1, <1>2 DEF InFlight
<1>4. Live' = Live
  <2>1. \A i \in Slots : i # UNDEFINED
    BY Constants
  <2> QED
    BY <1>1, <1>3, <2>1 DEF Live
<1>5. \A i \in Live : i \in Slots /\ rob'[i] = rob[i]
  BY <1>1 DEF Live
<1>6. \A pc : At(pc)' = At(pc)
  BY <1>1 DEF At, Instr
<1> QED
  BY <1>1, <1>4, <1>5, <1>6 DEF Place, Back, Op, Dest

\* ... and a flush takes all.
LEMMA LiveFlushed == Flush => Live' = {}
<1>1. EmptySlot.pc = UNDEFINED
  BY DEF EmptySlot
<1> QED
  BY <1>1 DEF Flush, FlushedSlots, Live, InFlight

-----------------------------------------------------------------------------
(* Execution *)

\* The units when an iteration ends: the units given, some of them released.
LEMMA NextSlotUnits ==
  ASSUME NEW units, NextSlot(units), phase = "execute", DOMAIN units = Units,
         \A u \in Units : DOMAIN units[u] = DOMAIN IdleUnit, at \in Nat
  PROVE  /\ phase' = "execute" \/ (phase' = "issue" /\ at' = 0)
         /\ at' \in Nat
         /\ \A u \in Units : /\ \/ exec_units'[u].pc = units[u].pc
                                \/ phase' = "issue" /\ exec_units'[u].pc = UNDEFINED
                             /\ exec_units'[u].busy = units[u].busy
<1>1. CASE at + 1 \in Slots
  BY <1>1 DEF NextSlot
<1>2. CASE at + 1 \notin Slots
  <2>1. /\ phase' = "issue" /\ at' = 0
        /\ exec_units' = [u \in Units |->
             IF units[u].clean THEN [units[u] EXCEPT !.pc = UNDEFINED, !.clean = FALSE]
             ELSE units[u]]
    BY <1>2 DEF NextSlot, GoTo
  <2>2. \A u \in Units : /\ \/ exec_units'[u].pc = units[u].pc
                            \/ exec_units'[u].pc = UNDEFINED
                         /\ exec_units'[u].busy = units[u].busy
    BY <2>1, Zenon DEF IdleUnit
  <2> QED
    BY <2>1, <2>2
<1> QED
  BY <1>1, <1>2

\* A cycle of execution of slot i: only its entry and its station change.
Worked(i) ==
  /\ rob[i].state \in {"ISSUE", "EXECUTE"}
  /\ \A k \in Slots : k # i => rob'[k] = rob[k]
  /\ /\ rob'[i].pc = rob[i].pc /\ rob'[i].ready = rob[i].ready
     /\ rob'[i].state = "EXECUTE"
     /\ Op(i) # "SWS" => rob'[i].destination = rob[i].destination
  /\ \A k \in Stations :
       /\ stations'[k].pc = stations[k].pc
       /\ stations'[k].destination = stations[k].destination
       /\ stations'[k].tag1 = stations[k].tag1 /\ stations'[k].tag2 = stations[k].tag2
       /\ k # Station(i) => stations'[k].write_result = stations[k].write_result

\* A unit that goes on with its instruction, or is released when the loop ends.
SameUnit(v) ==
  /\ \/ exec_units'[v].pc = exec_units[v].pc
     \/ phase' = "issue" /\ exec_units'[v].pc = UNDEFINED
  /\ exec_units'[v].busy = exec_units[v].busy

\* Unit u works for slot i: it is the unit that has the instruction, or a free one
\* that takes it.
WorkedIn(i, u) ==
  /\ u \in Units /\ Op(i) # "SWS"
  /\ \/ Going(i) /\ exec_units[u].pc = rob[i].pc
     \/ Starting(i) /\ exec_units[u].pc = UNDEFINED
  /\ \A v \in Units : v # u => SameUnit(v)
  /\ \/ exec_units'[u].pc = rob[i].pc
     \/ phase' = "issue" /\ exec_units'[u].pc = UNDEFINED
  /\ stations'[Station(i)].write_result =>
       \/ exec_units'[u].busy = 0
       \/ stations[Station(i)].write_result
  /\ exec_units[u].busy = 0 /\ Going(i) => exec_units'[u].busy = 0

\* No unit changes hands.
UnitsIdle == \A v \in Units : SameUnit(v)

\* The loop over the entries goes on, and only execution has changed the state.
ExecutionStep ==
  /\ phase = "execute"
  /\ phase' = "execute" \/ (phase' = "issue" /\ at' = 0)
  /\ at' \in Nat
  /\ UNCHANGED <<prog, arch, tags, front, branch_picked, end_of_program, rb_wr_idx,
                 rb_rd_idx, clean_rb_idx, clear_res_stat_idx, clean_str_execution>>

\* An iteration in a unit, ...
LEMMA WorkDoes ==
  ASSUME IInv, at \in Nat, NEW i \in Slots, NEW u \in Units, NEW busy,
         Work(i, u, busy), Op(i) # "SWS",
         \/ Going(i) /\ exec_units[u].pc = rob[i].pc /\ busy = exec_units[u].busy
         \/ Starting(i) /\ exec_units[u].pc = UNDEFINED
  PROVE  /\ Worked(i) /\ WorkedIn(i, u)
         /\ phase' = "execute" \/ (phase' = "issue" /\ at' = 0)
         /\ at' \in Nat
<1> DEFINE j    == Station(i)
           left == IF busy # 0 THEN busy - 1 ELSE 0
           load == Op(i) \in Loads
           addr == IF load /\ left = latency[u] - 1
                   THEN Wrap(stations[j].value1 + stations[j].address)
                   ELSE stations[j].address
           out  == IF load THEN ReadMemory(addr)
                   ELSE Alu(Op(i), stations[j].value1, stations[j].value2,
                            At(rob[i].pc).immediate, rob[i].pc)
           unit == [exec_units[u] EXCEPT !.busy = left, !.pc = rob[i].pc]
           units == [exec_units EXCEPT ![u] = unit]
<1>1. /\ rob' = [rob EXCEPT ![i].state = "EXECUTE",
                            ![i].result = IF left = 0 THEN out ELSE @]
      /\ stations' = [stations EXCEPT ![j].address = addr,
                                      ![j].write_result = @ \/ left = 0]
      /\ NextSlot(units)
  BY DEF Work
<1>2. /\ Shaped /\ phase = "execute" /\ Holders(i) # {}
      /\ rob[i].state \in {"ISSUE", "EXECUTE"}
  BY DEF IInv, Going, Starting, Executing
<1>3. j \in Stations /\ stations[j].pc = rob[i].pc
  BY <1>2, StationHolds
<1>4. busy = 0 => left = 0
  OBVIOUS
<1> HIDE DEF j, left, load, addr, out
<1>5. /\ \A k \in Slots : k # i => rob'[k] = rob[k]
      /\ rob'[i].pc = rob[i].pc /\ rob'[i].ready = rob[i].ready
      /\ rob'[i].state = "EXECUTE" /\ rob'[i].destination = rob[i].destination
  <2> DEFINE e == [rob[i] EXCEPT !.state = "EXECUTE",
                                 !.result = IF left = 0 THEN out ELSE @]
  <2>1. rob' = [rob EXCEPT ![i] = e]
    BY <1>1, <1>2 DEF Shaped
  <2>2. /\ e.pc = rob[i].pc /\ e.ready = rob[i].ready
        /\ e.state = "EXECUTE" /\ e.destination = rob[i].destination
    BY <1>2, Zenon DEF Shaped, EmptySlot
  <2> HIDE DEF e
  <2> QED
    BY <1>2, <2>1, <2>2 DEF Shaped
<1>6. /\ \A k \in Stations :
           /\ stations'[k].pc = stations[k].pc
           /\ stations'[k].destination = stations[k].destination
           /\ stations'[k].tag1 = stations[k].tag1 /\ stations'[k].tag2 = stations[k].tag2
           /\ k # j => stations'[k].write_result = stations[k].write_result
      /\ stations'[j].write_result => left = 0 \/ stations[j].write_result
  <2> DEFINE e == [stations[j] EXCEPT !.address = addr, !.write_result = @ \/ left = 0]
  <2>1. stations' = [stations EXCEPT ![j] = e]
    BY <1>1, <1>2, <1>3 DEF Shaped
  <2>2. /\ e.pc = stations[j].pc /\ e.destination = stations[j].destination
        /\ e.tag1 = stations[j].tag1 /\ e.tag2 = stations[j].tag2
        /\ e.write_result => left = 0 \/ stations[j].write_result
    BY <1>2, <1>3, Zenon DEF Shaped, EmptyStation
  <2> HIDE DEF e
  <2> QED
    BY <1>2, <1>3, <2>1, <2>2 DEF Shaped
<1>7. /\ DOMAIN unit = DOMAIN IdleUnit /\ unit.pc = rob[i].pc /\ unit.busy = left
  BY <1>2, Zenon DEF Shaped, IdleUnit
<1>8. /\ DOMAIN units = Units
      /\ \A v \in Units : units[v] = IF v = u THEN unit ELSE exec_units[v]
  BY <1>2 DEF Shaped
<1> HIDE DEF unit, units
<1>9. \A v \in Units : DOMAIN units[v] = DOMAIN IdleUnit
  BY <1>2, <1>7, <1>8 DEF Shaped
<1>10. /\ phase' = "execute" \/ (phase' = "issue" /\ at' = 0)
       /\ at' \in Nat
       /\ \A v \in Units : /\ \/ exec_units'[v].pc = units[v].pc
                              \/ phase' = "issue" /\ exec_units'[v].pc = UNDEFINED
                           /\ exec_units'[v].busy = units[v].busy
  BY <1>1, <1>2, <1>8, <1>9, NextSlotUnits
<1>11. Worked(i)
  BY <1>2, <1>5, <1>6 DEF Worked, j
<1>12. WorkedIn(i, u)
  <2>1. /\ exec_units'[u].busy = left
        /\ \/ exec_units'[u].pc = rob[i].pc
           \/ phase' = "issue" /\ exec_units'[u].pc = UNDEFINED
    BY <1>7, <1>8, <1>10
  <2>2. \A v \in Units : v # u => SameUnit(v)
    BY <1>8, <1>10 DEF SameUnit
  <2>3. Going(i) => ~ Starting(i)
    BY DEF Going, Starting
  <2> QED
    BY <1>4, <1>6, <2>1, <2>2, <2>3 DEF WorkedIn, j
<1> QED
  BY <1>10, <1>11, <1>12

\* ... one that leaves all units alone ...
LEMMA IdleDoes ==
  ASSUME IInv, at \in Nat, phase = "execute", NextSlot(exec_units)
  PROVE  /\ UnitsIdle
         /\ phase' = "execute" \/ (phase' = "issue" /\ at' = 0)
         /\ at' \in Nat
<1>1. /\ DOMAIN exec_units = Units
      /\ \A u \in Units : DOMAIN exec_units[u] = DOMAIN IdleUnit
  BY DEF IInv, Shaped
<1> QED
  BY <1>1, NextSlotUnits DEF UnitsIdle, SameUnit

\* ... and one that takes the value of a store.
LEMMA BypassDoes ==
  ASSUME IInv, at \in Nat, NEW i \in Slots, StartingLoad(i), NEW v, TakeBypass(i, v)
  PROVE  /\ Worked(i) /\ Starting(i) /\ UnitsIdle /\ Op(i) # "SWS"
         /\ phase' = "execute" \/ (phase' = "issue" /\ at' = 0)
         /\ at' \in Nat
<1> DEFINE j == Station(i)
           a == LoadAddress(i)
<1>1. /\ rob' = [rob EXCEPT ![i].state = "EXECUTE", ![i].result = v]
      /\ stations' = [stations EXCEPT ![j].value2 = v, ![j].write_result = TRUE,
                                      ![j].address = a]
      /\ NextSlot(exec_units)
  BY DEF TakeBypass
<1>2. /\ Shaped /\ phase = "execute" /\ Holders(i) # {} /\ rob[i].state = "ISSUE"
      /\ Op(i) # "SWS" /\ Starting(i)
  BY DEF IInv, StartingLoad, Starting, Executing, Loads
<1>3. j \in Stations /\ stations[j].pc = rob[i].pc
  BY <1>2, StationHolds
<1> HIDE DEF j, a
<1>4. /\ \A k \in Slots : k # i => rob'[k] = rob[k]
      /\ rob'[i].pc = rob[i].pc /\ rob'[i].ready = rob[i].ready
      /\ rob'[i].state = "EXECUTE" /\ rob'[i].destination = rob[i].destination
  <2> DEFINE e == [rob[i] EXCEPT !.state = "EXECUTE", !.result = v]
  <2>1. rob' = [rob EXCEPT ![i] = e]
    BY <1>1, <1>2 DEF Shaped
  <2>2. /\ e.pc = rob[i].pc /\ e.ready = rob[i].ready
        /\ e.state = "EXECUTE" /\ e.destination = rob[i].destination
    BY <1>2, Zenon DEF Shaped, EmptySlot
  <2> HIDE DEF e
  <2> QED
    BY <1>2, <2>1, <2>2 DEF Shaped
<1>5. \A k \in Stations :
        /\ stations'[k].pc = stations[k].pc
        /\ stations'[k].destination = stations[k].destination
        /\ stations'[k].tag1 = stations[k].tag1 /\ stations'[k].tag2 = stations[k].tag2
        /\ k # j => stations'[k].write_result = stations[k].write_result
  <2> DEFINE e == [stations[j] EXCEPT !.value2 = v, !.write_result = TRUE, !.address = a]
  <2>1. stations' = [stations EXCEPT ![j] = e]
    BY <1>1, <1>2, <1>3 DEF Shaped
  <2>2. /\ e.pc = stations[j].pc /\ e.destination = stations[j].destination
        /\ e.tag1 = stations[j].tag1 /\ e.tag2 = stations[j].tag2
    BY <1>2, <1>3, Zenon DEF Shaped, EmptyStation
  <2> HIDE DEF e
  <2> QED
    BY <1>2, <1>3, <2>1, <2>2 DEF Shaped
<1>6. Worked(i)
  BY <1>2, <1>4, <1>5 DEF Worked, j
<1> QED
  BY <1>1, <1>2, <1>6, IdleDoes

\* An iteration of execution: nothing, a cycle of work in a unit, or one without.
LEMMA ExecutionDoes ==
  ASSUME IInv, at \in Nat, NEW i \in Slots, Execution(i) \/ ExecNothing(i)
  PROVE  /\ ExecutionStep
         /\ \/ UNCHANGED <<rob, stations>> /\ UnitsIdle
            \/ /\ Executing(i) /\ Worked(i)
               /\ \/ \E u \in Units : WorkedIn(i, u)
                  \/ UnitsIdle /\ (Starting(i) \/ Op(i) = "SWS")
<1>1. /\ Shaped /\ phase = "execute" /\ ExecKeeps
  BY DEF IInv, Execution, ExecNothing, ExecStore, ExecStart, ExecGoOn,
         ExecLoadAnnounced, ExecLoad, ExecLoadNoUnit, StartingLoad, Undecided, Starting,
         Going, Executing
<1>2. UNCHANGED <<prog, arch, tags, front, branch_picked, end_of_program, rb_wr_idx,
                  rb_rd_idx, clean_rb_idx, clear_res_stat_idx, clean_str_execution>>
  BY <1>1 DEF ExecKeeps, chosen, branch, ring, cleanup
<1> DEFINE Goes == (phase' = "execute" \/ (phase' = "issue" /\ at' = 0)) /\ at' \in Nat
           Does == \/ UNCHANGED <<rob, stations>> /\ UnitsIdle
                   \/ /\ Executing(i) /\ Worked(i)
                      /\ \/ \E u \in Units : WorkedIn(i, u)
                         \/ UnitsIdle /\ (Starting(i) \/ Op(i) = "SWS")
<1> SUFFICES Goes /\ Does
  BY <1>1, <1>2 DEF ExecutionStep
<1>3. ASSUME NextSlot(exec_units), UNCHANGED <<rob, stations>>
      PROVE  Goes /\ Does
  BY <1>1, <1>3, IdleDoes
<1>4. ASSUME NEW u \in Units, NEW busy, Work(i, u, busy), Op(i) # "SWS",
             \/ Going(i) /\ exec_units[u].pc = rob[i].pc /\ busy = exec_units[u].busy
             \/ Starting(i) /\ exec_units[u].pc = UNDEFINED
      PROVE  Goes /\ Does
  <2>1. Executing(i)
    BY <1>4 DEF Starting, Going
  <2>2. Worked(i) /\ WorkedIn(i, u) /\ Goes
    BY <1>4, WorkDoes
  <2> QED
    BY <2>1, <2>2
<1>5. ASSUME StartingLoad(i), NEW v, TakeBypass(i, v)
      PROVE  Goes /\ Does
  <2>1. Executing(i) /\ Starting(i)
    BY <1>5 DEF StartingLoad, Starting
  <2>2. Worked(i) /\ UnitsIdle /\ Goes
    BY <1>5, BypassDoes
  <2> QED
    BY <2>1, <2>2
<1>6. ASSUME FreeUnits(Op(i)) # {}
      PROVE  /\ First(FreeUnits(Op(i))) \in Units
             /\ exec_units[First(FreeUnits(Op(i)))].pc = UNDEFINED
  <2>1. FreeUnits(Op(i)) \in SUBSET Nat
    BY TomasuloAssumption DEF FreeUnits
  <2> QED
    BY <1>6, <2>1, FirstIn DEF FreeUnits
<1>7. CASE ExecNothing(i)
  BY <1>3, <1>7 DEF ExecNothing
<1>8. CASE ExecStore(i)
  <2> DEFINE j == Station(i)
             a == Wrap(stations[j].value2 + stations[j].address)
             e == [rob[i] EXCEPT !.state = "EXECUTE", !.destination = a]
             t == [stations[j] EXCEPT !.address = a, !.write_result = TRUE]
  <2>1. /\ rob' = [rob EXCEPT ![i].state = "EXECUTE", ![i].destination = a]
        /\ stations' = [stations EXCEPT ![j].address = a, ![j].write_result = TRUE]
        /\ NextSlot(exec_units) /\ Op(i) = "SWS"
    BY <1>8 DEF ExecStore
  <2>2. /\ Executing(i) /\ Holders(i) # {}
        /\ rob[i].state \in {"ISSUE", "EXECUTE"}
    BY <1>8 DEF ExecStore, Starting, Going, Executing
  <2>3. j \in Stations
    BY <2>2, StationHolds
  <2> HIDE DEF j, a
  <2>4. /\ rob' = [rob EXCEPT ![i] = e]
        /\ stations' = [stations EXCEPT ![j] = t]
    BY <1>1, <2>1, <2>3 DEF Shaped
  <2>5. e.pc = rob[i].pc /\ e.ready = rob[i].ready /\ e.state = "EXECUTE"
    BY <1>1, Zenon DEF Shaped, EmptySlot
  <2>6. /\ t.pc = stations[j].pc /\ t.destination = stations[j].destination
        /\ t.tag1 = stations[j].tag1 /\ t.tag2 = stations[j].tag2
    BY <1>1, <2>3, Zenon DEF Shaped, EmptyStation
  <2> HIDE DEF e, t
  <2>7. /\ \A k \in Slots : k # i => rob'[k] = rob[k]
        /\ rob'[i].pc = rob[i].pc /\ rob'[i].ready = rob[i].ready
        /\ rob'[i].state = "EXECUTE"
    BY <1>1, <2>4, <2>5 DEF Shaped
  <2>8. \A k \in Stations :
          /\ stations'[k].pc = stations[k].pc
          /\ stations'[k].destination = stations[k].destination
          /\ stations'[k].tag1 = stations[k].tag1 /\ stations'[k].tag2 = stations[k].tag2
          /\ k # j => stations'[k].write_result = stations[k].write_result
    BY <1>1, <2>3, <2>4, <2>6 DEF Shaped
  <2>9. Worked(i)
    BY <2>1, <2>2, <2>7, <2>8 DEF Worked, j
  <2> QED
    BY <1>1, <2>1, <2>2, <2>9, IdleDoes
<1>9. CASE ExecStart(i)
  <2>1. Starting(i) /\ Op(i) # "SWS"
    BY <1>9 DEF ExecStart
  <2>2. CASE FreeUnits(Op(i)) = {}
    BY <1>3, <1>9, <2>2 DEF ExecStart
  <2>3. CASE FreeUnits(Op(i)) # {}
    <3>1. Work(i, First(FreeUnits(Op(i))), latency[First(FreeUnits(Op(i)))])
      BY <1>9, <2>3 DEF ExecStart
    <3> QED
      BY <1>4, <1>6, <2>1, <2>3, <3>1
  <2> QED
    BY <2>2, <2>3
<1>10. CASE ExecGoOn(i)
  <2>1. PICK u \in Holding(rob[i].pc) : Work(i, u, exec_units[u].busy)
    BY <1>10 DEF ExecGoOn
  <2>2. Going(i) /\ Op(i) # "SWS" /\ u \in Units /\ exec_units[u].pc = rob[i].pc
    BY <1>10 DEF ExecGoOn, Holding
  <2> QED
    BY <1>4, <2>1, <2>2
<1>11. CASE ExecLoadAnnounced(i)
  BY <1>5, <1>11 DEF ExecLoadAnnounced
<1>12. CASE ExecLoad(i)
  <2>1. FreeUnits(Op(i)) # {} /\ StartingLoad(i) /\ Starting(i) /\ Op(i) # "SWS"
    BY <1>12 DEF ExecLoad, Undecided, StartingLoad, Loads
  <2>2. \/ Work(i, First(FreeUnits(Op(i))), latency[First(FreeUnits(Op(i)))])
        \/ TakeBypass(i, Scan(i, LoadAddress(i)).value)
        \/ NextSlot(exec_units) /\ UNCHANGED <<rob, stations>>
    BY <1>12 DEF ExecLoad
  <2>3. CASE Work(i, First(FreeUnits(Op(i))), latency[First(FreeUnits(Op(i)))])
    BY <1>4, <1>6, <2>1, <2>3
  <2> QED
    BY <1>3, <1>5, <2>1, <2>2, <2>3
<1>13. CASE ExecLoadNoUnit(i)
  <2>1. StartingLoad(i)
    BY <1>13 DEF ExecLoadNoUnit, Undecided
  <2>2. \/ \E v : TakeBypass(i, v)
        \/ NextSlot(exec_units) /\ UNCHANGED <<rob, stations>>
    BY <1>13, Zenon DEF ExecLoadNoUnit
  <2> QED
    BY <1>3, <1>5, <2>1, <2>2
<1> HIDE DEF Goes, Does
<1> QED
  BY <1>7, <1>8, <1>9, <1>10, <1>11, <1>12, <1>13 DEF Execution

-----------------------------------------------------------------------------
(* The other phases *)

\* What commit changes in the entries and the ring: nothing, or the head retires, or
\* a taken branch is found.
LEMMA CommitDoes ==
  ASSUME IInv, Commit
  PROVE  /\ stations' = stations /\ clear_res_stat_idx' = clear_res_stat_idx
         /\ count' = count /\ prog' = prog
         /\ phase \in {"commit", "store", "reclaim"}
         /\ phase' \in {"store", "reclaim", "write_result", "execute", "issue"}
         /\ \A i \in Slots :
              /\ rob'[i].pc = rob[i].pc /\ rob'[i].ready = rob[i].ready
              /\ rob'[i].destination = rob[i].destination
              /\ \/ rob'[i].state = rob[i].state
                 \/ /\ i = rb_rd_idx /\ rob[i].ready /\ Op(i) = "SWS"
                    /\ rob'[i].state = "COMMIT"
         /\ \/ branch_picked'
            \/ UNCHANGED <<rb_wr_idx, rb_rd_idx, clean_rb_idx, branch_picked>>
            \/ /\ clean_rb_idx = UNDEFINED /\ InFlight(rb_rd_idx) /\ Retire
               /\ ~ branch_picked /\ ~ branch_picked' /\ rb_wr_idx' = rb_wr_idx
               /\ head.ready \/ phase = "store"
               /\ phase' # "store" \/ phase = "store"
         /\ phase' = "store" /\ phase # "store" => head.ready
<1>1. /\ stations' = stations /\ clear_res_stat_idx' = clear_res_stat_idx
      /\ count' = count /\ prog' = prog /\ rb_wr_idx' = rb_wr_idx
      /\ phase \in {"commit", "store", "reclaim"}
      /\ phase' \in {"store", "reclaim", "write_result", "execute", "issue"}
      /\ phase' = "store" /\ phase # "store" => head.ready
  BY DEF Commit, SkipCommit, CommitNothing, CommitStoreStart, CommitStoreContinue,
         StoreUnitOther, StoreUnit, CommitBranch, CommitFp, CommitInt, Reclaim,
         Committing, GoTo, AfterUnit, chosen, front, ring, cleanup
<1>2. \/ branch_picked'
      \/ UNCHANGED <<rb_wr_idx, rb_rd_idx, clean_rb_idx, branch_picked>>
      \/ /\ clean_rb_idx = UNDEFINED /\ InFlight(rb_rd_idx) /\ Retire
         /\ ~ branch_picked /\ ~ branch_picked' /\ rb_wr_idx' = rb_wr_idx
         /\ head.ready \/ phase = "store"
         /\ phase' # "store" \/ phase = "store"
  <2>1. CASE SkipCommit \/ CommitNothing \/ CommitStoreStart \/ CommitStoreContinue
             \/ StoreUnitOther \/ Reclaim
    BY <2>1 DEF SkipCommit, CommitNothing, CommitStoreStart, CommitStoreContinue,
                StoreUnitOther, Reclaim, ring, cleanup, branch
  <2>2. CASE CommitFp \/ CommitInt
    <3>1. /\ phase = "commit" /\ head.ready /\ Retire /\ branch_picked' = branch_picked
          /\ phase' = "reclaim"
      BY <2>2 DEF CommitFp, CommitInt, Committing, branch, GoTo
    <3> QED
      BY <1>1, <3>1, HeadReady
  <2>3. CASE CommitBranch
    <3>1. /\ phase = "commit" /\ head.ready /\ phase' = "reclaim"
          /\ branch_picked' \/ (Retire /\ branch_picked' = branch_picked)
      BY <2>3 DEF CommitBranch, Committing, branch, GoTo
    <3> QED
      BY <1>1, <3>1, HeadReady
  <2>4. CASE StoreUnit
    <3>1. /\ phase = "store" /\ branch_picked' = branch_picked
          /\ Retire \/ UNCHANGED <<clean_rb_idx, rb_rd_idx>>
      BY <2>4 DEF StoreUnit, branch
    <3> QED
      BY <1>1, <3>1 DEF IInv, InPhase
  <2> QED
    BY <2>1, <2>2, <2>3, <2>4 DEF Commit
<1>3. \A i \in Slots :
        /\ rob'[i].pc = rob[i].pc /\ rob'[i].ready = rob[i].ready
        /\ rob'[i].destination = rob[i].destination
        /\ \/ rob'[i].state = rob[i].state
           \/ /\ i = rb_rd_idx /\ rob[i].ready /\ Op(i) = "SWS"
              /\ rob'[i].state = "COMMIT"
  <2>1. CASE UNCHANGED rob
    BY <2>1
  <2>2. CASE /\ head.ready /\ At(head.pc).opcode = "SWS"
             /\ rob' = [rob EXCEPT ![rb_rd_idx].state = "COMMIT"]
    <3> DEFINE e == [rob[rb_rd_idx] EXCEPT !.state = "COMMIT"]
    <3>1. rb_rd_idx \in Slots /\ Shaped
      BY DEF IInv
    <3>2. rob' = [rob EXCEPT ![rb_rd_idx] = e]
      BY <2>2, <3>1 DEF Shaped
    <3>3. /\ e.pc = rob[rb_rd_idx].pc /\ e.ready = rob[rb_rd_idx].ready
          /\ e.destination = rob[rb_rd_idx].destination /\ e.state = "COMMIT"
      BY <3>1, Zenon DEF Shaped, EmptySlot
    <3> HIDE DEF e
    <3> QED
      BY <2>2, <3>1, <3>2, <3>3 DEF Shaped, Op, head
  <2> QED
    BY <2>1, <2>2
       DEF Commit, SkipCommit, CommitNothing, CommitStoreStart, CommitStoreContinue,
           StoreUnitOther, StoreUnit, CommitBranch, CommitFp, CommitInt, Reclaim
<1> QED
  BY <1>1, <1>2, <1>3

\* What write_result changes: the entries of the stations with a result.
LEMMA WriteResultDoes ==
  ASSUME IInv, WriteResult
  PROVE  /\ phase = "write_result" /\ phase' = "execute" /\ at' = 0
         /\ UNCHANGED <<prog, arch, tags, front, branch_picked, end_of_program, rb_wr_idx,
                        rb_rd_idx, clean_rb_idx, stations, clean_str_execution>>
         /\ clear_res_stat_idx' = clear_res_stat_idx \cup Finished
         /\ \A i \in Slots :
              /\ rob'[i].pc = rob[i].pc /\ rob'[i].destination = rob[i].destination
              /\ Producers(i) = {} => rob'[i] = rob[i]
              /\ Producers(i) # {} => rob'[i].ready /\ rob'[i].state = "WRITE_RESULT"
         /\ \A u \in Units : /\ exec_units'[u].pc = exec_units[u].pc
                             /\ exec_units'[u].busy = exec_units[u].busy
<1>1. /\ rob' = [i \in Slots |-> IF Producers(i) = {} THEN rob[i] ELSE Written(i)]
      /\ exec_units' = [u \in Units |-> IF u \in Marked
                                        THEN [exec_units[u] EXCEPT !.clean = TRUE]
                                        ELSE exec_units[u]]
      /\ clear_res_stat_idx' = clear_res_stat_idx \cup Finished
      /\ UNCHANGED <<prog, arch, tags, front, branch_picked, end_of_program, rb_wr_idx,
                     rb_rd_idx, clean_rb_idx, stations, clean_str_execution>>
      /\ phase = "write_result" /\ phase' = "execute" /\ at' = 0
  BY DEF WriteResult, GoTo, chosen, branch, ring
<1>2. Shaped
  BY DEF IInv
<1>3. \A u \in Units : /\ exec_units'[u].pc = exec_units[u].pc
                       /\ exec_units'[u].busy = exec_units[u].busy
  BY <1>1, <1>2, Zenon DEF Shaped, IdleUnit
<1>4. ASSUME NEW i \in Slots, Producers(i) # {}
      PROVE  /\ rob'[i].pc = rob[i].pc /\ rob'[i].destination = rob[i].destination
             /\ rob'[i].ready /\ rob'[i].state = "WRITE_RESULT"
  <2> DEFINE v == IF At(rob[i].pc).opcode = "SWS"
                  THEN stations[First(Producers(i))].value1 ELSE rob[i].result
  <2>1. rob'[i] = [rob[i] EXCEPT !.state = "WRITE_RESULT", !.ready = TRUE, !.value = v]
    BY <1>1, <1>4 DEF Written
  <2> HIDE DEF v
  <2> QED
    BY <1>2, <2>1, Zenon DEF Shaped, EmptySlot
<1>5. \A i \in Slots : Producers(i) = {} => rob'[i] = rob[i]
  BY <1>1
<1> QED
  BY <1>1, <1>3, <1>4, <1>5

\* Operands that are ready are taken by the stations, whatever else they hold.
LEMMA CapturedDoes ==
  ASSUME NEW st, DOMAIN st = DOMAIN EmptyStation
  PROVE  /\ Captured(st).pc = st.pc
         /\ Captured(st).destination = st.destination
         /\ Captured(st).write_result = st.write_result
         /\ Captured(st).tag1 = IF st.tag1 \in Slots /\ rob'[st.tag1].ready
                                THEN UNDEFINED ELSE st.tag1
         /\ Captured(st).tag2 = IF st.tag2 \in Slots /\ rob'[st.tag2].ready
                                THEN UNDEFINED ELSE st.tag2
  BY Zenon DEF Captured, EmptyStation

\* What is left of a tag when the results of the next state have been taken.
Left(tag) == IF tag \in Slots /\ rob'[tag].ready THEN UNDEFINED ELSE tag

\* A station that only looks for its operands.
Listens(j) ==
  /\ stations'[j].pc = stations[j].pc
  /\ stations'[j].destination = stations[j].destination
  /\ stations'[j].write_result = stations[j].write_result
  /\ stations'[j].tag1 = Left(stations[j].tag1)
  /\ stations'[j].tag2 = Left(stations[j].tag2)

\* The station an instruction is issued to gets its address, entry and operands.
LEMMA IssueStation ==
  ASSUME IInv, Issue
  PROVE  \E j \in Stations, o1 \in Operand1(Instr(count)), o2 \in Operand2(Instr(count)) :
           /\ stations[j].pc = UNDEFINED
           /\ stations'[j].pc = count * 4 /\ stations'[j].destination = rb_wr_idx
           /\ stations'[j].write_result = stations[j].write_result
           /\ stations'[j].tag1 = Left(o1.tag) /\ stations'[j].tag2 = Left(o2.tag)
           /\ \A k \in Stations : k # j => Listens(k)
<1> DEFINE in == Instr(count)
           j  == First(FreeStations(in.opcode))
           entry(o1, o2) ==
             [stations[j] EXCEPT
                !.pc = count * 4, !.destination = rb_wr_idx,
                !.value1 = o1.value, !.tag1 = o1.tag,
                !.value2 = o2.value, !.tag2 = o2.tag,
                !.address = IF in.opcode \in Loads \cup {"SWS"}
                            THEN in.immediate ELSE @]
<1>1. PICK o1 \in Operand1(in), o2 \in Operand2(in) :
        stations' = [k \in Stations |-> Captured(IF k = j THEN entry(o1, o2)
                                                 ELSE stations[k])]
  BY DEF Issue
<1>2. Shaped
  BY DEF IInv
<1>3. j \in Stations /\ stations[j].pc = UNDEFINED
  <2>1. FreeStations(in.opcode) \in SUBSET Nat /\ FreeStations(in.opcode) # {}
    BY TomasuloAssumption DEF FreeStations, Issue
  <2> QED
    BY <2>1, FirstIn DEF FreeStations
<1> HIDE DEF j
<1> DEFINE e == entry(o1, o2)
<1>4. /\ DOMAIN e = DOMAIN EmptyStation
      /\ e.pc = count * 4 /\ e.destination = rb_wr_idx
      /\ e.write_result = stations[j].write_result
      /\ e.tag1 = o1.tag /\ e.tag2 = o2.tag
  BY <1>2, <1>3, Zenon DEF Shaped, EmptyStation
<1>5. /\ stations'[j] = Captured(e)
      /\ \A k \in Stations : k # j => stations'[k] = Captured(stations[k])
  <2> HIDE DEF entry
  <2> QED
    BY <1>1, <1>3
<1> HIDE DEF e
<1>6. /\ stations'[j].pc = count * 4 /\ stations'[j].destination = rb_wr_idx
      /\ stations'[j].write_result = stations[j].write_result
      /\ stations'[j].tag1 = Left(o1.tag) /\ stations'[j].tag2 = Left(o2.tag)
  BY <1>4, <1>5, CapturedDoes DEF Left
<1>7. ASSUME NEW k \in Stations, k # j
      PROVE  Listens(k)
  <2>1. stations'[k] = Captured(stations[k])
    BY <1>5, <1>7
  <2>2. DOMAIN stations[k] = DOMAIN EmptyStation
    BY <1>2 DEF Shaped
  <2> QED
    BY <2>1, <2>2, CapturedDoes DEF Listens, Left
<1> QED
  BY <1>3, <1>6, <1>7 DEF in

\* When nothing is issued, all stations only listen.
LEMMA StallDoes ==
  ASSUME IInv, IssueStall
  PROVE  /\ \A j \in Stations : Listens(j)
         /\ UNCHANGED <<prog, arch, tags, count, branch_picked, end_of_program, rob,
                        rb_wr_idx, rb_rd_idx, exec_units, clean_rb_idx,
                        clear_res_stat_idx, clean_str_execution>>
         /\ phase = "issue" /\ phase' \in {"issue", "end"}
<1>1. /\ stations' = [j \in Stations |-> Captured(stations[j])]
      /\ UNCHANGED <<prog, arch, tags, count, branch_picked, end_of_program, rob,
                     rb_wr_idx, rb_rd_idx, exec_units, clean_rb_idx,
                     clear_res_stat_idx, clean_str_execution>>
      /\ phase = "issue" /\ phase' \in {"issue", "end"}
  BY DEF IssueStall, IssueKeeps, NextIssue, GoTo, chosen, branch, cleanup
<1>2. ASSUME NEW j \in Stations
      PROVE  Listens(j)
  <2>1. stations'[j] = Captured(stations[j])
    BY <1>1
  <2>2. DOMAIN stations[j] = DOMAIN EmptyStation
    BY DEF IInv, Shaped
  <2> QED
    BY <2>1, <2>2, CapturedDoes DEF Listens, Left
<1> QED
  BY <1>1, <1>2

-----------------------------------------------------------------------------
(* Stations and entries belong together *)

Held(j)   == stations[j].pc # UNDEFINED
Entry(j)  == stations[j].destination
Waits(i)  == rob[i].state \in {"ISSUE", "EXECUTE"}

\* An address before those of all instructions in flight or still to be fetched.
Older(pc) == pc < 4 * count /\ \A i \in Live : pc < rob[i].pc

\* The entry retired in this cycle has a result, and is older than all others.
RetiredOlder ==
  clean_rb_idx # UNDEFINED => /\ Older(rob[clean_rb_idx].pc)
                              /\ rob[clean_rb_idx].ready

\* An instruction in flight has no result exactly as long as it waits in a station,
\* which is to be cleared as soon as the result is written.
WaitsInStation ==
  \A i \in Live : /\ Waits(i) <=> ~ rob[i].ready
                  /\ Waits(i) => \E j \in Stations : Held(j) /\ Entry(j) = i

StationHoldsLive ==
  \A j \in Stations :
    IF Held(j) THEN /\ Entry(j) \in Live
                    /\ rob[Entry(j)].pc = stations[j].pc
                    /\ rob[Entry(j)].ready <=> j \in clear_res_stat_idx
                    /\ stations[j].write_result => rob[Entry(j)].state # "ISSUE"
    ELSE j \notin clear_res_stat_idx

NoneTwice ==
  \A j, k \in Stations : Held(j) /\ stations[j].pc = stations[k].pc => j = k

ClearedLater ==
  /\ phase \in {"commit", "store", "reclaim", "write_result"} => clear_res_stat_idx = {}
  /\ phase = "store" => head.ready

StationsInv ==
  /\ at \in Nat
  /\ ~ branch_picked => /\ RetiredOlder
                        /\ WaitsInStation
                        /\ StationHoldsLive
                        /\ NoneTwice
                        /\ ClearedLater

\* A step that leaves stations with their instructions, and the entries waiting or
\* not as they are.
LEMMA StationsStay ==
  ASSUME WaitsInStation, StationHoldsLive, NoneTwice,
         Live' = Live, clear_res_stat_idx' = clear_res_stat_idx,
         \A i \in Live : /\ rob'[i].pc = rob[i].pc /\ rob'[i].ready = rob[i].ready
                         /\ rob'[i].state \in {"ISSUE", "EXECUTE"} <=> Waits(i)
                         /\ rob'[i].state = "ISSUE" => rob[i].state = "ISSUE",
         \A j \in Stations : /\ stations'[j].pc = stations[j].pc
                             /\ stations'[j].destination = stations[j].destination
                             /\ stations'[j].write_result =>
                                  \/ stations[j].write_result
                                  \/ Held(j) /\ rob'[Entry(j)].state # "ISSUE"
  PROVE  WaitsInStation' /\ StationHoldsLive' /\ NoneTwice'
<1>1. \A j \in Stations : (Held(j)' <=> Held(j)) /\ Entry(j)' = Entry(j)
  BY DEF Held, Entry
<1>2. WaitsInStation'
  BY <1>1 DEF WaitsInStation, Waits
<1>3. StationHoldsLive'
  <2>1. ASSUME NEW j \in Stations
        PROVE  IF Held(j) THEN /\ Entry(j) \in Live
                               /\ rob'[Entry(j)].pc = stations'[j].pc
                               /\ rob'[Entry(j)].ready <=> j \in clear_res_stat_idx
                               /\ stations'[j].write_result =>
                                    rob'[Entry(j)].state # "ISSUE"
               ELSE j \notin clear_res_stat_idx
    <3>1. CASE Held(j)
      <4>1. /\ Entry(j) \in Live /\ rob[Entry(j)].pc = stations[j].pc
            /\ rob[Entry(j)].ready <=> j \in clear_res_stat_idx
            /\ stations[j].write_result => rob[Entry(j)].state # "ISSUE"
        BY <3>1 DEF StationHoldsLive
      <4> QED
        BY <3>1, <4>1
    <3>2. CASE ~ Held(j)
      BY <3>2 DEF StationHoldsLive
    <3> QED
      BY <3>1, <3>2
  <2> QED
    BY <1>1, <2>1 DEF StationHoldsLive, Entry
<1>4. NoneTwice'
  BY <1>1 DEF NoneTwice
<1> QED
  BY <1>2, <1>3, <1>4

\* ... and the one retired before the others.
LEMMA RetiredStays ==
  ASSUME IInv, ~ branch_picked, RetiredOlder, Live' = Live, clean_rb_idx' = clean_rb_idx,
         count' = count,
         \A i \in Slots : /\ rob'[i].pc = rob[i].pc
                          /\ rob[i].ready => rob'[i].ready
  PROVE  RetiredOlder'
<1>1. PICK n \in 0 .. RobSize : Ring(n)
  BY DEF IInv
<1>2. clean_rb_idx # UNDEFINED => clean_rb_idx \in Slots
  BY <1>1 DEF Ring
<1>3. \A i \in Live : i \in Slots
  BY DEF Live
<1>4. \A pc : Older(pc)' <=> Older(pc)
  BY <1>3 DEF Older
<1>5. ASSUME clean_rb_idx # UNDEFINED
      PROVE  Older(rob'[clean_rb_idx].pc) /\ rob'[clean_rb_idx].ready
  BY <1>2, <1>5 DEF RetiredOlder
<1> QED
  BY <1>3, <1>5 DEF RetiredOlder, Older

\* Only an instruction in flight is executed: no station has the retired one.
LEMMA ExecutesLive ==
  ASSUME IInv, ~ branch_picked, RetiredOlder, StationHoldsLive, NEW i \in Slots,
         Executing(i)
  PROVE  /\ i \in Live /\ Station(i) \in Stations
         /\ Held(Station(i)) /\ Entry(Station(i)) = i
         /\ stations[Station(i)].pc = rob[i].pc
<1>1. InFlight(i) /\ Holders(i) # {}
  BY DEF Executing
<1>2. /\ Station(i) \in Stations /\ stations[Station(i)].pc = rob[i].pc
      /\ Held(Station(i))
  BY <1>1, StationHolds DEF Held, InFlight
<1>3. Entry(Station(i)) \in Live /\ rob[Entry(Station(i))].pc = rob[i].pc
  BY <1>2 DEF StationHoldsLive
<1>4. i # clean_rb_idx
  <2>1. SUFFICES ASSUME i = clean_rb_idx PROVE FALSE
    OBVIOUS
  <2>2. i # UNDEFINED
    BY Constants
  <2>3. rob[i].pc < rob[Entry(Station(i))].pc
    BY <1>3, <2>1, <2>2 DEF RetiredOlder, Older
  <2>4. rob[i].pc \in Nat
    BY DEF IInv, Shaped
  <2> QED
    BY <1>3, <2>3, <2>4
<1>5. i \in Live
  BY <1>1, <1>4 DEF Live
<1>6. Entry(Station(i)) = i
  BY <1>3, <1>5, PcOrder
<1> QED
  BY <1>2, <1>5, <1>6

\* Commit: the head that retires has been cleared from its station, ...
LEMMA CommitStations ==
  ASSUME IInv, IInv', StationsInv, Commit
  PROVE  StationsInv'
<1>1. at' \in Nat
  <2>1. at \in Nat /\ Units \subseteq Nat
    BY TomasuloAssumption DEF StationsInv
  <2> QED
    BY <2>1 DEF Commit, SkipCommit, CommitNothing, CommitStoreStart,
       CommitStoreContinue, StoreUnitOther, StoreUnit, CommitBranch, CommitFp, CommitInt,
       Reclaim, GoTo, AfterUnit
<1>2. /\ stations' = stations /\ clear_res_stat_idx' = clear_res_stat_idx
      /\ count' = count /\ prog' = prog
      /\ phase \in {"commit", "store", "reclaim"}
      /\ \A i \in Slots :
           /\ rob'[i].pc = rob[i].pc /\ rob'[i].ready = rob[i].ready
           /\ \/ rob'[i].state = rob[i].state
              \/ rob[i].ready /\ rob'[i].state = "COMMIT"
      /\ phase' = "store" /\ phase # "store" => head.ready
  BY CommitDoes
<1>3. CASE branch_picked'
  BY <1>1, <1>3 DEF StationsInv
<1>4. CASE UNCHANGED <<rb_wr_idx, rb_rd_idx, clean_rb_idx, branch_picked>>
  <2> SUFFICES ASSUME ~ branch_picked
               PROVE  /\ RetiredOlder' /\ WaitsInStation' /\ StationHoldsLive'
                      /\ NoneTwice' /\ ClearedLater'
    BY <1>1, <1>4 DEF StationsInv
  <2>1. RetiredOlder /\ WaitsInStation /\ StationHoldsLive /\ NoneTwice /\ ClearedLater
    BY DEF StationsInv
  <2>2. Live' = Live
    BY <1>2, <1>4, LiveKept
  <2>3. RetiredOlder'
    BY <1>2, <1>4, <2>1, <2>2, RetiredStays
  <2>4. ASSUME NEW i \in Live
        PROVE  /\ rob'[i].pc = rob[i].pc /\ rob'[i].ready = rob[i].ready
               /\ rob'[i].state \in {"ISSUE", "EXECUTE"} <=> Waits(i)
               /\ rob'[i].state = "ISSUE" => rob[i].state = "ISSUE"
    BY <1>2, <2>1 DEF Live, WaitsInStation, Waits
  <2>5. \A j \in Stations :
          stations'[j].write_result =>
            stations[j].write_result \/ (Held(j) /\ rob'[Entry(j)].state # "ISSUE")
    BY <1>2
  <2>6. WaitsInStation' /\ StationHoldsLive' /\ NoneTwice'
    BY <1>2, <2>1, <2>2, <2>4, <2>5, StationsStay
  <2>7. ClearedLater'
    <3>1. phase' = "store" => head'.ready
      BY <1>2, <1>4, <2>1 DEF ClearedLater, head, IInv
    <3> QED
      BY <1>2, <2>1, <3>1 DEF ClearedLater
  <2> QED
    BY <2>3, <2>6, <2>7
<1>5. CASE /\ clean_rb_idx = UNDEFINED /\ InFlight(rb_rd_idx) /\ Retire
           /\ ~ branch_picked /\ ~ branch_picked' /\ rb_wr_idx' = rb_wr_idx
           /\ head.ready \/ phase = "store"
  <2>1. /\ RetiredOlder /\ WaitsInStation /\ StationHoldsLive /\ NoneTwice
        /\ ClearedLater
    BY <1>5 DEF StationsInv
  <2>2. head.ready /\ clear_res_stat_idx = {}
    BY <1>2, <1>5, <2>1 DEF ClearedLater
  <2>3. /\ rb_rd_idx \in Live
        /\ Live' = Live \ {rb_rd_idx}
        /\ \A i \in Live' : rob[rb_rd_idx].pc < rob[i].pc
        /\ clean_rb_idx' = rb_rd_idx /\ rb_rd_idx \in Slots
    BY <1>2, <1>5, LiveRetired DEF Retire, IInv
  <2>4. RetiredOlder'
    <3>1. rob[rb_rd_idx].pc < 4 * count
      BY <1>5, <2>3, PcOrder
    <3>2. \A i \in Live' : i \in Slots
      BY <2>3 DEF Live
    <3>3. /\ rob'[rb_rd_idx].pc < 4 * count' /\ rob'[rb_rd_idx].ready
          /\ \A i \in Live' : rob'[rb_rd_idx].pc < rob'[i].pc
      BY <1>2, <2>2, <2>3, <3>1, <3>2 DEF head
    <3> QED
      BY <2>3, <3>3 DEF RetiredOlder, Older
  <2>5. \A j \in Stations : Held(j) => Entry(j) \in Live' /\ ~ rob[Entry(j)].ready
    BY <2>1, <2>2, <2>3 DEF StationHoldsLive, head
  <2>6. \A i \in Live' : i \in Live /\ i \in Slots
    BY <2>3 DEF Live
  <2>7. WaitsInStation'
    <3>1. ASSUME NEW i \in Live'
          PROVE  /\ rob'[i].state \in {"ISSUE", "EXECUTE"} <=> ~ rob'[i].ready
                 /\ rob'[i].state \in {"ISSUE", "EXECUTE"} =>
                      \E j \in Stations : Held(j) /\ Entry(j) = i
      BY <1>2, <2>1, <2>6 DEF WaitsInStation, Waits
    <3> QED
      BY <1>2, <3>1 DEF WaitsInStation, Waits, Held, Entry
  <2>8. StationHoldsLive'
    <3>1. ASSUME NEW j \in Stations, Held(j)
          PROVE  /\ Entry(j) \in Live'
                 /\ rob'[Entry(j)].pc = stations[j].pc
                 /\ rob'[Entry(j)].ready <=> j \in clear_res_stat_idx
                 /\ stations[j].write_result => rob'[Entry(j)].state # "ISSUE"
      BY <1>2, <2>1, <2>5, <2>6, <3>1 DEF StationHoldsLive
    <3>2. \A j \in Stations : ~ Held(j) => j \notin clear_res_stat_idx
      BY <2>2
    <3> QED
      BY <1>2, <3>1, <3>2 DEF StationHoldsLive, Held, Entry
  <2>9. NoneTwice'
    BY <1>2, <2>1 DEF NoneTwice, Held
  <2>10. ClearedLater'
    <3>1. phase' # "store"
      <4>1. clean_rb_idx' # UNDEFINED
        BY <2>3, Constants
      <4> QED
        BY <1>5, <4>1 DEF IInv, InPhase
    <3> QED
      BY <1>2, <2>2, <3>1 DEF ClearedLater
  <2> QED
    BY <1>1, <2>4, <2>7, <2>8, <2>9, <2>10 DEF StationsInv
<1> QED
  BY <1>3, <1>4, <1>5, CommitDoes

\* ... a result is written to the entry of its station, to be cleared at the end, ...
LEMMA WriteResultStations ==
  ASSUME IInv, StationsInv, WriteResult
  PROVE  StationsInv'
<1>1. /\ phase = "write_result" /\ phase' = "execute" /\ at' = 0
      /\ UNCHANGED <<prog, front, branch_picked, rb_rd_idx, clean_rb_idx, stations>>
      /\ clear_res_stat_idx' = clear_res_stat_idx \cup Finished
      /\ \A i \in Slots :
           /\ rob'[i].pc = rob[i].pc
           /\ Producers(i) = {} => rob'[i] = rob[i]
           /\ Producers(i) # {} => rob'[i].ready /\ rob'[i].state = "WRITE_RESULT"
  BY WriteResultDoes
<1> SUFFICES ASSUME ~ branch_picked
             PROVE  /\ RetiredOlder' /\ WaitsInStation' /\ StationHoldsLive'
                    /\ NoneTwice' /\ ClearedLater'
  BY <1>1 DEF StationsInv
<1>2. /\ RetiredOlder /\ WaitsInStation /\ StationHoldsLive /\ NoneTwice
      /\ clear_res_stat_idx = {} /\ NothingReady
  BY <1>1 DEF StationsInv, ClearedLater, IInv
<1>3. Live' = Live /\ count' = count
  BY <1>1, LiveKept DEF front
<1>4. RetiredOlder'
  BY <1>1, <1>2, <1>3, RetiredStays
<1>5. \A j \in Stations : j \in Finished <=> stations[j].write_result
  BY DEF Finished
<1>6. ASSUME NEW j \in Stations, Held(j)
      PROVE  Producers(Entry(j)) # {} <=> j \in Finished
  <2>1. rob[Entry(j)].pc = stations[j].pc
    BY <1>2, <1>6 DEF StationHoldsLive
  <2>2. \A k \in Producers(Entry(j)) : k = j
    BY <1>2, <1>6, <2>1 DEF Producers, Finished, NoneTwice
  <2> QED
    BY <1>5, <2>1, <2>2 DEF Producers
<1>7. \A i \in Live : i \in Slots
  BY DEF Live
<1>8. WaitsInStation'
  <2>1. ASSUME NEW i \in Live
        PROVE  /\ rob'[i].state \in {"ISSUE", "EXECUTE"} <=> ~ rob'[i].ready
               /\ rob'[i].state \in {"ISSUE", "EXECUTE"} =>
                    \E j \in Stations : Held(j) /\ Entry(j) = i
    BY <1>1, <1>2, <1>7 DEF WaitsInStation, Waits
  <2> QED
    BY <1>1, <1>3, <2>1 DEF WaitsInStation, Waits, Held, Entry
<1>9. StationHoldsLive'
  <2>1. ASSUME NEW j \in Stations, Held(j)
        PROVE  /\ Entry(j) \in Live
               /\ rob'[Entry(j)].pc = stations[j].pc
               /\ rob'[Entry(j)].ready <=> j \in clear_res_stat_idx \cup Finished
               /\ stations[j].write_result => rob'[Entry(j)].state # "ISSUE"
    <3>1. /\ Entry(j) \in Live /\ rob[Entry(j)].pc = stations[j].pc
          /\ ~ rob[Entry(j)].ready
          /\ stations[j].write_result => rob[Entry(j)].state # "ISSUE"
      BY <1>2, <2>1 DEF StationHoldsLive
    <3>2. Producers(Entry(j)) # {} <=> j \in Finished
      BY <1>6, <2>1
    <3> QED
      BY <1>1, <1>2, <1>5, <1>7, <3>1, <3>2
  <2>2. \A j \in Stations : ~ Held(j) => j \notin clear_res_stat_idx \cup Finished
    BY <1>2, <1>5 DEF NothingReady, Held
  <2> QED
    BY <1>1, <1>3, <2>1, <2>2 DEF StationHoldsLive, Held, Entry
<1>10. NoneTwice'
  BY <1>1, <1>2 DEF NoneTwice, Held
<1>11. ClearedLater'
  BY <1>1 DEF ClearedLater
<1> QED
  BY <1>4, <1>8, <1>9, <1>10, <1>11

\* ... execution only moves the instruction it is at on, ...
LEMMA ExecutionStations ==
  ASSUME IInv, StationsInv, NEW i \in Slots, Execution(i) \/ ExecNothing(i)
  PROVE  StationsInv'
<1>1. at \in Nat
  BY DEF StationsInv
<1>2. /\ at' \in Nat /\ phase' \in {"execute", "issue"}
      /\ UNCHANGED <<prog, front, branch_picked, rb_rd_idx, clean_rb_idx,
                     clear_res_stat_idx>>
  BY <1>1, ExecutionDoes DEF ExecutionStep
<1> SUFFICES ASSUME ~ branch_picked
             PROVE  /\ RetiredOlder' /\ WaitsInStation' /\ StationHoldsLive'
                    /\ NoneTwice' /\ ClearedLater'
  BY <1>2 DEF StationsInv
<1>3. RetiredOlder /\ WaitsInStation /\ StationHoldsLive /\ NoneTwice
  BY DEF StationsInv
<1>4. UNCHANGED <<rob, stations>> \/ (Executing(i) /\ Worked(i))
  BY <1>1, ExecutionDoes
<1>5. \A k \in Slots : rob'[k].pc = rob[k].pc /\ rob'[k].ready = rob[k].ready
  BY <1>4 DEF Worked
<1>6. Live' = Live /\ count' = count
  BY <1>2, <1>5, LiveKept DEF front
<1>7. RetiredOlder'
  BY <1>2, <1>3, <1>5, <1>6, RetiredStays
<1>8. ClearedLater'
  BY <1>2 DEF ClearedLater
<1>9. CASE UNCHANGED <<rob, stations>>
  <2>1. WaitsInStation' /\ StationHoldsLive' /\ NoneTwice'
    BY <1>2, <1>3, <1>6, <1>9, StationsStay DEF Waits
  <2> QED
    BY <1>7, <1>8, <2>1
<1>10. CASE Executing(i) /\ Worked(i)
  <2>1. /\ i \in Live /\ Station(i) \in Stations
        /\ Held(Station(i)) /\ Entry(Station(i)) = i
    BY <1>3, <1>10, ExecutesLive
  <2>2. ASSUME NEW k \in Live
        PROVE  /\ rob'[k].pc = rob[k].pc /\ rob'[k].ready = rob[k].ready
               /\ rob'[k].state \in {"ISSUE", "EXECUTE"} <=> Waits(k)
               /\ rob'[k].state = "ISSUE" => rob[k].state = "ISSUE"
    BY <1>5, <1>10 DEF Worked, Waits, Live
  <2>3. ASSUME NEW j \in Stations
        PROVE  /\ stations'[j].pc = stations[j].pc
               /\ stations'[j].destination = stations[j].destination
               /\ stations'[j].write_result =>
                    stations[j].write_result \/ (Held(j) /\ rob'[Entry(j)].state # "ISSUE")
    BY <1>10, <2>1 DEF Worked
  <2>4. WaitsInStation' /\ StationHoldsLive' /\ NoneTwice'
    BY <1>2, <1>3, <1>6, <2>2, <2>3, StationsStay
  <2> QED
    BY <1>7, <1>8, <2>4
<1> QED
  BY <1>4, <1>9, <1>10

\* ... and so does a stall of issue, ...
LEMMA StallStations ==
  ASSUME IInv, StationsInv, IssueStall
  PROVE  StationsInv'
<1>1. /\ \A j \in Stations : Listens(j)
      /\ UNCHANGED <<prog, count, branch_picked, rob, rb_rd_idx, clean_rb_idx,
                     clear_res_stat_idx>>
      /\ phase' \in {"issue", "end"}
  BY StallDoes
<1>2. at' \in Nat
  BY DEF StationsInv, IssueStall, NextIssue, GoTo
<1> SUFFICES ASSUME ~ branch_picked
             PROVE  /\ RetiredOlder' /\ WaitsInStation' /\ StationHoldsLive'
                    /\ NoneTwice' /\ ClearedLater'
  BY <1>1, <1>2 DEF StationsInv
<1>3. RetiredOlder /\ WaitsInStation /\ StationHoldsLive /\ NoneTwice
  BY DEF StationsInv
<1>4. Live' = Live
  BY <1>1, LiveKept
<1>5. RetiredOlder'
  BY <1>1, <1>3, <1>4, RetiredStays
<1>6. WaitsInStation' /\ StationHoldsLive' /\ NoneTwice'
  <2>1. \A j \in Stations : /\ stations'[j].pc = stations[j].pc
                            /\ stations'[j].destination = stations[j].destination
                            /\ stations'[j].write_result = stations[j].write_result
    BY <1>1 DEF Listens
  <2> QED
    BY <1>1, <1>3, <1>4, <2>1, StationsStay DEF Waits
<1>7. ClearedLater'
  BY <1>1 DEF ClearedLater
<1> QED
  BY <1>5, <1>6, <1>7

\* ... an instruction is issued to an entry and a station that held none, ...
LEMMA IssueStations ==
  ASSUME IInv, StationsInv, Issue
  PROVE  StationsInv'
<1>1. at' \in Nat /\ phase' \in {"issue", "end"}
      /\ clear_res_stat_idx' = clear_res_stat_idx
  BY DEF StationsInv, Issue, NextIssue, GoTo, IssueKeeps, cleanup
<1>2. /\ branch_picked' = branch_picked /\ clean_rb_idx' = clean_rb_idx
      /\ count' = count + 1
      /\ count * 4 \in Nat /\ count * 4 # UNDEFINED /\ 4 * count < UNDEFINED
      /\ \A i \in Slots : i # rb_wr_idx => rob'[i] = rob[i]
      /\ rb_wr_idx \in Slots => /\ rob'[rb_wr_idx].pc = count * 4
                                /\ rob'[rb_wr_idx].state = "ISSUE"
                                /\ rob'[rb_wr_idx].ready = FALSE
  BY IssueEntry
<1> SUFFICES ASSUME ~ branch_picked
             PROVE  /\ RetiredOlder' /\ WaitsInStation' /\ StationHoldsLive'
                    /\ NoneTwice' /\ ClearedLater'
  BY <1>1, <1>2 DEF StationsInv
<1>3. /\ RetiredOlder /\ WaitsInStation /\ StationHoldsLive /\ NoneTwice /\ NothingReady
      /\ count \in Nat
  BY DEF StationsInv, IInv
<1>4. /\ rb_wr_idx \in Slots /\ rb_wr_idx \notin Live /\ rb_wr_idx # clean_rb_idx
      /\ Live' = Live \cup {rb_wr_idx}
  BY LiveIssued
<1>5. PICK s \in Stations :
        /\ stations[s].pc = UNDEFINED
        /\ stations'[s].pc = count * 4 /\ stations'[s].destination = rb_wr_idx
        /\ stations'[s].write_result = stations[s].write_result
        /\ \A j \in Stations : j # s => Listens(j)
  BY IssueStation
<1>6. ~ stations[s].write_result /\ ~ Held(s) /\ s \notin clear_res_stat_idx
  BY <1>3, <1>5 DEF NothingReady, Held, StationHoldsLive
<1>7. \A j \in Stations : j # s => /\ stations'[j].pc = stations[j].pc
                                   /\ stations'[j].destination = stations[j].destination
                                   /\ stations'[j].write_result = stations[j].write_result
  BY <1>5 DEF Listens
<1>8. \A i \in Live : /\ i \in Slots /\ i # rb_wr_idx /\ rob'[i] = rob[i]
                      /\ rob[i].pc \in Nat /\ rob[i].pc < 4 * count
  BY <1>2, <1>4, PcOrder
<1>9. \A n \in Nat : n * 4 = 4 * n /\ 4 * n < 4 * (n + 1) /\ 4 * n \in Nat
  OBVIOUS
<1>10. RetiredOlder'
  <2>1. PICK n \in 0 .. RobSize : Ring(n)
    BY DEF IInv
  <2>2. ASSUME clean_rb_idx # UNDEFINED
        PROVE  /\ rob'[clean_rb_idx].pc < 4 * count' /\ rob'[clean_rb_idx].ready
               /\ \A i \in Live' : rob'[clean_rb_idx].pc < rob'[i].pc
    <3>1. clean_rb_idx \in Slots /\ rob'[clean_rb_idx] = rob[clean_rb_idx]
      BY <1>2, <1>4, <2>1, <2>2 DEF Ring
    <3>2. /\ rob[clean_rb_idx].pc < 4 * count /\ rob[clean_rb_idx].ready
          /\ \A i \in Live : rob[clean_rb_idx].pc < rob[i].pc
      BY <1>3, <2>2 DEF RetiredOlder, Older
    <3>3. rob[clean_rb_idx].pc \in Nat
      BY <3>1 DEF IInv, Shaped
    <3>4. rob'[clean_rb_idx].pc < 4 * count'
      BY <1>2, <1>3, <1>9, <3>1, <3>2, <3>3
    <3> QED
      BY <1>2, <1>3, <1>4, <1>8, <1>9, <3>1, <3>2, <3>4
  <2> QED
    BY <1>2, <2>2 DEF RetiredOlder, Older
<1>11. WaitsInStation'
  <2>1. ASSUME NEW i \in Live'
        PROVE  /\ rob'[i].state \in {"ISSUE", "EXECUTE"} <=> ~ rob'[i].ready
               /\ rob'[i].state \in {"ISSUE", "EXECUTE"} =>
                    \E j \in Stations : /\ stations'[j].pc # UNDEFINED
                                        /\ stations'[j].destination = i
    <3>1. CASE i = rb_wr_idx
      BY <1>2, <1>4, <1>5, <3>1
    <3>2. CASE i \in Live
      <4>1. /\ Waits(i) <=> ~ rob[i].ready
            /\ Waits(i) => \E j \in Stations : Held(j) /\ Entry(j) = i
        BY <1>3, <3>2 DEF WaitsInStation
      <4>2. \A j \in Stations : Held(j) => j # s
        BY <1>6
      <4> QED
        BY <1>7, <1>8, <3>2, <4>1, <4>2 DEF Waits, Held, Entry
    <3> QED
      BY <1>4, <3>1, <3>2
  <2> QED
    BY <2>1 DEF WaitsInStation, Waits, Held, Entry
<1>12. StationHoldsLive'
  <2>1. ASSUME NEW j \in Stations
        PROVE  IF stations'[j].pc # UNDEFINED
               THEN /\ stations'[j].destination \in Live'
                    /\ rob'[stations'[j].destination].pc = stations'[j].pc
                    /\ rob'[stations'[j].destination].ready <=> j \in clear_res_stat_idx
                    /\ stations'[j].write_result =>
                         rob'[stations'[j].destination].state # "ISSUE"
               ELSE j \notin clear_res_stat_idx
    <3>1. CASE j = s
      BY <1>2, <1>4, <1>5, <1>6, <3>1
    <3>2. CASE j # s
      BY <1>3, <1>4, <1>7, <1>8, <3>2 DEF StationHoldsLive, Held, Entry
    <3> QED
      BY <3>1, <3>2
  <2> QED
    BY <1>1, <2>1 DEF StationHoldsLive, Held, Entry
<1>13. NoneTwice'
  <2>1. ASSUME NEW j \in Stations, j # s, Held(j)
        PROVE  stations[j].pc # count * 4
    <3>1. stations[j].pc \in Nat /\ stations[j].pc < 4 * count
      BY <1>3, <1>8, <2>1 DEF StationHoldsLive
    <3> QED
      BY <1>3, <1>9, <3>1
  <2>2. ASSUME NEW j \in Stations, NEW k \in Stations, stations'[j].pc # UNDEFINED,
               stations'[j].pc = stations'[k].pc
        PROVE  j = k
    <3>1. CASE j # s /\ k # s
      BY <1>3, <1>7, <2>2, <3>1 DEF NoneTwice, Held
    <3>2. CASE j = s \/ k = s
      BY <1>2, <1>5, <1>7, <2>1, <2>2, <3>2 DEF Held
    <3> QED
      BY <3>1, <3>2
  <2> QED
    BY <2>2 DEF NoneTwice, Held
<1>14. ClearedLater'
  BY <1>1 DEF ClearedLater
<1> QED
  BY <1>10, <1>11, <1>12, <1>13, <1>14

\* ... and at the end of a cycle stations with a written result are cleared.
LEMMA EndStations ==
  ASSUME IInv, StationsInv, Flush \/ EndCycle
  PROVE  StationsInv'
<1>1. CASE Flush
  <2>1. /\ Live' = {} /\ clean_rb_idx' = UNDEFINED /\ clear_res_stat_idx' = {}
        /\ phase' = "commit" /\ at' = 0
        /\ \A j \in Stations : stations'[j].pc = UNDEFINED
    <3>1. EmptyStation.pc = UNDEFINED
      BY DEF EmptyStation
    <3> QED
      BY <1>1, <3>1, LiveFlushed DEF Flush, GoTo
  <2>2. /\ RetiredOlder' /\ WaitsInStation' /\ StationHoldsLive' /\ NoneTwice'
        /\ ClearedLater'
    BY <2>1 DEF RetiredOlder, WaitsInStation, StationHoldsLive, NoneTwice, ClearedLater,
                Held
  <2> QED
    BY <2>1, <2>2 DEF StationsInv
<1>2. CASE EndCycle
  <2>1. /\ ~ branch_picked /\ ~ branch_picked' /\ clean_rb_idx' = UNDEFINED
        /\ clear_res_stat_idx' = {} /\ phase' = "commit" /\ at' = 0
        /\ \A j \in Stations : stations'[j] = IF j \in clear_res_stat_idx
                                              THEN EmptyStation ELSE stations[j]
        /\ Live' = Live /\ \A i \in Live : rob'[i] = rob[i]
    BY <1>2, LiveCleared DEF EndCycle, GoTo, branch
  <2>2. RetiredOlder /\ WaitsInStation /\ StationHoldsLive /\ NoneTwice
    BY <2>1 DEF StationsInv
  <2>3. \A j \in Stations : stations'[j].pc # UNDEFINED =>
          j \notin clear_res_stat_idx /\ Held(j) /\ stations'[j] = stations[j]
    <3>1. EmptyStation.pc = UNDEFINED
      BY DEF EmptyStation
    <3> QED
      BY <2>1, <3>1 DEF Held
  <2>4. WaitsInStation'
    <3>1. ASSUME NEW i \in Live
          PROVE  /\ rob'[i].state \in {"ISSUE", "EXECUTE"} <=> ~ rob'[i].ready
                 /\ rob'[i].state \in {"ISSUE", "EXECUTE"} =>
                      \E j \in Stations : /\ stations'[j].pc # UNDEFINED
                                          /\ stations'[j].destination = i
      <4>1. /\ Waits(i) <=> ~ rob[i].ready
            /\ Waits(i) => \E j \in Stations : Held(j) /\ Entry(j) = i
        BY <2>2 DEF WaitsInStation
      <4>2. \A j \in Stations : Held(j) /\ Entry(j) = i /\ Waits(i) =>
              j \notin clear_res_stat_idx
        BY <2>2, <4>1 DEF StationHoldsLive
      <4> QED
        BY <2>1, <4>1, <4>2 DEF Waits, Held, Entry
    <3> QED
      BY <2>1, <3>1 DEF WaitsInStation, Waits, Held, Entry
  <2>5. StationHoldsLive'
    <3>1. ASSUME NEW j \in Stations, stations'[j].pc # UNDEFINED
          PROVE  /\ stations'[j].destination \in Live
                 /\ rob'[stations'[j].destination].pc = stations'[j].pc
                 /\ ~ rob'[stations'[j].destination].ready
                 /\ stations'[j].write_result =>
                      rob'[stations'[j].destination].state # "ISSUE"
      BY <2>1, <2>2, <2>3, <3>1 DEF StationHoldsLive, Entry
    <3> QED
      BY <2>1, <3>1 DEF StationHoldsLive, Held, Entry
  <2>6. NoneTwice'
    BY <2>2, <2>3 DEF NoneTwice, Held
  <2>7. RetiredOlder' /\ ClearedLater'
    BY <2>1 DEF RetiredOlder, ClearedLater
  <2> QED
    BY <2>1, <2>4, <2>5, <2>6, <2>7 DEF StationsInv
<1> QED
  BY <1>1, <1>2

LEMMA InitStations == Init => StationsInv
<1> SUFFICES ASSUME Init PROVE StationsInv
  OBVIOUS
<1>1. /\ at = 0 /\ phase = "commit" /\ clean_rb_idx = UNDEFINED
      /\ clear_res_stat_idx = {}
      /\ \A j \in Stations : stations[j] = EmptyStation
      /\ \A i \in Slots : rob[i] = EmptySlot
  BY DEF Init
<1>2. EmptyStation.pc = UNDEFINED /\ EmptySlot.pc = UNDEFINED
  BY DEF EmptyStation, EmptySlot
<1>3. Live = {}
  BY <1>1, <1>2 DEF Live, InFlight
<1> QED
  BY <1>1, <1>2, <1>3 DEF StationsInv, RetiredOlder, WaitsInStation, StationHoldsLive,
                          NoneTwice, ClearedLater, Held

LEMMA StepStations == IInv /\ IInv' /\ StationsInv /\ [Next]_vars => StationsInv'
<1> SUFFICES ASSUME IInv, IInv', StationsInv, [Next]_vars PROVE StationsInv'
  OBVIOUS
<1>1. CASE UNCHANGED vars
  <2>1. /\ UNCHANGED <<prog, count, clean_rb_idx, clear_res_stat_idx, rob, stations,
                       phase, at, branch_picked, rb_rd_idx>>
    BY <1>1 DEF vars, chosen, front, cleanup, branch, ring
  <2>2. Live' = Live /\ head' = head
    BY <2>1, LiveKept DEF head
  <2> QED
    BY <2>1, <2>2 DEF StationsInv, RetiredOlder, WaitsInStation, StationHoldsLive,
                      NoneTwice, ClearedLater, Held, Entry, Waits, Older
<1>2. CASE SkipExecution \/ \E i \in Slots : Execution(i)
  BY <1>2, ExecutionStations DEF SkipExecution
<1> QED
  BY <1>1, <1>2, CommitStations, WriteResultStations, StallStations, IssueStations,
     EndStations DEF Next

LEMMA StationsMatched == IInv /\ StationsInv => StationsMatch
<1> SUFFICES ASSUME IInv, StationsInv, Boundary
             PROVE  /\ \A j \in Stations : stations[j].pc # UNDEFINED =>
                         /\ rob[stations[j].destination].pc = stations[j].pc
                         /\ Holders(stations[j].destination) = {j}
                    /\ \A i \in Live : rob[i].state \in {"ISSUE", "EXECUTE"} =>
                         Holders(i) # {}
  BY DEF StationsMatch
<1>1. WaitsInStation /\ StationHoldsLive /\ NoneTwice
  BY DEF IInv, StationsInv, Boundary
<1>2. ASSUME NEW j \in Stations, Held(j)
      PROVE  rob[Entry(j)].pc = stations[j].pc /\ Holders(Entry(j)) = {j}
  BY <1>1, <1>2 DEF StationHoldsLive, NoneTwice, Holders
<1>3. ASSUME NEW i \in Live, Waits(i)
      PROVE  Holders(i) # {}
  BY <1>1, <1>2, <1>3 DEF WaitsInStation
<1> QED
  BY <1>2, <1>3 DEF Held, Entry, Waits

\* In every machine whose memory units come last, stations and entries match between
\* two cycles: no station outlives its instruction or serves two, and no instruction
\* loses its station before its result is written.
THEOREM StationsCorrect == MemoryUnitLast => (Spec => []StationsMatch)
<1>1. Init => IInv /\ StationsInv
  BY InitInv, InitStations
<1>2. MemoryUnitLast /\ (IInv /\ StationsInv) /\ [Next]_vars => (IInv /\ StationsInv)'
  BY StepInv, StepStations
<1>3. IInv /\ StationsInv => StationsMatch
  BY StationsMatched
<1>4. MemoryUnitLast => []MemoryUnitLast
  <2>1. MemoryUnitLast => MemoryUnitLast'
    BY DEF MemoryUnitLast
  <2> QED
    BY <2>1, PTL
<1> QED
  BY <1>1, <1>2, <1>3, <1>4, PTL DEF Spec

-----------------------------------------------------------------------------
(* Register tags *)

IntWriters(r) == {i \in Live : WritesInt(i) /\ Dest(i) = r}
FpWriters(r)  == {i \in Live : WritesFp(i) /\ Dest(i) = r}

\* Names, for a buffer whose head is slot h.
NamesFrom(h, tag, writers) ==
  IF writers = {} THEN tag = UNDEFINED
  ELSE tag \in writers /\ \A i \in writers : Back(i, h) <= Back(tag, h)

\* An instruction that writes a register keeps its number in its entry.
DestinationsNamed ==
  \A i \in Live : /\ WritesInt(i) => rob[i].destination = Dest(i)
                  /\ WritesFp(i) => rob[i].destination = Dest(i) + 32

TagsName ==
  /\ \A r \in DOMAIN gp_int : NamesFrom(rb_rd_idx, gp_int_tag[r], IntWriters(r))
  /\ \A r \in DOMAIN gp_fp : NamesFrom(rb_rd_idx, gp_fp_tag[r], FpWriters(r))

TagDomains == DOMAIN gp_int_tag = DOMAIN gp_int /\ DOMAIN gp_fp_tag = DOMAIN gp_fp

RegistersInv == TagDomains /\ (~ branch_picked => DestinationsNamed /\ TagsName)

\* What an instruction writes depends on its opcode and its register only.
LEMMA WritersFollow ==
  ASSUME \A i \in Live' : Op(i)' = Op(i) /\ Dest(i)' = Dest(i)
  PROVE  /\ \A i \in Live' : /\ WritesInt(i)' <=> WritesInt(i)
                             /\ WritesFp(i)' <=> WritesFp(i)
         /\ \A r : /\ IntWriters(r)' = {i \in Live' : WritesInt(i) /\ Dest(i) = r}
                   /\ FpWriters(r)' = {i \in Live' : WritesFp(i) /\ Dest(i) = r}
<1>1. \A i \in Live' : /\ WritesInt(i)' <=> WritesInt(i)
                       /\ WritesFp(i)' <=> WritesFp(i)
  BY DEF WritesInt, WritesFp
<1> QED
  BY <1>1 DEF IntWriters, FpWriters

\* Registers named by a program are numbers.
LEMMA DestType ==
  ASSUME Shaped, NEW i
  PROVE  Dest(i) \in Nat
<1>1. \A n \in DOMAIN prog : prog[n] \in Instruction
  BY TomasuloAssumption DEF Shaped
<1>2. \A n : Instr(n).dest \in Nat
  BY <1>1, Constants DEF Instr, Eop, Instruction
<1> QED
  BY <1>2 DEF Dest, At

\* Steps that leave the instructions in flight, the tags and the registers alone.
LEMMA RegistersStay ==
  ASSUME DestinationsNamed, TagsName, Live' = Live, rb_rd_idx' = rb_rd_idx, tags' = tags,
         DOMAIN gp_int' = DOMAIN gp_int, DOMAIN gp_fp' = DOMAIN gp_fp,
         \A i \in Live : /\ Op(i)' = Op(i) /\ Dest(i)' = Dest(i)
                         /\ Op(i) # "SWS" => rob'[i].destination = rob[i].destination
  PROVE  DestinationsNamed' /\ TagsName'
<1>1. /\ \A i \in Live : /\ WritesInt(i)' <=> WritesInt(i)
                         /\ WritesFp(i)' <=> WritesFp(i)
      /\ \A r : IntWriters(r)' = IntWriters(r) /\ FpWriters(r)' = FpWriters(r)
  BY WritersFollow DEF IntWriters, FpWriters
<1>2. \A i \in Live : WritesInt(i) \/ WritesFp(i) => Op(i) # "SWS"
  BY DEF WritesInt, WritesFp, IsFp
<1>3. DestinationsNamed'
  BY <1>1, <1>2 DEF DestinationsNamed
<1>4. gp_int_tag' = gp_int_tag /\ gp_fp_tag' = gp_fp_tag
  BY DEF tags
<1>5. TagsName'
  BY <1>1, <1>4 DEF TagsName
<1> QED
  BY <1>3, <1>5

\* When the head retires, a tag that names it is cleared: no other writer is left.
LEMMA NamesRetired ==
  ASSUME IInv, ~ branch_picked, clean_rb_idx = UNDEFINED, InFlight(rb_rd_idx), Retire,
         prog' = prog, \A i \in Slots : rob'[i].pc = rob[i].pc
  PROVE  \A W \in SUBSET Live : \A tag :
           NamesFrom(rb_rd_idx, tag, W) =>
             NamesFrom(rb_rd_idx', IF tag = rb_rd_idx THEN UNDEFINED ELSE tag,
                       W \ {rb_rd_idx})
<1>1. /\ rb_rd_idx \in Live /\ Live' = Live \ {rb_rd_idx} /\ rb_rd_idx' \in Slots
      /\ \A i \in Live' : Place(i)' = Place(i) - 1
      /\ rb_rd_idx \in Slots
  BY LiveRetired DEF IInv
<1>2. \A i \in Live : /\ i \in Slots
                      /\ Back(i, rb_rd_idx) \in Nat
                      /\ Back(i, rb_rd_idx) = 0 => i = rb_rd_idx
                      /\ i # rb_rd_idx => Back(i, rb_rd_idx') = Back(i, rb_rd_idx) - 1
  <2>1. ASSUME NEW i \in Live
        PROVE  /\ i \in Slots /\ Place(i) \in Nat
               /\ Place(i) = 0 => i = rb_rd_idx
    BY <1>1, PlaceIs, PlacesDiffer, Constants DEF Live
  <2>2. \A i \in Live : i # rb_rd_idx => Place(i)' = Place(i) - 1
    BY <1>1
  <2> QED
    BY <2>1, <2>2 DEF Place
<1>3. Back(rb_rd_idx, rb_rd_idx) = 0
  BY <1>1, PlacesDiffer DEF Place
<1> SUFFICES ASSUME NEW W \in SUBSET Live, NEW tag, NamesFrom(rb_rd_idx, tag, W)
             PROVE  NamesFrom(rb_rd_idx', IF tag = rb_rd_idx THEN UNDEFINED ELSE tag,
                              W \ {rb_rd_idx})
  OBVIOUS
<1>4. rb_rd_idx # UNDEFINED
  BY <1>1, Constants
<1>5. CASE W = {}
  BY <1>4, <1>5 DEF NamesFrom
<1>6. CASE W # {} /\ tag = rb_rd_idx
  <2>1. \A i \in W : i = rb_rd_idx
    <3>1. ASSUME NEW i \in W
          PROVE  i = rb_rd_idx
      <4>1. Back(i, rb_rd_idx) <= 0 /\ Back(i, rb_rd_idx) \in Nat
        BY <1>2, <1>3, <1>6 DEF NamesFrom
      <4>2. Back(i, rb_rd_idx) = 0
        BY <4>1
      <4> QED
        BY <1>2, <4>2
    <3> QED
      BY <3>1
  <2> QED
    BY <1>6, <2>1 DEF NamesFrom
<1>7. CASE W # {} /\ tag # rb_rd_idx
  <2>1. /\ tag \in W \ {rb_rd_idx}
        /\ \A i \in W : Back(i, rb_rd_idx) <= Back(tag, rb_rd_idx)
    BY <1>7 DEF NamesFrom
  <2>2. \A i \in W \ {rb_rd_idx} : Back(i, rb_rd_idx') <= Back(tag, rb_rd_idx')
    <3>1. \A m, n \in Nat : m <= n => m - 1 <= n - 1
      OBVIOUS
    <3> QED
      BY <1>2, <2>1, <3>1
  <2> QED
    BY <1>7, <2>1, <2>2 DEF NamesFrom
<1> QED
  BY <1>5, <1>6, <1>7

\* What commit does to tags: that of the register the head writes is cleared.
LEMMA CommitTags ==
  ASSUME IInv, Commit, TagDomains
  PROVE  /\ TagDomains'
         /\ DOMAIN gp_int' = DOMAIN gp_int /\ DOMAIN gp_fp' = DOMAIN gp_fp
         /\ \/ branch_picked'
            \/ UNCHANGED <<rb_rd_idx, clean_rb_idx, branch_picked, tags>>
            \/ /\ Retire /\ clean_rb_idx = UNDEFINED /\ InFlight(rb_rd_idx)
               /\ ~ branch_picked
               /\ \/ /\ ~ WritesInt(rb_rd_idx) /\ gp_int_tag' = gp_int_tag
                  \/ /\ WritesInt(rb_rd_idx)
                     /\ gp_int_tag' = ClearTag(gp_int_tag, head.destination)
               /\ \/ /\ ~ WritesFp(rb_rd_idx) /\ gp_fp_tag' = gp_fp_tag
                  \/ /\ WritesFp(rb_rd_idx)
                     /\ gp_fp_tag' = ClearTag(gp_fp_tag, head.destination - 32)
<1>1. DOMAIN gp_int_tag = DOMAIN gp_int /\ DOMAIN gp_fp_tag = DOMAIN gp_fp
  BY DEF TagDomains
<1>2. "SWS" \notin Branches /\ (\A op \in Branches : ~ IsFp(op)) /\ IsFp("SWS")
  BY DEF Branches, IsFp, FpAlu
<1>3. CASE CommitInt
  <2>1. /\ Retire /\ head.ready /\ phase = "commit"
        /\ ~ IsFp(At(head.pc).opcode) /\ At(head.pc).opcode \notin Branches
        /\ gp_int_tag' = ClearTag(gp_int_tag, head.destination)
        /\ gp_int' = [gp_int EXCEPT ![head.destination] = head.value]
        /\ UNCHANGED <<gp_fp, gp_fp_tag>>
    BY <1>3 DEF CommitInt, Committing
  <2>2. WritesInt(rb_rd_idx) /\ ~ WritesFp(rb_rd_idx)
    BY <2>1 DEF WritesInt, WritesFp, Op, head
  <2> QED
    BY <1>1, <2>1, <2>2, HeadReady DEF ClearTag, TagDomains
<1>4. CASE CommitFp
  <2>1. /\ Retire /\ head.ready /\ phase = "commit"
        /\ IsFp(At(head.pc).opcode) /\ At(head.pc).opcode # "SWS"
        /\ gp_fp_tag' = ClearTag(gp_fp_tag, head.destination - 32)
        /\ gp_fp' = [gp_fp EXCEPT ![head.destination - 32] = head.value]
        /\ UNCHANGED <<gp_int, gp_int_tag>>
    BY <1>4 DEF CommitFp, Committing
  <2>2. WritesFp(rb_rd_idx) /\ ~ WritesInt(rb_rd_idx)
    BY <2>1 DEF WritesInt, WritesFp, Op, head
  <2> QED
    BY <1>1, <2>1, <2>2, HeadReady DEF ClearTag, TagDomains
<1>5. CASE CommitBranch
  <2>1. /\ UNCHANGED <<gp_int, gp_fp, gp_int_tag, gp_fp_tag>>
        /\ phase = "commit" /\ head.ready /\ At(head.pc).opcode \in Branches
        /\ branch_picked' \/ Retire
    BY <1>5 DEF CommitBranch, Committing, tags
  <2>2. ~ WritesInt(rb_rd_idx) /\ ~ WritesFp(rb_rd_idx)
    BY <1>2, <2>1 DEF WritesInt, WritesFp, Op, head
  <2> QED
    BY <1>1, <2>1, <2>2, HeadReady DEF TagDomains
<1>6. CASE StoreUnit
  <2>1. /\ UNCHANGED <<gp_int, gp_fp, gp_int_tag, gp_fp_tag, branch_picked>>
        /\ (phase = "store" /\ Retire) \/ UNCHANGED <<rb_rd_idx, clean_rb_idx>>
    BY <1>6 DEF StoreUnit, tags, branch
  <2>2. /\ InFlight(rb_rd_idx) /\ At(head.pc).opcode = "SWS" /\ clean_rb_idx = UNDEFINED
        /\ ~ branch_picked
    BY <1>6 DEF StoreUnit, IInv, InPhase
  <2>3. ~ WritesInt(rb_rd_idx) /\ ~ WritesFp(rb_rd_idx)
    BY <1>2, <2>2 DEF WritesInt, WritesFp, Op, head
  <2> QED
    BY <1>1, <2>1, <2>2, <2>3 DEF tags, TagDomains
<1>7. CASE SkipCommit \/ CommitNothing \/ CommitStoreStart \/ CommitStoreContinue
           \/ StoreUnitOther \/ Reclaim
  <2>1. UNCHANGED <<gp_int, gp_fp, gp_int_tag, gp_fp_tag, tags, clean_rb_idx, rb_rd_idx,
                    branch_picked>>
    BY <1>7 DEF SkipCommit, CommitNothing, CommitStoreStart, CommitStoreContinue,
                StoreUnitOther, Reclaim, arch, tags, ring, cleanup, branch
  <2> QED
    BY <1>1, <2>1 DEF TagDomains
<1> QED
  BY <1>3, <1>4, <1>5, <1>6, <1>7 DEF Commit

\* Commit keeps the tags: ...
LEMMA CommitRegisters ==
  ASSUME IInv, RegistersInv, Commit
  PROVE  RegistersInv'
<1>1. /\ prog' = prog
      /\ \A i \in Slots : /\ rob'[i].pc = rob[i].pc
                          /\ rob'[i].destination = rob[i].destination
  BY CommitDoes
<1>2. /\ TagDomains /\ TagDomains'
      /\ DOMAIN gp_int' = DOMAIN gp_int /\ DOMAIN gp_fp' = DOMAIN gp_fp
  BY CommitTags DEF RegistersInv
<1>3. CASE branch_picked'
  BY <1>2, <1>3 DEF RegistersInv
<1>4. CASE UNCHANGED <<rb_rd_idx, clean_rb_idx, branch_picked, tags>>
  <2>1. /\ Live' = Live
        /\ \A i \in Slots : Op(i)' = Op(i) /\ Dest(i)' = Dest(i)
    BY <1>1, <1>4, LiveKept
  <2>2. \A i \in Live : i \in Slots
    BY DEF Live
  <2> QED
    BY <1>1, <1>2, <1>4, <2>1, <2>2, RegistersStay DEF RegistersInv
<1>5. CASE /\ Retire /\ clean_rb_idx = UNDEFINED /\ InFlight(rb_rd_idx)
           /\ ~ branch_picked
           /\ \/ /\ ~ WritesInt(rb_rd_idx) /\ gp_int_tag' = gp_int_tag
              \/ /\ WritesInt(rb_rd_idx)
                 /\ gp_int_tag' = ClearTag(gp_int_tag, head.destination)
           /\ \/ /\ ~ WritesFp(rb_rd_idx) /\ gp_fp_tag' = gp_fp_tag
              \/ /\ WritesFp(rb_rd_idx)
                 /\ gp_fp_tag' = ClearTag(gp_fp_tag, head.destination - 32)
  <2>1. DestinationsNamed /\ TagsName
    BY <1>5 DEF RegistersInv
  <2>2. /\ rb_rd_idx \in Live /\ rb_rd_idx \in Slots
        /\ Live' = Live \ {rb_rd_idx}
        /\ \A i \in Slots : Op(i)' = Op(i) /\ Dest(i)' = Dest(i)
    BY <1>1, <1>5, LiveRetired DEF IInv
  <2>3. /\ \A i \in Live' : /\ WritesInt(i)' <=> WritesInt(i)
                            /\ WritesFp(i)' <=> WritesFp(i)
        /\ \A r : /\ IntWriters(r)' = {i \in Live' : WritesInt(i) /\ Dest(i) = r}
                  /\ FpWriters(r)' = {i \in Live' : WritesFp(i) /\ Dest(i) = r}
    BY <2>2, WritersFollow DEF Live
  <2>4. /\ \A r : /\ IntWriters(r)' = IntWriters(r) \ {rb_rd_idx}
                  /\ FpWriters(r)' = FpWriters(r) \ {rb_rd_idx}
                  /\ IntWriters(r) \in SUBSET Live /\ FpWriters(r) \in SUBSET Live
    BY <2>2, <2>3 DEF IntWriters, FpWriters
  <2>5. DestinationsNamed'
    BY <1>1, <2>1, <2>2, <2>3 DEF DestinationsNamed, Live
  <2>6. Shaped /\ Dest(rb_rd_idx) \in Nat
    BY DestType DEF IInv
  <2>7. ASSUME NEW r \in DOMAIN gp_int
        PROVE  NamesFrom(rb_rd_idx', gp_int_tag'[r], IntWriters(r)')
    <3>1. NamesFrom(rb_rd_idx, gp_int_tag[r], IntWriters(r))
      BY <2>1 DEF TagsName
    <3>2. NamesFrom(rb_rd_idx',
                    IF gp_int_tag[r] = rb_rd_idx THEN UNDEFINED ELSE gp_int_tag[r],
                    IntWriters(r) \ {rb_rd_idx})
      BY <1>1, <1>5, <2>4, <3>1, NamesRetired
    <3>3. gp_int_tag[r] = rb_rd_idx => WritesInt(rb_rd_idx) /\ Dest(rb_rd_idx) = r
      <4>1. rb_rd_idx # UNDEFINED
        BY <2>2, Constants
      <4> QED
        BY <3>1, <4>1 DEF NamesFrom, IntWriters
    <3>4. WritesInt(rb_rd_idx) => head.destination = Dest(rb_rd_idx)
      BY <2>1, <2>2 DEF DestinationsNamed, head
    <3>5. gp_int_tag'[r] = IF gp_int_tag[r] = rb_rd_idx THEN UNDEFINED ELSE gp_int_tag[r]
      BY <1>2, <1>5, <3>3, <3>4 DEF ClearTag, TagDomains
    <3> QED
      BY <2>4, <3>2, <3>5
  <2>8. ASSUME NEW r \in DOMAIN gp_fp
        PROVE  NamesFrom(rb_rd_idx', gp_fp_tag'[r], FpWriters(r)')
    <3>1. NamesFrom(rb_rd_idx, gp_fp_tag[r], FpWriters(r))
      BY <2>1 DEF TagsName
    <3>2. NamesFrom(rb_rd_idx',
                    IF gp_fp_tag[r] = rb_rd_idx THEN UNDEFINED ELSE gp_fp_tag[r],
                    FpWriters(r) \ {rb_rd_idx})
      BY <1>1, <1>5, <2>4, <3>1, NamesRetired
    <3>3. gp_fp_tag[r] = rb_rd_idx => WritesFp(rb_rd_idx) /\ Dest(rb_rd_idx) = r
      <4>1. rb_rd_idx # UNDEFINED
        BY <2>2, Constants
      <4> QED
        BY <3>1, <4>1 DEF NamesFrom, FpWriters
    <3>4. WritesFp(rb_rd_idx) => head.destination - 32 = Dest(rb_rd_idx)
      <4>1. WritesFp(rb_rd_idx) => head.destination = Dest(rb_rd_idx) + 32
        BY <2>1, <2>2 DEF DestinationsNamed, head
      <4> QED
        BY <2>6, <4>1
    <3>5. gp_fp_tag'[r] = IF gp_fp_tag[r] = rb_rd_idx THEN UNDEFINED ELSE gp_fp_tag[r]
      BY <1>2, <1>5, <3>3, <3>4 DEF ClearTag, TagDomains
    <3> QED
      BY <2>4, <3>2, <3>5
  <2>9. TagsName'
    BY <1>2, <2>7, <2>8 DEF TagsName
  <2> QED
    BY <1>2, <2>5, <2>9 DEF RegistersInv
<1> QED
  BY <1>2, <1>3, <1>4, <1>5, CommitTags

\* ... so do the steps that change no instruction, ...
LEMMA OthersRegisters ==
  ASSUME IInv, RegistersInv, StationsInv,
         \/ WriteResult \/ IssueStall
         \/ \E i \in Slots : Execution(i) \/ ExecNothing(i)
  PROVE  RegistersInv'
<1>1. /\ UNCHANGED <<prog, gp_int, gp_fp, tags, branch_picked, rb_rd_idx, clean_rb_idx>>
      /\ \A i \in Slots : /\ rob'[i].pc = rob[i].pc
                          /\ Op(i) # "SWS" => rob'[i].destination = rob[i].destination
  <2>1. CASE WriteResult
    BY <2>1, WriteResultDoes DEF arch
  <2>2. CASE IssueStall
    BY <2>2, StallDoes DEF arch
  <2>3. ASSUME NEW i \in Slots, Execution(i) \/ ExecNothing(i)
        PROVE  /\ UNCHANGED <<prog, gp_int, gp_fp, tags, branch_picked, rb_rd_idx,
                              clean_rb_idx>>
               /\ \A k \in Slots :
                    /\ rob'[k].pc = rob[k].pc
                    /\ Op(k) # "SWS" => rob'[k].destination = rob[k].destination
    <3>1. at \in Nat
      BY DEF StationsInv
    <3>2. ExecutionStep /\ (rob' = rob \/ Worked(i))
      BY <2>3, <3>1, ExecutionDoes
    <3> QED
      BY <3>2 DEF ExecutionStep, Worked, arch
  <2> QED
    BY <2>1, <2>2, <2>3
<1>2. /\ Live' = Live
      /\ \A i \in Slots : Op(i)' = Op(i) /\ Dest(i)' = Dest(i)
  BY <1>1, LiveKept
<1>3. TagDomains'
  BY <1>1 DEF RegistersInv, TagDomains, tags
<1>4. \A i \in Live : i \in Slots
  BY DEF Live
<1> QED
  BY <1>1, <1>2, <1>3, <1>4, RegistersStay DEF RegistersInv

\* ... an issue makes the register's tag name the youngest, ...
LEMMA IssueRegisters ==
  ASSUME IInv, RegistersInv, Issue
  PROVE  RegistersInv'
<1> DEFINE in  == Instr(count)
           int == ~ (IsFp(in.opcode) \/ in.opcode \in Branches)
           fp  == IsFp(in.opcode) /\ in.opcode # "SWS"
           w   == rb_wr_idx
<1>1. /\ gp_fp_tag' = IF fp THEN [gp_fp_tag EXCEPT ![in.dest] = w] ELSE gp_fp_tag
      /\ gp_int_tag' = IF int THEN [gp_int_tag EXCEPT ![in.dest] = w] ELSE gp_int_tag
      /\ UNCHANGED <<gp_int, gp_fp>>
  BY DEF Issue, IssueKeeps, arch
<1>2. /\ DOMAIN gp_int_tag = DOMAIN gp_int /\ DOMAIN gp_fp_tag = DOMAIN gp_fp
      /\ TagDomains'
  BY <1>1 DEF RegistersInv, TagDomains
<1>3. /\ branch_picked' = branch_picked /\ prog' = prog
      /\ rb_rd_idx' = rb_rd_idx
      /\ \A i \in Slots : i # w => rob'[i] = rob[i]
      /\ w \in Slots => rob'[w].destination = Destination(in)
  BY IssueEntry
<1> SUFFICES ASSUME ~ branch_picked
             PROVE  DestinationsNamed' /\ TagsName'
  BY <1>2, <1>3 DEF RegistersInv
<1>4. DestinationsNamed /\ TagsName
  BY DEF RegistersInv
<1>5. /\ w \in Slots /\ w \notin Live
      /\ Live' = Live \cup {w}
      /\ \A i \in Live : Place(i) < Place(w)
      /\ \A i \in Slots : i # w => Op(i)' = Op(i) /\ Dest(i)' = Dest(i)
      /\ \A i \in Slots : i = w => Op(i)' = in.opcode /\ Dest(i)' = in.dest
  BY LiveIssued
<1>6. /\ \A i \in Live : i \in Slots /\ i # w
      /\ \A i \in Live : (WritesInt(i)' <=> WritesInt(i)) /\ (WritesFp(i)' <=> WritesFp(i))
      /\ \A i \in Slots : i = w => (WritesInt(i)' <=> int) /\ (WritesFp(i)' <=> fp)
  BY <1>5 DEF Live, WritesInt, WritesFp
<1>7. \A r : /\ IntWriters(r)' = IntWriters(r) \cup {i \in {w} : int /\ in.dest = r}
             /\ FpWriters(r)' = FpWriters(r) \cup {i \in {w} : fp /\ in.dest = r}
             /\ IntWriters(r) \subseteq Live /\ FpWriters(r) \subseteq Live
  BY <1>5, <1>6 DEF IntWriters, FpWriters
<1>8. DestinationsNamed'
  <2>1. int => Destination(in) = in.dest
    BY DEF Destination, IsFp
  <2>2. fp => Destination(in) = in.dest + 32
    <3>1. in.opcode \in Branches => ~ IsFp(in.opcode)
      BY DEF Branches, IsFp, FpAlu
    <3> QED
      BY <3>1 DEF Destination
  <2>3. ASSUME NEW i \in Live'
        PROVE  /\ WritesInt(i)' => rob'[i].destination = Dest(i)'
               /\ WritesFp(i)' => rob'[i].destination = Dest(i)'+ 32
    <3>1. CASE i \in Live
      BY <1>3, <1>4, <1>5, <1>6, <3>1 DEF DestinationsNamed
    <3>2. CASE i = w
      BY <1>3, <1>5, <1>6, <2>1, <2>2, <3>2
    <3> QED
      BY <1>5, <3>1, <3>2
  <2> QED
    BY <2>3 DEF DestinationsNamed
<1>9. \A i \in Live : Back(i, rb_rd_idx) <= Back(w, rb_rd_idx)
  <2>1. Place(w) \in Nat /\ \A i \in Live : Place(i) \in Nat
    BY <1>5, <1>6, PlaceIs, Constants DEF IInv
  <2>2. \A i \in Live : Place(i) <= Place(w)
    BY <1>5, <2>1
  <2> QED
    BY <2>2 DEF Place
<1>10. Back(w, rb_rd_idx) <= Back(w, rb_rd_idx)
  <2>1. Place(w) \in Nat
    BY <1>5, PlaceIs, Constants DEF IInv
  <2>2. \A n \in Nat : n <= n
    OBVIOUS
  <2> QED
    BY <2>1, <2>2 DEF Place
<1> HIDE DEF in, int, fp, w
<1>11. ASSUME NEW r \in DOMAIN gp_int
       PROVE  NamesFrom(rb_rd_idx', gp_int_tag'[r], IntWriters(r)')
  <2>1. NamesFrom(rb_rd_idx, gp_int_tag[r], IntWriters(r))
    BY <1>4 DEF TagsName
  <2>2. CASE int /\ in.dest = r
    <3>1. gp_int_tag'[r] = w /\ IntWriters(r)' = IntWriters(r) \cup {w}
      BY <1>1, <1>2, <1>7, <2>2
    <3> QED
      BY <1>3, <1>7, <1>9, <1>10, <3>1 DEF NamesFrom
  <2>3. CASE ~ (int /\ in.dest = r)
    <3>1. gp_int_tag'[r] = gp_int_tag[r] /\ IntWriters(r)' = IntWriters(r)
      BY <1>1, <1>2, <1>7, <2>3
    <3> QED
      BY <1>3, <2>1, <3>1
  <2> QED
    BY <2>2, <2>3
<1>12. ASSUME NEW r \in DOMAIN gp_fp
       PROVE  NamesFrom(rb_rd_idx', gp_fp_tag'[r], FpWriters(r)')
  <2>1. NamesFrom(rb_rd_idx, gp_fp_tag[r], FpWriters(r))
    BY <1>4 DEF TagsName
  <2>2. CASE fp /\ in.dest = r
    <3>1. gp_fp_tag'[r] = w /\ FpWriters(r)' = FpWriters(r) \cup {w}
      BY <1>1, <1>2, <1>7, <2>2
    <3> QED
      BY <1>3, <1>7, <1>9, <1>10, <3>1 DEF NamesFrom
  <2>3. CASE ~ (fp /\ in.dest = r)
    <3>1. gp_fp_tag'[r] = gp_fp_tag[r] /\ FpWriters(r)' = FpWriters(r)
      BY <1>1, <1>2, <1>7, <2>3
    <3> QED
      BY <1>3, <2>1, <3>1
  <2> QED
    BY <2>2, <2>3
<1>13. TagsName'
  BY <1>1, <1>11, <1>12 DEF TagsName
<1> QED
  BY <1>8, <1>13

\* ... a flush clears all tags, and the end of another cycle none.
LEMMA EndRegisters ==
  ASSUME IInv, RegistersInv, Flush \/ EndCycle
  PROVE  RegistersInv'
<1>1. CASE Flush
  <2>1. /\ gp_int_tag' = [r \in DOMAIN gp_int_tag |-> UNDEFINED]
        /\ gp_fp_tag' = [r \in DOMAIN gp_fp_tag |-> UNDEFINED]
        /\ gp_int' = gp_int /\ gp_fp' = gp_fp /\ Live' = {}
    BY <1>1, LiveFlushed DEF Flush, FlushedTags, arch
  <2>2. TagDomains'
    BY <2>1 DEF RegistersInv, TagDomains
  <2>3. \A r : IntWriters(r)' = {} /\ FpWriters(r)' = {}
    BY <2>1 DEF IntWriters, FpWriters
  <2>4. DestinationsNamed' /\ TagsName'
    BY <2>1, <2>3 DEF DestinationsNamed, TagsName, NamesFrom, RegistersInv, TagDomains
  <2> QED
    BY <2>2, <2>4 DEF RegistersInv
<1>2. CASE EndCycle
  <2>1. /\ ~ branch_picked /\ ~ branch_picked' /\ tags' = tags
        /\ gp_int' = gp_int /\ gp_fp' = gp_fp /\ rb_rd_idx' = rb_rd_idx
        /\ Live' = Live /\ \A i \in Live : rob'[i] = rob[i]
        /\ \A i \in Live : Op(i)' = Op(i) /\ Dest(i)' = Dest(i)
    BY <1>2, LiveCleared DEF EndCycle, arch, branch, ring
  <2>2. DestinationsNamed' /\ TagsName'
    BY <2>1, RegistersStay DEF RegistersInv
  <2>3. TagDomains'
    BY <2>1 DEF RegistersInv, TagDomains, tags
  <2> QED
    BY <2>2, <2>3 DEF RegistersInv
<1> QED
  BY <1>1, <1>2

LEMMA InitRegisters == Init => RegistersInv
<1> SUFFICES ASSUME Init PROVE RegistersInv
  OBVIOUS
<1>1. /\ gp_int_tag = [r \in DOMAIN gp_int |-> UNDEFINED]
      /\ gp_fp_tag = [r \in DOMAIN gp_fp |-> UNDEFINED]
      /\ \A i \in Slots : rob[i] = EmptySlot
  BY DEF Init
<1>2. EmptySlot.pc = UNDEFINED
  BY DEF EmptySlot
<1>3. Live = {}
  BY <1>1, <1>2 DEF Live, InFlight
<1>4. \A r : IntWriters(r) = {} /\ FpWriters(r) = {}
  BY <1>3 DEF IntWriters, FpWriters
<1> QED
  BY <1>1, <1>3, <1>4 DEF RegistersInv, TagDomains, DestinationsNamed, TagsName, NamesFrom

LEMMA StepRegisters == IInv /\ StationsInv /\ RegistersInv /\ [Next]_vars => RegistersInv'
<1> SUFFICES ASSUME IInv, StationsInv, RegistersInv, [Next]_vars PROVE RegistersInv'
  OBVIOUS
<1>1. CASE UNCHANGED vars
  <2>1. /\ UNCHANGED <<prog, gp_int, gp_fp, tags, branch_picked, rb_rd_idx, clean_rb_idx,
                       rob>>
    BY <1>1 DEF vars, chosen, arch, branch, ring, cleanup
  <2>2. /\ Live' = Live
        /\ \A i \in Slots : Op(i)' = Op(i) /\ Dest(i)' = Dest(i)
    BY <2>1, LiveKept
  <2>3. TagDomains'
    BY <2>1 DEF RegistersInv, TagDomains, tags
  <2>4. \A i \in Live : i \in Slots
    BY DEF Live
  <2> QED
    BY <2>1, <2>2, <2>3, <2>4, RegistersStay DEF RegistersInv
<1>2. CASE SkipExecution \/ \E i \in Slots : Execution(i)
  BY <1>2, OthersRegisters DEF SkipExecution
<1> QED
  BY <1>1, <1>2, CommitRegisters, OthersRegisters, IssueRegisters, EndRegisters DEF Next

LEMMA TagsNamed == IInv /\ RegistersInv => RegisterTags
<1>1. \A tag, W : NamesFrom(rb_rd_idx, tag, W) <=> Names(tag, W)
  BY DEF NamesFrom, Names, Place
<1> QED
  BY <1>1 DEF RegisterTags, RegistersInv, TagsName, IntWriters, FpWriters, Boundary, IInv

\* In every machine whose memory units come last, the tag of a register is the entry
\* of the youngest instruction in flight that will write it, if any.
THEOREM RegisterTagsCorrect == MemoryUnitLast => (Spec => []RegisterTags)
<1>1. Init => IInv /\ StationsInv /\ RegistersInv
  BY InitInv, InitStations, InitRegisters
<1>2. MemoryUnitLast /\ (IInv /\ StationsInv /\ RegistersInv) /\ [Next]_vars
        => (IInv /\ StationsInv /\ RegistersInv)'
  BY StepInv, StepStations, StepRegisters
<1>3. IInv /\ RegistersInv => RegisterTags
  BY TagsNamed
<1>4. MemoryUnitLast => []MemoryUnitLast
  <2>1. MemoryUnitLast => MemoryUnitLast'
    BY DEF MemoryUnitLast
  <2> QED
    BY <2>1, PTL
<1> QED
  BY <1>1, <1>2, <1>3, <1>4, PTL DEF Spec

-----------------------------------------------------------------------------
(* Units belong to instructions in flight *)

Occupies(u, i) == exec_units[u].pc = rob[i].pc

UnitsApart ==
  \A u, v \in Units :
    exec_units[u].pc # UNDEFINED /\ exec_units[u].pc = exec_units[v].pc => u = v

\* The unit of the instruction just retired is released before commit is over.
UnitsServe ==
  \A u \in Units : exec_units[u].pc # UNDEFINED =>
    \/ u = clean_str_execution
    \/ \E i \in Live : Occupies(u, i)
    \/ /\ phase = "reclaim" /\ clean_rb_idx \in Slots /\ Occupies(u, clean_rb_idx)
       /\ exec_units[u].busy = 0 /\ clean_str_execution = UNDEFINED

\* An instruction has a unit only while it is executed, a store while it commits, and
\* with its result the unit has no work left.
UnitsDone ==
  /\ \A u \in Units : \A i \in Live : Occupies(u, i) =>
       /\ rob[i].state # "ISSUE"
       /\ Op(i) = "SWS" => rob[i].state = "COMMIT"
       /\ Op(i) # "SWS" /\ rob[i].ready => exec_units[u].busy = 0
  /\ \A u \in Units : \A j \in Stations :
       Held(j) /\ stations[j].write_result /\ exec_units[u].pc = stations[j].pc
         => exec_units[u].busy = 0

\* The unit of the last store is released by the commit of the next cycle, and not
\* taken before.
LastStore ==
  /\ clean_str_execution # UNDEFINED =>
       /\ clean_str_execution \in Units /\ phase # "store" /\ count >= 2
       /\ IF exec_units[clean_str_execution].pc = UNDEFINED
          THEN phase \notin {"reclaim", "write_result", "execute"}
          ELSE exec_units[clean_str_execution].pc \in 0 .. 4 * count - 1
  /\ phase = "store" => count >= 2

UnitsInv == IF branch_picked THEN clean_str_execution = UNDEFINED
            ELSE UnitsApart /\ UnitsServe /\ UnitsDone /\ LastStore

\* Steps in which units are at most released, and no result is new to a unit's work.
LEMMA UnitsStay ==
  ASSUME UnitsApart, UnitsServe, UnitsDone, phase # "reclaim",
         Live' = Live, clean_str_execution' = clean_str_execution,
         \A u \in Units :
           /\ exec_units'[u].pc = exec_units[u].pc \/ exec_units'[u].pc = UNDEFINED
           /\ exec_units'[u].busy = exec_units[u].busy,
         \A i \in Live :
           /\ rob[i].pc # UNDEFINED /\ rob'[i].pc = rob[i].pc /\ Op(i)' = Op(i)
           /\ \A u \in Units : Occupies(u, i) =>
                /\ rob'[i].state # "ISSUE"
                /\ Op(i) = "SWS" => rob'[i].state = "COMMIT"
                /\ rob'[i].ready => rob[i].ready \/ exec_units[u].busy = 0,
         \A j \in Stations :
           stations'[j].pc # UNDEFINED /\ stations'[j].write_result =>
             /\ stations'[j].pc = stations[j].pc
             /\ \A u \in Units : exec_units[u].pc = stations[j].pc =>
                  stations[j].write_result \/ exec_units[u].busy = 0
  PROVE  UnitsApart' /\ UnitsServe' /\ UnitsDone'
<1>1. UnitsApart'
  BY DEF UnitsApart
<1>2. UnitsServe'
  <2>1. ASSUME NEW u \in Units, exec_units'[u].pc # UNDEFINED, u # clean_str_execution
        PROVE  \E i \in Live : exec_units'[u].pc = rob'[i].pc
    BY <2>1 DEF UnitsServe, Occupies
  <2> QED
    BY <2>1 DEF UnitsServe, Occupies
<1>3. UnitsDone'
  <2>1. ASSUME NEW u \in Units, NEW i \in Live, exec_units'[u].pc = rob'[i].pc
        PROVE  /\ rob'[i].state # "ISSUE"
               /\ Op(i) = "SWS" => rob'[i].state = "COMMIT"
               /\ Op(i) # "SWS" /\ rob'[i].ready => exec_units'[u].busy = 0
    <3>1. Occupies(u, i)
      BY <2>1 DEF Occupies
    <3> QED
      BY <3>1 DEF UnitsDone
  <2>2. ASSUME NEW u \in Units, NEW j \in Stations, stations'[j].pc # UNDEFINED,
               stations'[j].write_result, exec_units'[u].pc = stations'[j].pc
        PROVE  exec_units'[u].busy = 0
    BY <2>2 DEF UnitsDone, Held
  <2> QED
    BY <2>1, <2>2 DEF UnitsDone, Occupies, Held
<1> QED
  BY <1>1, <1>2, <1>3

\* The units as commit finds them.
LEMMA ReleasedUnits ==
  ASSUME Shaped
  PROVE  \A u \in Units :
           /\ Released[u].pc = IF u = clean_str_execution THEN UNDEFINED
                               ELSE exec_units[u].pc
           /\ Released[u].busy = exec_units[u].busy
  BY Zenon DEF Shaped, Released, IdleUnit

\* What the parts of the invariant say when commit starts, after that release.
LEMMA CommitStarts ==
  ASSUME IInv, StationsInv, UnitsInv, Committing
  PROVE  /\ ~ branch_picked /\ clean_rb_idx = UNDEFINED /\ Shaped /\ count >= 2
         /\ WaitsInStation /\ StationHoldsLive /\ clear_res_stat_idx = {}
         /\ \A u, v \in Units :
              Released[u].pc # UNDEFINED /\ Released[u].pc = Released[v].pc => u = v
         /\ \A u \in Units : Released[u].pc # UNDEFINED =>
              \E i \in Live : Released[u].pc = rob[i].pc
         /\ \A u \in Units : \A i \in Live : Released[u].pc = rob[i].pc =>
              /\ rob[i].state # "ISSUE"
              /\ Op(i) = "SWS" => rob[i].state = "COMMIT"
              /\ Op(i) # "SWS" /\ rob[i].ready => Released[u].busy = 0
         /\ \A u \in Units : \A j \in Stations :
              Held(j) /\ stations[j].write_result /\ Released[u].pc = stations[j].pc
                => Released[u].busy = 0
<1>1. /\ phase = "commit" /\ count >= 2 /\ ~ branch_picked /\ Shaped
      /\ clean_rb_idx = UNDEFINED
  BY HeadReady DEF Committing
<1>2. /\ UnitsApart /\ UnitsServe /\ UnitsDone
      /\ WaitsInStation /\ StationHoldsLive /\ clear_res_stat_idx = {}
  BY <1>1 DEF UnitsInv, StationsInv, ClearedLater
<1>3. \A u \in Units : /\ \/ Released[u].pc = exec_units[u].pc /\ u # clean_str_execution
                          \/ Released[u].pc = UNDEFINED
                       /\ Released[u].busy = exec_units[u].busy
  BY <1>1, ReleasedUnits
<1>4. \A i \in Live : rob[i].pc # UNDEFINED
  BY DEF Live, InFlight
<1>5. \A u, v \in Units :
        Released[u].pc # UNDEFINED /\ Released[u].pc = Released[v].pc => u = v
  BY <1>2, <1>3 DEF UnitsApart
<1>6. \A u \in Units : Released[u].pc # UNDEFINED =>
        \E i \in Live : Released[u].pc = rob[i].pc
  BY <1>1, <1>2, <1>3 DEF UnitsServe, Occupies
<1>7. \A u \in Units : \A i \in Live : Released[u].pc = rob[i].pc =>
        /\ rob[i].state # "ISSUE"
        /\ Op(i) = "SWS" => rob[i].state = "COMMIT"
        /\ Op(i) # "SWS" /\ rob[i].ready => Released[u].busy = 0
  BY <1>2, <1>3, <1>4 DEF UnitsDone, Occupies
<1>8. \A u \in Units : \A j \in Stations :
        Held(j) /\ stations[j].write_result /\ Released[u].pc = stations[j].pc
          => Released[u].busy = 0
  BY <1>2, <1>3 DEF UnitsDone, Held
<1> QED
  BY <1>1, <1>2, <1>5, <1>6, <1>7, <1>8

\* Commits that only release the unit of the last store.
LEMMA ReleaseUnits ==
  ASSUME IInv, StationsInv, UnitsInv, Committing, exec_units' = Released,
         UNCHANGED <<prog, rob, stations, count, branch_picked, clean_rb_idx, rb_rd_idx>>,
         clean_str_execution' = UNDEFINED
  PROVE  UnitsInv'
<1>1. /\ ~ branch_picked /\ count >= 2
      /\ \A u, v \in Units :
           Released[u].pc # UNDEFINED /\ Released[u].pc = Released[v].pc => u = v
      /\ \A u \in Units : Released[u].pc # UNDEFINED =>
           \E i \in Live : Released[u].pc = rob[i].pc
      /\ \A u \in Units : \A i \in Live : Released[u].pc = rob[i].pc =>
           /\ rob[i].state # "ISSUE"
           /\ Op(i) = "SWS" => rob[i].state = "COMMIT"
           /\ Op(i) # "SWS" /\ rob[i].ready => Released[u].busy = 0
      /\ \A u \in Units : \A j \in Stations :
           Held(j) /\ stations[j].write_result /\ Released[u].pc = stations[j].pc
             => Released[u].busy = 0
  BY CommitStarts
<1>2. Live' = Live /\ \A i \in Slots : Op(i)' = Op(i)
  BY LiveKept
<1>3. \A i \in Live : i \in Slots
  BY DEF Live
<1>4. UnitsApart' /\ UnitsServe' /\ UnitsDone'
  BY <1>1, <1>2, <1>3 DEF UnitsApart, UnitsServe, UnitsDone, Occupies, Held
<1>5. LastStore'
  BY <1>1 DEF LastStore
<1> QED
  BY <1>1, <1>4, <1>5 DEF UnitsInv

\* The head, retired with a result, leaves a unit without work behind.
LEMMA RetireUnits ==
  ASSUME IInv, StationsInv, UnitsInv, Committing, exec_units' = Released, Retire,
         head.ready, Op(rb_rd_idx) # "SWS",
         UNCHANGED <<prog, rob, stations, count, branch_picked>>,
         clean_str_execution' = UNDEFINED, phase' = "reclaim"
  PROVE  UnitsInv'
<1>1. /\ ~ branch_picked /\ count >= 2 /\ clean_rb_idx = UNDEFINED
      /\ \A u, v \in Units :
           Released[u].pc # UNDEFINED /\ Released[u].pc = Released[v].pc => u = v
      /\ \A u \in Units : Released[u].pc # UNDEFINED =>
           \E i \in Live : Released[u].pc = rob[i].pc
      /\ \A u \in Units : \A i \in Live : Released[u].pc = rob[i].pc =>
           /\ rob[i].state # "ISSUE"
           /\ Op(i) = "SWS" => rob[i].state = "COMMIT"
           /\ Op(i) # "SWS" /\ rob[i].ready => Released[u].busy = 0
      /\ \A u \in Units : \A j \in Stations :
           Held(j) /\ stations[j].write_result /\ Released[u].pc = stations[j].pc
             => Released[u].busy = 0
  BY CommitStarts
<1>2. InFlight(rb_rd_idx) /\ rb_rd_idx \in Slots
  BY HeadReady DEF Committing
<1>3. /\ rb_rd_idx \in Live /\ Live' = Live \ {rb_rd_idx}
      /\ \A i \in Slots : Op(i)' = Op(i)
      /\ clean_rb_idx' = rb_rd_idx
  BY <1>1, <1>2, LiveRetired DEF Retire
<1>4. \A i \in Live : i \in Slots
  BY DEF Live
<1>5. UnitsApart'
  BY <1>1 DEF UnitsApart
<1>6. UnitsServe'
  <2>1. ASSUME NEW u \in Units, Released[u].pc # UNDEFINED,
               ~ \E i \in Live' : Released[u].pc = rob[i].pc
        PROVE  Released[u].pc = rob[rb_rd_idx].pc /\ Released[u].busy = 0
    BY <1>1, <1>3, <2>1 DEF head
  <2> QED
    BY <1>2, <1>3, <2>1 DEF UnitsServe, Occupies
<1>7. UnitsDone'
  BY <1>1, <1>3, <1>4 DEF UnitsDone, Occupies, Held
<1>8. LastStore'
  BY <1>1 DEF LastStore
<1> QED
  BY <1>1, <1>5, <1>6, <1>7, <1>8 DEF UnitsInv

\* A store takes a free unit to commit in.
LEMMA StoreStartUnits ==
  ASSUME IInv, StationsInv, UnitsInv, CommitStoreStart
  PROVE  UnitsInv'
<1> DEFINE free == {u \in Units : /\ UnitType[u] = "MEMORY"
                                  /\ Released[u].busy = 0
                                  /\ Released[u].pc = UNDEFINED}
           f    == First(free)
           unit == [Released[f] EXCEPT !.busy = latency[f] - 1, !.pc = head.pc]
           e    == [rob[rb_rd_idx] EXCEPT !.state = "COMMIT"]
<1>1. /\ Committing /\ head.ready /\ Op(rb_rd_idx) = "SWS" /\ head.state # "COMMIT"
      /\ clean_str_execution' = UNDEFINED /\ phase' = "reclaim"
      /\ UNCHANGED <<prog, stations, count, branch_picked, clean_rb_idx, rb_rd_idx>>
  BY DEF CommitStoreStart, GoTo, chosen, front, branch, ring, cleanup, Op, head
<1>2. CASE free = {}
  <2>1. exec_units' = Released /\ rob' = rob
    BY <1>2 DEF CommitStoreStart
  <2> QED
    BY <1>1, <2>1, ReleaseUnits
<1>3. CASE free # {}
  <2>1. /\ ~ branch_picked /\ count >= 2 /\ Shaped /\ clean_rb_idx = UNDEFINED
        /\ StationHoldsLive /\ clear_res_stat_idx = {}
        /\ \A u, v \in Units :
             Released[u].pc # UNDEFINED /\ Released[u].pc = Released[v].pc => u = v
        /\ \A u \in Units : Released[u].pc # UNDEFINED =>
             \E i \in Live : Released[u].pc = rob[i].pc
        /\ \A u \in Units : \A i \in Live : Released[u].pc = rob[i].pc =>
             /\ rob[i].state # "ISSUE"
             /\ Op(i) = "SWS" => rob[i].state = "COMMIT"
             /\ Op(i) # "SWS" /\ rob[i].ready => Released[u].busy = 0
        /\ \A u \in Units : \A j \in Stations :
             Held(j) /\ stations[j].write_result /\ Released[u].pc = stations[j].pc
               => Released[u].busy = 0
    BY <1>1, CommitStarts
  <2>2. rb_rd_idx \in Slots /\ rb_rd_idx \in Live /\ rob[rb_rd_idx].pc # UNDEFINED
    <3>1. InFlight(rb_rd_idx) /\ rb_rd_idx \in Slots /\ rb_rd_idx # UNDEFINED
      BY <1>1, HeadReady, Constants DEF Committing
    <3> QED
      BY <2>1, <3>1 DEF Live, InFlight
  <2>3. /\ exec_units' = [Released EXCEPT ![f] = unit]
        /\ rob' = [rob EXCEPT ![rb_rd_idx].state = "COMMIT"]
    BY <1>3 DEF CommitStoreStart
  <2>4. f \in Units /\ Released[f].pc = UNDEFINED
    <3>1. free \in SUBSET Nat
      BY TomasuloAssumption
    <3>2. f \in free
      BY <1>3, <3>1, FirstIn
    <3> QED
      BY <3>2
  <2>5. rob' = [rob EXCEPT ![rb_rd_idx] = e]
    BY <2>1, <2>2, <2>3 DEF Shaped
  <2> HIDE DEF free, f
  <2>6. unit.pc = rob[rb_rd_idx].pc
    BY <2>1, <2>4, ReleasedIs, Zenon DEF IdleUnit, head
  <2>7. e.pc = rob[rb_rd_idx].pc /\ e.state = "COMMIT" /\ e.ready = rob[rb_rd_idx].ready
    BY <2>1, <2>2, Zenon DEF Shaped, EmptySlot
  <2> HIDE DEF unit, e
  <2>8. \A u \in Units : exec_units'[u] = IF u = f THEN unit ELSE Released[u]
    BY <2>1, <2>3, ReleasedIs
  <2>9. /\ \A i \in Slots : /\ rob'[i].pc = rob[i].pc
                            /\ rob'[i].ready = rob[i].ready
                            /\ i # rb_rd_idx => rob'[i] = rob[i]
        /\ rob'[rb_rd_idx].state = "COMMIT"
    BY <2>1, <2>2, <2>5, <2>7 DEF Shaped
  <2>10. Live' = Live /\ \A i \in Slots : Op(i)' = Op(i)
    BY <1>1, <2>9, LiveKept
  <2>11. \A u \in Units : Released[u].pc # rob[rb_rd_idx].pc
    BY <1>1, <2>1, <2>2 DEF head
  <2>12. \A i \in Live : i \in Slots /\ (rob[i].pc = rob[rb_rd_idx].pc => i = rb_rd_idx)
    BY <2>1, <2>2, PcOrder
  <2>13. \A j \in Stations : Held(j) => stations[j].pc # rob[rb_rd_idx].pc
    <3>1. ASSUME NEW j \in Stations, Held(j), stations[j].pc = rob[rb_rd_idx].pc
          PROVE  FALSE
      <4>1. Entry(j) \in Live /\ rob[Entry(j)].pc = stations[j].pc /\ ~ rob[Entry(j)].ready
        BY <2>1, <3>1 DEF StationHoldsLive
      <4>2. Entry(j) = rb_rd_idx
        BY <2>12, <3>1, <4>1
      <4> QED
        BY <1>1, <4>1, <4>2 DEF head
    <3> QED
      BY <3>1
  <2>14. UnitsApart'
    BY <2>1, <2>6, <2>8, <2>11 DEF UnitsApart
  <2>15. UnitsServe'
    <3>1. ASSUME NEW u \in Units, exec_units'[u].pc # UNDEFINED
          PROVE  \E i \in Live : exec_units'[u].pc = rob'[i].pc
      <4>1. CASE u = f
        BY <2>2, <2>6, <2>8, <2>9, <4>1
      <4>2. CASE u # f
        BY <2>1, <2>8, <2>9, <2>12, <3>1, <4>2
      <4> QED
        BY <4>1, <4>2
    <3> QED
      BY <2>10, <3>1 DEF UnitsServe, Occupies
  <2>16. UnitsDone'
    <3>1. ASSUME NEW u \in Units, NEW i \in Live, exec_units'[u].pc = rob'[i].pc
          PROVE  /\ rob'[i].state # "ISSUE"
                 /\ Op(i) = "SWS" => rob'[i].state = "COMMIT"
                 /\ Op(i) # "SWS" /\ rob'[i].ready => exec_units'[u].busy = 0
      <4>1. CASE i = rb_rd_idx
        BY <1>1, <2>9, <4>1
      <4>2. CASE i # rb_rd_idx
        <5>1. u # f
          BY <2>6, <2>8, <2>9, <2>12, <3>1, <4>2
        <5> QED
          BY <2>1, <2>8, <2>9, <2>12, <3>1, <4>2, <5>1
      <4> QED
        BY <4>1, <4>2
    <3>2. ASSUME NEW u \in Units, NEW j \in Stations, Held(j),
                 stations[j].write_result, exec_units'[u].pc = stations[j].pc
          PROVE  exec_units'[u].busy = 0
      BY <2>1, <2>6, <2>8, <2>13, <3>2
    <3> QED
      BY <1>1, <2>10, <2>12, <3>1, <3>2 DEF UnitsDone, Occupies, Held
  <2>17. LastStore'
    BY <1>1, <2>1 DEF LastStore
  <2> QED
    BY <1>1, <2>1, <2>14, <2>15, <2>16, <2>17 DEF UnitsInv
<1> QED
  BY <1>2, <1>3

\* Steps of commit that leave the units alone.
LEMMA NoneCommitUnits ==
  ASSUME IInv, UnitsInv, SkipCommit \/ StoreUnitOther
  PROVE  UnitsInv'
<1>1. /\ phase \in {"commit", "store"}
      /\ UNCHANGED <<prog, rob, stations, count, exec_units, branch_picked,
                     clean_rb_idx, rb_rd_idx, clean_str_execution>>
      /\ phase' = "store" => phase = "store"
      /\ phase = "commit" => count < 2
  BY DEF SkipCommit, StoreUnitOther, AfterUnit, GoTo, chosen, front, branch, ring, cleanup
<1>2. ~ branch_picked /\ count \in Nat
  BY <1>1 DEF IInv
<1>3. UnitsApart /\ UnitsServe /\ UnitsDone /\ LastStore
  BY <1>2 DEF UnitsInv
<1>4. clean_str_execution = UNDEFINED /\ (phase' = "store" => count >= 2)
  BY <1>1, <1>2, <1>3 DEF LastStore
<1>5. Live' = Live /\ \A i \in Slots : Op(i)' = Op(i)
  BY <1>1, LiveKept
<1>6. \A i \in Live : i \in Slots /\ rob[i].pc # UNDEFINED
  BY DEF Live, InFlight
<1>7. UnitsApart' /\ UnitsServe' /\ UnitsDone'
  <2>1. UnitsApart'
    BY <1>1, <1>3 DEF UnitsApart
  <2>2. UnitsServe'
    BY <1>1, <1>3, <1>5, <1>6 DEF UnitsServe, Occupies
  <2>3. UnitsDone'
    BY <1>1, <1>3, <1>5, <1>6 DEF UnitsDone, Occupies, Held
  <2> QED
    BY <2>1, <2>2, <2>3
<1>8. LastStore'
  BY <1>1, <1>4 DEF LastStore
<1> QED
  BY <1>1, <1>2, <1>7, <1>8 DEF UnitsInv

\* The unit of a store counts its cycles, and is the last store's when it is done.
LEMMA StoreUnits ==
  ASSUME IInv, IInv', StationsInv, UnitsInv, StoreUnit
  PROVE  UnitsInv'
<1> DEFINE left == IF exec_units[at].busy # 0 THEN exec_units[at].busy - 1 ELSE 0
<1>1. /\ phase = "store" /\ exec_units[at].pc = head.pc
      /\ exec_units' = [exec_units EXCEPT ![at].busy = left]
      /\ UNCHANGED <<prog, rob, stations, count, branch_picked>>
      /\ phase' \in {"store", "reclaim"}
      /\ IF left = 0 THEN Retire /\ clean_str_execution' = at
         ELSE UNCHANGED <<clean_rb_idx, rb_rd_idx, clean_str_execution>>
  BY DEF StoreUnit, AfterUnit, GoTo, chosen, front, branch
<1>2. /\ ~ branch_picked /\ Shaped /\ at \in Units /\ clean_rb_idx = UNDEFINED
      /\ InFlight(rb_rd_idx) /\ rb_rd_idx \in Slots /\ Op(rb_rd_idx) = "SWS"
      /\ rb_rd_idx \in Live /\ head.ready
  <2>1. /\ ~ branch_picked /\ Shaped /\ rb_rd_idx \in Slots
    BY <1>1 DEF IInv
  <2>2. /\ InPhase /\ ClearedLater
    BY <2>1 DEF IInv, StationsInv
  <2>3. rb_rd_idx # UNDEFINED
    BY <2>1, Constants
  <2> QED
    BY <1>1, <2>1, <2>2, <2>3 DEF InPhase, ClearedLater, Live, Op, head
<1>3. /\ UnitsApart /\ UnitsServe /\ UnitsDone /\ StationHoldsLive
      /\ clear_res_stat_idx = {} /\ clean_str_execution = UNDEFINED /\ count >= 2
  BY <1>1, <1>2 DEF UnitsInv, LastStore, StationsInv, ClearedLater
<1> HIDE DEF left
<1>4. \A u \in Units : /\ exec_units'[u].pc = exec_units[u].pc
                       /\ u # at => exec_units'[u].busy = exec_units[u].busy
  <2> DEFINE e == [exec_units[at] EXCEPT !.busy = left]
  <2>1. exec_units' = [exec_units EXCEPT ![at] = e]
    BY <1>1, <1>2 DEF Shaped
  <2>2. e.pc = exec_units[at].pc
    BY <1>2, Zenon DEF Shaped, IdleUnit
  <2> HIDE DEF e
  <2> QED
    BY <1>2, <2>1, <2>2 DEF Shaped
<1>5. \A i \in Live : /\ i \in Slots /\ rob[i].pc # UNDEFINED
                      /\ rob[i].pc = rob[rb_rd_idx].pc => i = rb_rd_idx
  BY <1>2, PcOrder
<1>6. \A j \in Stations : Held(j) => stations[j].pc # exec_units[at].pc
  <2>1. ASSUME NEW j \in Stations, Held(j), stations[j].pc = rob[rb_rd_idx].pc
        PROVE  FALSE
    <3>1. Entry(j) \in Live /\ rob[Entry(j)].pc = stations[j].pc /\ ~ rob[Entry(j)].ready
      BY <1>3, <2>1 DEF StationHoldsLive
    <3>2. Entry(j) = rb_rd_idx
      BY <1>5, <2>1, <3>1
    <3> QED
      BY <1>2, <3>1, <3>2 DEF head
  <2> QED
    BY <1>1, <2>1 DEF head
<1>7. UnitsApart'
  BY <1>3, <1>4 DEF UnitsApart
<1>8. ASSUME NEW u \in Units, NEW i \in Live, exec_units[u].pc = rob[i].pc
      PROVE  /\ rob[i].state # "ISSUE"
             /\ Op(i) = "SWS" => rob[i].state = "COMMIT"
             /\ Op(i) # "SWS" /\ rob[i].ready => exec_units'[u].busy = 0
  <2>1. u = at => i = rb_rd_idx
    BY <1>1, <1>5, <1>8 DEF head
  <2> QED
    BY <1>2, <1>3, <1>4, <1>8, <2>1 DEF UnitsDone, Occupies
<1>9. \A u \in Units : \A j \in Stations :
        Held(j) /\ stations[j].write_result /\ exec_units[u].pc = stations[j].pc
          => exec_units'[u].busy = 0
  BY <1>3, <1>4, <1>6 DEF UnitsDone
<1>10. CASE left # 0
  <2>1. Live' = Live /\ \A i \in Slots : Op(i)' = Op(i)
    BY <1>1, <1>10, LiveKept
  <2>2. UnitsServe'
    <3>1. \A u \in Units : exec_units[u].pc # UNDEFINED =>
            \E i \in Live : exec_units[u].pc = rob[i].pc
      BY <1>1, <1>3, TomasuloAssumption DEF UnitsServe, Occupies
    <3> QED
      BY <1>1, <1>4, <2>1, <3>1 DEF UnitsServe, Occupies
  <2>3. UnitsDone'
    BY <1>1, <1>4, <1>5, <1>8, <1>9, <2>1 DEF UnitsDone, Occupies, Held
  <2>4. LastStore'
    BY <1>1, <1>3, <1>10 DEF LastStore
  <2> QED
    BY <1>1, <1>2, <1>7, <2>2, <2>3, <2>4 DEF UnitsInv
<1>11. CASE left = 0
  <2>1. /\ Live' = Live \ {rb_rd_idx} /\ \A i \in Slots : Op(i)' = Op(i)
        /\ clean_rb_idx' = rb_rd_idx /\ clean_str_execution' = at
    BY <1>1, <1>2, <1>11, LiveRetired DEF Retire
  <2>2. phase' = "reclaim"
    <3>1. clean_rb_idx' # UNDEFINED
      BY <1>2, <2>1, Constants
    <3>2. phase' # "store"
      BY <1>1, <1>2, <3>1 DEF IInv, InPhase
    <3> QED
      BY <1>1, <3>2
  <2>3. UnitsServe'
    <3>1. ASSUME NEW u \in Units, exec_units[u].pc # UNDEFINED, u # at
          PROVE  \E i \in Live' : exec_units[u].pc = rob[i].pc
      <4>1. PICK i \in Live : exec_units[u].pc = rob[i].pc
        BY <1>1, <1>3, <3>1, TomasuloAssumption DEF UnitsServe, Occupies
      <4>2. i # rb_rd_idx
        BY <1>1, <1>2, <1>3, <3>1, <4>1 DEF UnitsApart, head
      <4> QED
        BY <2>1, <4>1, <4>2
    <3> QED
      BY <1>1, <1>4, <2>1, <3>1 DEF UnitsServe, Occupies
  <2>4. UnitsDone'
    BY <1>1, <1>4, <1>5, <1>8, <1>9, <2>1 DEF UnitsDone, Occupies, Held
  <2>5. LastStore'
    <3>1. head.pc # UNDEFINED /\ head.pc < 4 * count
      BY <1>2, PcOrder DEF head
    <3>2. head.pc \in 0 .. 4 * count - 1 /\ head.pc # UNDEFINED
      BY <1>2, <3>1, PcOrder DEF head, IInv
    <3> QED
      BY <1>1, <1>2, <1>3, <1>4, <2>1, <2>2, <3>2 DEF LastStore
  <2> QED
    BY <1>1, <1>2, <1>7, <2>3, <2>4, <2>5 DEF UnitsInv
<1> QED
  BY <1>10, <1>11

\* The end of commit releases the unit of the entry just retired.
LEMMA ReclaimUnits ==
  ASSUME IInv, StationsInv, UnitsInv, Reclaim
  PROVE  UnitsInv'
<1>1. /\ phase = "reclaim" /\ phase' = "write_result"
      /\ UNCHANGED <<prog, rob, stations, count, branch_picked, clean_rb_idx, rb_rd_idx,
                     clean_str_execution>>
      /\ exec_units' = [u \in Units |-> IF Stranded(u)
                                        THEN [exec_units[u] EXCEPT !.pc = UNDEFINED]
                                        ELSE exec_units[u]]
  BY DEF Reclaim, GoTo, chosen, front, branch, ring, cleanup
<1>2. Shaped
  BY DEF IInv
<1>3. \A u \in Units :
        /\ exec_units'[u].pc = IF Stranded(u) THEN UNDEFINED ELSE exec_units[u].pc
        /\ exec_units'[u].busy = exec_units[u].busy
  BY <1>1, <1>2, Zenon DEF Shaped, IdleUnit
<1>4. CASE branch_picked
  BY <1>1, <1>4 DEF UnitsInv
<1>5. CASE ~ branch_picked
  <2>1. /\ UnitsApart /\ UnitsServe /\ UnitsDone /\ LastStore
        /\ RetiredOlder /\ StationHoldsLive
    BY <1>5 DEF UnitsInv, StationsInv
  <2>2. Live' = Live /\ \A i \in Slots : Op(i)' = Op(i)
    BY <1>1, LiveKept
  <2>3. \A i \in Live : i \in Slots /\ rob[i].pc # UNDEFINED
    BY DEF Live, InFlight
  <2>4. UnitsApart'
    BY <1>3, <2>1 DEF UnitsApart
  <2>5. UnitsDone'
    BY <1>1, <1>3, <2>1, <2>2, <2>3 DEF UnitsDone, Occupies, Held
  <2>6. UnitsServe'
    <3>1. ASSUME NEW u \in Units, exec_units'[u].pc # UNDEFINED, u # clean_str_execution
          PROVE  \E i \in Live : exec_units[u].pc = rob[i].pc
      <4>1. ~ Stranded(u) /\ exec_units[u].pc # UNDEFINED
        BY <1>3, <3>1
      <4>2. SUFFICES ASSUME clean_rb_idx \in Slots, exec_units[u].pc = rob[clean_rb_idx].pc,
                            exec_units[u].busy = 0, clean_str_execution = UNDEFINED
                     PROVE  FALSE
        BY <2>1, <3>1, <4>1 DEF UnitsServe, Occupies
      <4>3. PICK j \in Stations : stations[j].pc = exec_units[u].pc
        BY <4>1, <4>2 DEF Stranded
      <4>4. Entry(j) \in Live /\ rob[Entry(j)].pc = stations[j].pc
        BY <2>1, <4>1, <4>3 DEF StationHoldsLive, Held
      <4>5. rob[clean_rb_idx].pc < rob[Entry(j)].pc /\ rob[clean_rb_idx].pc \in Nat
        BY <1>2, <2>1, <4>2, <4>4, Constants DEF RetiredOlder, Older, Shaped
      <4> QED
        BY <4>2, <4>3, <4>4, <4>5
    <3> QED
      BY <1>1, <1>3, <2>2, <2>3, <3>1 DEF UnitsServe, Occupies
  <2>7. LastStore'
    <3>1. ASSUME clean_str_execution # UNDEFINED
          PROVE  /\ clean_str_execution \in Units /\ count >= 2
                 /\ exec_units'[clean_str_execution].pc # UNDEFINED
                 /\ exec_units'[clean_str_execution].pc \in 0 .. 4 * count - 1
      BY <1>1, <1>3, <2>1, <3>1 DEF LastStore, Stranded
    <3> QED
      BY <1>1, <3>1 DEF LastStore
  <2> QED
    BY <1>1, <1>5, <2>4, <2>5, <2>6, <2>7 DEF UnitsInv
<1> QED
  BY <1>4, <1>5

LEMMA CommitUnits ==
  ASSUME IInv, IInv', StationsInv, UnitsInv, Commit
  PROVE  UnitsInv'
<1>1. CASE CommitNothing \/ CommitStoreContinue
  <2>1. /\ Committing /\ exec_units' = Released /\ clean_str_execution' = UNDEFINED
        /\ UNCHANGED <<prog, rob, stations, count, branch_picked, clean_rb_idx, rb_rd_idx>>
    BY <1>1 DEF CommitNothing, CommitStoreContinue, chosen, front, branch, ring, cleanup
  <2> QED
    BY <2>1, ReleaseUnits
<1>2. CASE CommitBranch
  <2>1. /\ Committing /\ head.ready /\ exec_units' = Released
        /\ clean_str_execution' = UNDEFINED /\ phase' = "reclaim"
        /\ UNCHANGED <<prog, rob, stations, count>>
        /\ Op(rb_rd_idx) # "SWS"
        /\ branch_picked' \/ (Retire /\ branch_picked' = branch_picked)
    BY <1>2 DEF CommitBranch, GoTo, chosen, front, branch, Op, head, Branches
  <2>2. CASE branch_picked'
    BY <2>1, <2>2 DEF UnitsInv
  <2> QED
    BY <2>1, <2>2, RetireUnits
<1>3. CASE CommitFp \/ CommitInt
  <2>1. /\ Committing /\ head.ready /\ exec_units' = Released /\ Retire
        /\ clean_str_execution' = UNDEFINED /\ phase' = "reclaim"
        /\ UNCHANGED <<prog, rob, stations, count, branch_picked>>
        /\ Op(rb_rd_idx) # "SWS"
    <3>1. IsFp("SWS")
      BY DEF IsFp
    <3> QED
      BY <1>3, <3>1 DEF CommitFp, CommitInt, GoTo, chosen, front, branch, Op, head
  <2> QED
    BY <2>1, RetireUnits
<1> QED
  BY <1>1, <1>2, <1>3, NoneCommitUnits, StoreStartUnits, StoreUnits, ReclaimUnits
     DEF Commit

\* A result is written only when the unit of its instruction has no work left.
LEMMA WriteResultUnits ==
  ASSUME IInv, StationsInv, UnitsInv, WriteResult
  PROVE  UnitsInv'
<1>1. /\ phase = "write_result" /\ phase' = "execute"
      /\ UNCHANGED <<prog, front, branch_picked, rb_rd_idx, clean_rb_idx, stations,
                     clean_str_execution>>
      /\ \A i \in Slots :
           /\ rob'[i].pc = rob[i].pc
           /\ Producers(i) = {} => rob'[i] = rob[i]
           /\ Producers(i) # {} => rob'[i].ready /\ rob'[i].state = "WRITE_RESULT"
      /\ \A u \in Units : /\ exec_units'[u].pc = exec_units[u].pc
                          /\ exec_units'[u].busy = exec_units[u].busy
  BY WriteResultDoes
<1> SUFFICES ASSUME ~ branch_picked
             PROVE  UnitsApart' /\ UnitsServe' /\ UnitsDone' /\ LastStore'
  BY <1>1 DEF UnitsInv
<1>2. /\ UnitsApart /\ UnitsServe /\ UnitsDone /\ LastStore
      /\ WaitsInStation /\ StationHoldsLive /\ clear_res_stat_idx = {}
  BY <1>1 DEF UnitsInv, StationsInv, ClearedLater
<1>3. Live' = Live /\ count' = count /\ \A i \in Slots : Op(i)' = Op(i)
  BY <1>1, LiveKept DEF front
<1>4. ASSUME NEW i \in Live
      PROVE  /\ rob[i].pc # UNDEFINED /\ rob'[i].pc = rob[i].pc /\ Op(i)' = Op(i)
             /\ \A u \in Units : Occupies(u, i) =>
                  /\ rob'[i].state # "ISSUE"
                  /\ Op(i) = "SWS" => rob'[i].state = "COMMIT"
                  /\ rob'[i].ready => rob[i].ready \/ exec_units[u].busy = 0
  <2>1. i \in Slots /\ rob[i].pc # UNDEFINED
    BY DEF Live, InFlight
  <2>2. CASE Producers(i) = {}
    BY <1>1, <1>2, <1>3, <2>1, <2>2 DEF UnitsDone
  <2>3. CASE Producers(i) # {}
    <3>1. PICK j \in Stations : stations[j].write_result /\ stations[j].pc = rob[i].pc
      BY <2>3 DEF Producers, Finished
    <3>2. Held(j) /\ Entry(j) \in Live /\ rob[Entry(j)].pc = rob[i].pc
          /\ ~ rob[Entry(j)].ready
      BY <1>2, <2>1, <3>1 DEF StationHoldsLive, Held
    <3>3. Entry(j) = i
      BY <3>2, PcOrder
    <3>4. Waits(i)
      BY <1>2, <3>2, <3>3 DEF WaitsInStation
    <3>5. ASSUME NEW u \in Units, Occupies(u, i)
          PROVE  Op(i) # "SWS" /\ exec_units[u].busy = 0
      BY <1>2, <2>1, <3>1, <3>2, <3>4, <3>5 DEF UnitsDone, Occupies, Waits
    <3> QED
      BY <1>1, <1>3, <2>1, <2>3, <3>5
  <2> QED
    BY <2>2, <2>3
<1>5. UnitsApart' /\ UnitsServe' /\ UnitsDone'
  BY <1>1, <1>2, <1>3, <1>4, UnitsStay
<1>6. LastStore'
  BY <1>1, <1>2, <1>3 DEF LastStore
<1> QED
  BY <1>5, <1>6

\* An instruction is executed in a unit of its own.
LEMMA ExecutionUnits ==
  ASSUME IInv, StationsInv, UnitsInv, NEW i \in Slots, Execution(i) \/ ExecNothing(i)
  PROVE  UnitsInv'
<1>1. at \in Nat
  BY DEF StationsInv
<1>2. /\ phase = "execute" /\ phase' \in {"execute", "issue"}
      /\ UNCHANGED <<prog, front, branch_picked, rb_rd_idx, clean_rb_idx,
                     clean_str_execution>>
  BY <1>1, ExecutionDoes DEF ExecutionStep
<1> SUFFICES ASSUME ~ branch_picked
             PROVE  UnitsApart' /\ UnitsServe' /\ UnitsDone' /\ LastStore'
  BY <1>2 DEF UnitsInv
<1>3. /\ UnitsApart /\ UnitsServe /\ UnitsDone /\ LastStore
      /\ RetiredOlder /\ WaitsInStation /\ StationHoldsLive /\ NoneTwice
  BY DEF UnitsInv, StationsInv
<1>4. \/ UNCHANGED <<rob, stations>> /\ UnitsIdle
      \/ /\ Executing(i) /\ Worked(i)
         /\ \/ \E u \in Units : WorkedIn(i, u)
            \/ UnitsIdle /\ (Starting(i) \/ Op(i) = "SWS")
  BY <1>1, ExecutionDoes
<1>5. \A k \in Slots : rob'[k].pc = rob[k].pc /\ rob'[k].ready = rob[k].ready
  BY <1>4 DEF Worked
<1>6. Live' = Live /\ count' = count /\ \A k \in Slots : Op(k)' = Op(k)
  BY <1>2, <1>5, LiveKept DEF front
<1>7. \A k \in Live : k \in Slots /\ rob[k].pc # UNDEFINED
  BY DEF Live, InFlight
<1>8. clean_str_execution # UNDEFINED =>
        /\ clean_str_execution \in Units /\ count >= 2
        /\ exec_units[clean_str_execution].pc # UNDEFINED
        /\ exec_units[clean_str_execution].pc \in 0 .. 4 * count - 1
  BY <1>2, <1>3 DEF LastStore
<1>9. UnitsIdle => LastStore'
  BY <1>2, <1>6, <1>8 DEF LastStore, UnitsIdle, SameUnit
<1>10. CASE UNCHANGED <<rob, stations>> /\ UnitsIdle
  <2>1. \A k \in Live : \A u \in Units : Occupies(u, k) =>
          /\ rob[k].state # "ISSUE"
          /\ Op(k) = "SWS" => rob[k].state = "COMMIT"
    BY <1>3 DEF UnitsDone
  <2>2. UnitsApart' /\ UnitsServe' /\ UnitsDone'
    BY <1>2, <1>3, <1>6, <1>7, <1>10, <2>1, UnitsStay DEF UnitsIdle, SameUnit
  <2> QED
    BY <1>9, <1>10, <2>2
<1>11. ASSUME Executing(i), Worked(i)
       PROVE  /\ i \in Live /\ Station(i) \in Stations /\ Held(Station(i))
              /\ Entry(Station(i)) = i /\ stations[Station(i)].pc = rob[i].pc
              /\ Waits(i) /\ ~ rob[i].ready /\ rob'[i].state = "EXECUTE"
              /\ \A k \in Slots : k # i => rob'[k] = rob[k]
              /\ \A j \in Stations :
                   /\ stations'[j].pc = stations[j].pc
                   /\ j # Station(i) =>
                        stations'[j].write_result = stations[j].write_result
              /\ \A u \in Units : Occupies(u, i) => Going(i) /\ Op(i) # "SWS"
  <2>1. /\ i \in Live /\ Station(i) \in Stations /\ Held(Station(i))
        /\ Entry(Station(i)) = i /\ stations[Station(i)].pc = rob[i].pc
    BY <1>3, <1>11, ExecutesLive
  <2>2. Waits(i) /\ ~ rob[i].ready
    BY <1>3, <1>11, <2>1 DEF Worked, Waits, WaitsInStation
  <2>3. ASSUME NEW u \in Units, Occupies(u, i)
        PROVE  Going(i) /\ Op(i) # "SWS"
    BY <1>3, <1>11, <2>1, <2>2, <2>3 DEF UnitsDone, Waits, Going
  <2> QED
    BY <1>11, <2>1, <2>2, <2>3 DEF Worked
<1>12. CASE Executing(i) /\ Worked(i) /\ UnitsIdle /\ (Starting(i) \/ Op(i) = "SWS")
  <2>1. \A u \in Units : ~ Occupies(u, i)
    BY <1>11, <1>12 DEF Starting, Going
  <2>2. \A k \in Live : \A u \in Units : Occupies(u, k) =>
          /\ rob'[k].state # "ISSUE"
          /\ Op(k) = "SWS" => rob'[k].state = "COMMIT"
    BY <1>3, <1>7, <1>11, <1>12, <2>1 DEF UnitsDone
  <2>3. \A j \in Stations : stations'[j].write_result =>
          /\ stations'[j].pc = stations[j].pc
          /\ \A u \in Units : exec_units[u].pc = stations[j].pc =>
               stations[j].write_result \/ exec_units[u].busy = 0
    BY <1>11, <1>12, <2>1 DEF Occupies
  <2>4. UnitsApart' /\ UnitsServe' /\ UnitsDone'
    BY <1>2, <1>3, <1>5, <1>6, <1>7, <1>12, <2>2, <2>3, UnitsStay
       DEF UnitsIdle, SameUnit
  <2> QED
    BY <1>9, <1>12, <2>4
<1>13. ASSUME Executing(i), Worked(i), NEW u \in Units, WorkedIn(i, u)
       PROVE  UnitsApart' /\ UnitsServe' /\ UnitsDone' /\ LastStore'
  <2>1. /\ Op(i) # "SWS"
        /\ \/ Going(i) /\ exec_units[u].pc = rob[i].pc
           \/ Starting(i) /\ exec_units[u].pc = UNDEFINED
        /\ \A v \in Units : v # u => SameUnit(v)
        /\ \/ exec_units'[u].pc = rob[i].pc
           \/ phase' = "issue" /\ exec_units'[u].pc = UNDEFINED
        /\ stations'[Station(i)].write_result =>
             exec_units'[u].busy = 0 \/ stations[Station(i)].write_result
        /\ exec_units[u].busy = 0 /\ Going(i) => exec_units'[u].busy = 0
    BY <1>13 DEF WorkedIn
  <2>2. /\ i \in Live /\ i \in Slots /\ Station(i) \in Stations /\ Held(Station(i))
        /\ Entry(Station(i)) = i /\ stations[Station(i)].pc = rob[i].pc
        /\ ~ rob[i].ready /\ rob'[i].state = "EXECUTE" /\ rob[i].pc # UNDEFINED
        /\ \A k \in Slots : k # i => rob'[k] = rob[k]
        /\ \A j \in Stations :
             /\ stations'[j].pc = stations[j].pc
             /\ j # Station(i) => stations'[j].write_result = stations[j].write_result
        /\ \A v \in Units : Occupies(v, i) => Going(i)
    BY <1>7, <1>11, <1>13
  <2>3. \A v \in Units : v # u =>
          /\ exec_units[v].pc # rob[i].pc
          /\ exec_units'[v].pc = exec_units[v].pc \/ exec_units'[v].pc = UNDEFINED
          /\ exec_units'[v].busy = exec_units[v].busy
    BY <1>3, <2>1, <2>2 DEF UnitsApart, Occupies, SameUnit, Starting, Going
  <2>4. \A k \in Live : k \in Slots /\ (rob[k].pc = rob[i].pc => k = i)
    BY <2>2, PcOrder
  <2>5. UnitsApart'
    BY <1>3, <2>1, <2>3 DEF UnitsApart
  <2>6. UnitsServe'
    <3>1. ASSUME NEW v \in Units, exec_units'[v].pc # UNDEFINED,
                 v # clean_str_execution
          PROVE  \E k \in Live : exec_units'[v].pc = rob'[k].pc
      <4>1. CASE v = u
        BY <1>5, <2>1, <2>2, <3>1, <4>1
      <4>2. CASE v # u
        BY <1>2, <1>3, <1>5, <1>7, <2>3, <3>1, <4>2 DEF UnitsServe, Occupies
      <4> QED
        BY <4>1, <4>2
    <3> QED
      BY <1>2, <1>6, <3>1 DEF UnitsServe, Occupies
  <2>7. UnitsDone'
    <3>1. ASSUME NEW v \in Units, NEW k \in Live, exec_units'[v].pc = rob'[k].pc
          PROVE  /\ rob'[k].state # "ISSUE"
                 /\ Op(k) = "SWS" => rob'[k].state = "COMMIT"
                 /\ Op(k) # "SWS" /\ rob'[k].ready => exec_units'[v].busy = 0
      <4>1. exec_units'[v].pc = rob[k].pc /\ rob[k].pc # UNDEFINED
        BY <1>5, <1>7, <3>1
      <4>2. CASE k = i
        BY <1>5, <2>1, <2>2, <4>2
      <4>3. CASE k # i
        <5>1. v # u
          BY <2>1, <2>4, <4>1, <4>3
        <5>2. Occupies(v, k) /\ exec_units'[v].busy = exec_units[v].busy
          BY <2>3, <4>1, <5>1 DEF Occupies
        <5> QED
          BY <1>3, <1>7, <2>2, <4>3, <5>2 DEF UnitsDone
      <4> QED
        BY <4>2, <4>3
    <3>2. ASSUME NEW v \in Units, NEW j \in Stations, stations[j].pc # UNDEFINED,
                 stations'[j].write_result, exec_units'[v].pc = stations[j].pc
          PROVE  exec_units'[v].busy = 0
      <4>1. CASE v = u
        <5>1. j = Station(i)
          BY <1>3, <2>1, <2>2, <3>2, <4>1 DEF NoneTwice, Held
        <5>2. CASE stations[j].write_result
          <6>1. rob[i].state # "ISSUE"
            BY <1>3, <2>2, <5>1, <5>2 DEF StationHoldsLive
          <6>2. Going(i) /\ exec_units[u].pc = rob[i].pc
            BY <2>1, <6>1 DEF Starting
          <6>3. exec_units[u].busy = 0
            BY <1>3, <2>2, <5>1, <5>2, <6>2 DEF UnitsDone
          <6> QED
            BY <2>1, <4>1, <6>2, <6>3
        <5> QED
          BY <2>1, <3>2, <4>1, <5>1, <5>2
      <4>2. CASE v # u
        <5>1. exec_units[v].pc = stations[j].pc /\ exec_units'[v].busy = exec_units[v].busy
          BY <2>3, <3>2, <4>2
        <5>2. j # Station(i)
          BY <2>2, <2>3, <4>2, <5>1
        <5> QED
          BY <1>3, <2>2, <3>2, <5>1, <5>2 DEF UnitsDone, Held
      <4> QED
        BY <4>1, <4>2
    <3> QED
      BY <1>6, <1>7, <2>2, <3>1, <3>2 DEF UnitsDone, Occupies, Held
  <2>8. LastStore'
    <3>1. ASSUME clean_str_execution # UNDEFINED
          PROVE  \/ exec_units'[clean_str_execution].pc
                      = exec_units[clean_str_execution].pc
                 \/ phase' = "issue" /\ exec_units'[clean_str_execution].pc = UNDEFINED
      BY <1>8, <2>1, <3>1 DEF SameUnit
    <3> QED
      BY <1>2, <1>6, <1>8, <3>1 DEF LastStore
  <2> QED
    BY <2>5, <2>6, <2>7, <2>8
<1> QED
  BY <1>4, <1>10, <1>12, <1>13

\* An instruction just issued has no unit yet.
LEMMA IssueUnits ==
  ASSUME IInv, StationsInv, UnitsInv, Issue \/ IssueStall
  PROVE  UnitsInv'
<1>1. /\ phase = "issue" /\ phase' \in {"issue", "end"}
      /\ UNCHANGED <<branch_picked, exec_units, clean_str_execution>>
  BY DEF Issue, IssueStall, NextIssue, GoTo, IssueKeeps, branch
<1> SUFFICES ASSUME ~ branch_picked
             PROVE  UnitsApart' /\ UnitsServe' /\ UnitsDone' /\ LastStore'
  BY <1>1 DEF UnitsInv
<1>2. /\ UnitsApart /\ UnitsServe /\ UnitsDone /\ LastStore
      /\ StationHoldsLive /\ NothingReady /\ count \in Nat
  BY DEF UnitsInv, StationsInv, IInv
<1>3. \A i \in Live : /\ i \in Slots /\ rob[i].pc # UNDEFINED
                      /\ rob[i].pc \in Nat /\ rob[i].pc < 4 * count
  BY PcOrder
<1>4. UnitsApart'
  BY <1>1, <1>2 DEF UnitsApart
<1>5. CASE IssueStall
  <2>1. /\ \A j \in Stations : Listens(j)
        /\ UNCHANGED <<prog, count, rob, rb_rd_idx, clean_rb_idx>>
    BY <1>5, StallDoes
  <2>2. Live' = Live /\ \A i \in Slots : Op(i)' = Op(i)
    BY <2>1, LiveKept
  <2>3. UnitsServe'
    BY <1>1, <1>2, <1>3, <2>1, <2>2 DEF UnitsServe, Occupies
  <2>4. UnitsDone'
    BY <1>1, <1>2, <1>3, <2>1, <2>2 DEF UnitsDone, Occupies, Held, Listens
  <2>5. LastStore'
    BY <1>1, <1>2, <2>1 DEF LastStore
  <2> QED
    BY <1>4, <2>3, <2>4, <2>5
<1>6. CASE Issue
  <2>1. /\ count' = count + 1
        /\ count * 4 \in Nat /\ count * 4 # UNDEFINED
        /\ \A i \in Slots : i # rb_wr_idx => rob'[i] = rob[i]
        /\ rb_wr_idx \in Slots => rob'[rb_wr_idx].pc = count * 4
    BY <1>6, IssueEntry
  <2>2. /\ rb_wr_idx \in Slots /\ rb_wr_idx \notin Live
        /\ Live' = Live \cup {rb_wr_idx}
        /\ \A i \in Slots : i # rb_wr_idx => Op(i)' = Op(i)
    BY <1>6, LiveIssued
  <2>3. PICK s \in Stations :
          /\ stations[s].pc = UNDEFINED
          /\ stations'[s].write_result = stations[s].write_result
          /\ \A j \in Stations : j # s => Listens(j)
    BY <1>6, IssueStation
  <2>4. ~ stations[s].write_result
    BY <1>2, <2>3 DEF NothingReady
  <2>5. \A n \in Nat : n * 4 = 4 * n /\ 4 * n < 4 * (n + 1) /\ 4 * n \in Nat
    OBVIOUS
  <2>6. \A i \in Live : i # rb_wr_idx /\ rob'[i] = rob[i] /\ Op(i)' = Op(i)
    BY <1>3, <2>1, <2>2
  <2>7. \A u \in Units : exec_units[u].pc # count * 4
    <3>1. ASSUME NEW u \in Units, exec_units[u].pc = count * 4
          PROVE  FALSE
      <4>1. CASE u = clean_str_execution
        <5>1. u # UNDEFINED
          BY TomasuloAssumption
        <5>2. count * 4 < 4 * count
          BY <1>2, <2>1, <3>1, <4>1, <5>1 DEF LastStore
        <5> QED
          BY <1>2, <2>5, <5>2
      <4>2. CASE u # clean_str_execution
        <5>1. PICK i \in Live : exec_units[u].pc = rob[i].pc
          BY <1>1, <1>2, <2>1, <3>1, <4>2 DEF UnitsServe, Occupies
        <5> QED
          BY <1>2, <1>3, <2>5, <3>1, <5>1
      <4> QED
        BY <4>1, <4>2
    <3> QED
      BY <3>1
  <2>8. UnitsServe'
    BY <1>1, <1>2, <2>2, <2>6 DEF UnitsServe, Occupies
  <2>9. UnitsDone'
    <3>1. ASSUME NEW u \in Units, NEW i \in Live', exec_units[u].pc = rob'[i].pc
          PROVE  /\ rob'[i].state # "ISSUE"
                 /\ Op(i)' = "SWS" => rob'[i].state = "COMMIT"
                 /\ Op(i)' # "SWS" /\ rob'[i].ready => exec_units[u].busy = 0
      <4>1. i \in Live
        BY <2>1, <2>2, <2>7, <3>1
      <4> QED
        BY <1>2, <2>6, <3>1, <4>1 DEF UnitsDone, Occupies
    <3>2. ASSUME NEW u \in Units, NEW j \in Stations, stations'[j].pc # UNDEFINED,
                 stations'[j].write_result, exec_units[u].pc = stations'[j].pc
          PROVE  exec_units[u].busy = 0
      BY <1>2, <2>3, <2>4, <3>2 DEF UnitsDone, Held, Listens
    <3> QED
      BY <1>1, <3>1, <3>2 DEF UnitsDone, Occupies, Held
  <2>10. LastStore'
    <3>1. ASSUME clean_str_execution # UNDEFINED,
                 exec_units[clean_str_execution].pc # UNDEFINED
          PROVE  exec_units[clean_str_execution].pc \in 0 .. 4 * count' - 1
      <4>1. exec_units[clean_str_execution].pc \in 0 .. 4 * count - 1
        BY <1>2, <3>1 DEF LastStore
      <4> QED
        BY <1>2, <2>1, <2>5, <4>1
    <3>2. clean_str_execution # UNDEFINED => count' >= 2
      BY <1>2, <2>1 DEF LastStore
    <3> QED
      BY <1>1, <1>2, <3>1, <3>2 DEF LastStore
  <2> QED
    BY <1>4, <2>8, <2>9, <2>10
<1> QED
  BY <1>5, <1>6

LEMMA EndUnits ==
  ASSUME IInv, StationsInv, UnitsInv, Flush \/ EndCycle
  PROVE  UnitsInv'
<1>1. CASE Flush
  <2>1. /\ branch_picked /\ ~ branch_picked' /\ clean_str_execution' = UNDEFINED
        /\ phase' = "commit"
        /\ exec_units' = [u \in Units |-> [exec_units[u] EXCEPT !.pc = UNDEFINED,
                                                                !.busy = 0]]
    BY <1>1 DEF Flush, GoTo, UnitsInv
  <2>2. \A u \in Units : exec_units'[u].pc = UNDEFINED /\ exec_units'[u].busy = 0
    BY <2>1, Zenon DEF IInv, Shaped, IdleUnit
  <2>3. Live' = {}
    BY <1>1, LiveFlushed
  <2> QED
    BY <2>1, <2>2, <2>3
       DEF UnitsInv, UnitsApart, UnitsServe, UnitsDone, LastStore, Occupies
<1>2. CASE EndCycle
  <2>1. /\ phase = "end" /\ ~ branch_picked /\ ~ branch_picked' /\ phase' = "commit"
        /\ UNCHANGED <<prog, count, exec_units, clean_str_execution>>
        /\ \A j \in Stations : stations'[j] = IF j \in clear_res_stat_idx
                                              THEN EmptyStation ELSE stations[j]
    BY <1>2 DEF EndCycle, GoTo, branch, front, chosen
  <2>2. /\ Live' = Live
        /\ \A i \in Live : rob'[i] = rob[i] /\ Op(i)' = Op(i)
    BY <1>2, LiveCleared
  <2>3. UnitsApart /\ UnitsServe /\ UnitsDone /\ LastStore
    BY <2>1 DEF UnitsInv
  <2>4. EmptyStation.pc = UNDEFINED
    BY DEF EmptyStation
  <2>5. \A i \in Live : rob[i].pc # UNDEFINED
    BY DEF Live, InFlight
  <2>6. UnitsApart'
    BY <2>1, <2>3 DEF UnitsApart
  <2>7. UnitsServe'
    BY <2>1, <2>2, <2>3 DEF UnitsServe, Occupies
  <2>8. UnitsDone'
    BY <2>1, <2>2, <2>3, <2>4 DEF UnitsDone, Occupies, Held
  <2>9. LastStore'
    BY <2>1, <2>3 DEF LastStore
  <2> QED
    BY <2>1, <2>6, <2>7, <2>8, <2>9 DEF UnitsInv
<1> QED
  BY <1>1, <1>2

LEMMA InitUnits == Init => UnitsInv
<1> SUFFICES ASSUME Init PROVE UnitsInv
  OBVIOUS
<1>1. /\ ~ branch_picked /\ clean_str_execution = UNDEFINED /\ phase = "commit"
      /\ \A u \in Units : exec_units[u] = IdleUnit
      /\ \A i \in Slots : rob[i] = EmptySlot
  BY DEF Init
<1>2. IdleUnit.pc = UNDEFINED /\ EmptySlot.pc = UNDEFINED
  BY DEF IdleUnit, EmptySlot
<1>3. \A u \in Units : exec_units[u].pc = UNDEFINED
  BY <1>1, <1>2
<1>4. Live = {}
  BY <1>1, <1>2 DEF Live, InFlight
<1> QED
  BY <1>1, <1>3, <1>4
     DEF UnitsInv, UnitsApart, UnitsServe, UnitsDone, LastStore, Occupies, Held

LEMMA StepUnits ==
  IInv /\ IInv' /\ StationsInv /\ UnitsInv /\ [Next]_vars => UnitsInv'
<1> SUFFICES ASSUME IInv, IInv', StationsInv, UnitsInv, [Next]_vars PROVE UnitsInv'
  OBVIOUS
<1>1. CASE UNCHANGED vars
  <2>1. UNCHANGED <<prog, count, clean_rb_idx, rob, stations, exec_units, phase,
                    branch_picked, rb_rd_idx, clean_str_execution>>
    BY <1>1 DEF vars, chosen, front, cleanup, branch, ring
  <2>2. Live' = Live /\ \A i \in Slots : Op(i)' = Op(i)
    BY <2>1, LiveKept
  <2>3. \A i \in Live : i \in Slots
    BY DEF Live
  <2>4. (UnitsApart' <=> UnitsApart) /\ (LastStore' <=> LastStore)
    BY <2>1 DEF UnitsApart, LastStore
  <2>5. UnitsServe => UnitsServe'
    BY <2>1, <2>2, <2>3 DEF UnitsServe, Occupies
  <2>6. UnitsDone => UnitsDone'
    BY <2>1, <2>2, <2>3 DEF UnitsDone, Occupies, Held
  <2> QED
    BY <2>1, <2>4, <2>5, <2>6 DEF UnitsInv
<1>2. CASE SkipExecution \/ \E i \in Slots : Execution(i)
  BY <1>2, ExecutionUnits DEF SkipExecution
<1> QED
  BY <1>1, <1>2, CommitUnits, WriteResultUnits, IssueUnits, EndUnits DEF Next

LEMMA UnitsAreHeld == IInv /\ UnitsInv => UnitsHeld
<1> SUFFICES ASSUME IInv, UnitsInv, Boundary, NEW u \in Units,
                    exec_units[u].pc # UNDEFINED
             PROVE  /\ \/ u = clean_str_execution
                       \/ \E i \in Live : rob[i].pc = exec_units[u].pc
                    /\ Holding(exec_units[u].pc) = {u}
  BY DEF UnitsHeld
<1>1. ~ branch_picked /\ phase = "commit"
  BY DEF IInv, Boundary
<1>2. UnitsApart /\ UnitsServe
  BY <1>1 DEF UnitsInv
<1>3. Holding(exec_units[u].pc) = {u}
  BY <1>2 DEF UnitsApart, Holding
<1> QED
  BY <1>1, <1>2, <1>3 DEF UnitsServe, Occupies

\* In every machine whose memory units come last, an execution unit is held between
\* two cycles by one instruction in flight, or by the store just committed: the three
\* ways a unit is released, at the end of write_result's cycle, behind a retired
\* entry and after a store, neither lose one nor hand it to two instructions.
THEOREM UnitsCorrect == MemoryUnitLast => (Spec => []UnitsHeld)
<1>1. Init => IInv /\ StationsInv /\ UnitsInv
  BY InitInv, InitStations, InitUnits
<1>2. MemoryUnitLast /\ (IInv /\ StationsInv /\ UnitsInv) /\ [Next]_vars
        => (IInv /\ StationsInv /\ UnitsInv)'
  BY StepInv, StepStations, StepUnits
<1>3. IInv /\ StationsInv /\ UnitsInv => UnitsHeld
  BY UnitsAreHeld
<1>4. MemoryUnitLast => []MemoryUnitLast
  <2>1. MemoryUnitLast => MemoryUnitLast'
    BY DEF MemoryUnitLast
  <2> QED
    BY <2>1, PTL
<1> QED
  BY <1>1, <1>2, <1>3, <1>4, PTL DEF Spec

-----------------------------------------------------------------------------
(* The end of the program *)

\* Issue has been tried in this cycle.
Issued == phase = "end" \/ (phase = "issue" /\ at > 0)

NoneInFlight == \A i \in Slots : ~ InFlight(i)

AtEop == Instr(count).opcode = "EOP"

\* eop stays set after a flush; branch_end_of_program is set then, until an
\* instruction of the right path is in flight, or its EOP is seen.
EndInv ==
  /\ end_of_program => ~ branch_picked /\ Live = {} /\ AtEop
  /\ branch_picked /\ phase = "reclaim" => ~ NoneInFlight
  /\ ~ branch_picked =>
       /\ Issued /\ Live = {} => AtEop
       /\ /\ phase \in {"commit", "store", "reclaim"}
          /\ NoneInFlight /\ eop /\ ~ branch_end_of_program
          => AtEop

\* Where nothing is in flight nothing is live, and nothing else but the entry to be
\* cleared is in flight where nothing is live.
LEMMA NoneLive ==
  /\ NoneInFlight => Live = {}
  /\ Live = {} => \A i \in Slots : InFlight(i) => i = clean_rb_idx
BY DEF NoneInFlight, Live

\* With a buffer of more than one entry and nothing live, issue stalls at EOP only.
LEMMA StallsAtEop ==
  ASSUME IInv, StationsInv, CanIssue, ~ branch_picked, Live = {}, IssueStall
  PROVE  AtEop
<1>1. ~ Full
  <2>1. 0 \in Slots /\ 1 \in Slots
    BY Constants DEF CanIssue, Slots
  <2> QED
    BY <2>1, NoneLive DEF Full
<1>2. FreeStations(Instr(count).opcode) = {}
  BY <1>1 DEF IssueStall
<1>3. \A j \in Stations : stations[j].pc = UNDEFINED
  BY DEF StationsInv, StationHoldsLive, Held
<1>4. Instr(count).opcode # "EOP" => count \in DOMAIN prog /\ prog \in Programs
  BY DEF Instr, Eop, IInv, Shaped
<1>5. Instr(count).opcode # "EOP" =>
        \E j \in Stations : StationType[j] = StationFor(Instr(count).opcode)
  BY <1>4 DEF CanIssue, Instr
<1> QED
  BY <1>2, <1>3, <1>5 DEF FreeStations, AtEop

LEMMA CommitEnd ==
  ASSUME IInv, EndInv, Commit
  PROVE  EndInv'
<1>1. /\ prog' = prog /\ count' = count /\ eop' = eop
      /\ branch_end_of_program' = branch_end_of_program
      /\ \A i \in Slots : rob'[i].pc = rob[i].pc
  <2>1. UNCHANGED front
    BY DEF Commit, SkipCommit, CommitNothing, CommitStoreStart, CommitStoreContinue,
           StoreUnitOther, StoreUnit, CommitBranch, CommitFp, CommitInt, Reclaim
  <2> QED
    BY <2>1, CommitDoes DEF front
<1>2. (AtEop' <=> AtEop) /\ (NoneInFlight' <=> NoneInFlight)
  BY <1>1 DEF AtEop, Instr, NoneInFlight, InFlight
<1>3. CASE SkipCommit
  <2>1. /\ phase = "commit" /\ phase' \in {"execute", "issue"} /\ at' = 0
        /\ UNCHANGED <<branch_picked, end_of_program, clean_rb_idx, rb_rd_idx>>
    BY <1>3 DEF SkipCommit, branch, cleanup, ring
  <2>2. Live' = Live
    BY <1>1, <2>1, LiveKept
  <2> QED
    BY <1>2, <2>1, <2>2 DEF EndInv, Issued
<1>4. CASE Reclaim
  <2>1. /\ phase = "reclaim" /\ phase' = "write_result"
        /\ UNCHANGED <<branch_picked, clean_rb_idx, rb_rd_idx>>
        /\ end_of_program' = Ended
    BY <1>4 DEF Reclaim, GoTo, branch, cleanup, ring
  <2>2. Live' = Live
    BY <1>1, <2>1, LiveKept
  <2>3. Ended => NoneInFlight /\ eop /\ ~ branch_end_of_program
    BY DEF Ended, NoneInFlight, InFlight
  <2>4. Ended => ~ branch_picked /\ AtEop
    BY <2>1, <2>3 DEF EndInv
  <2> QED
    BY <1>2, <2>1, <2>2, <2>3, <2>4, NoneLive DEF EndInv, Issued
<1>5. CASE ~ SkipCommit /\ ~ Reclaim
  <2>1. /\ phase \in {"commit", "store"} /\ phase' \in {"store", "reclaim"}
        /\ end_of_program' = end_of_program
    BY <1>5 DEF Commit, CommitNothing, CommitStoreStart, CommitStoreContinue,
                StoreUnitOther, StoreUnit, CommitBranch, CommitFp, CommitInt, GoTo,
                Committing, AfterUnit
  <2>2. ~ branch_picked
    BY <2>1 DEF IInv
  <2>3. CASE UNCHANGED <<rb_wr_idx, rb_rd_idx, clean_rb_idx, branch_picked>>
    <3>1. Live' = Live
      BY <1>1, <2>3, LiveKept
    <3> QED
      BY <1>1, <1>2, <2>1, <2>2, <2>3, <3>1 DEF EndInv, Issued
  <2>4. CASE InFlight(rb_rd_idx) /\ clean_rb_idx = UNDEFINED
    <3>1. rb_rd_idx \in Slots /\ rb_rd_idx \in Live
      BY <2>4, Constants DEF IInv, Live
    <3>2. ~ end_of_program /\ ~ NoneInFlight
      BY <2>4, <3>1 DEF EndInv, NoneInFlight
    <3> QED
      BY <1>2, <2>1, <3>2 DEF EndInv, Issued
  <2>5. CASE branch_picked'
    <3>1. phase = "commit" /\ head.ready
      BY <1>5, <2>2, <2>5
         DEF Commit, CommitNothing, CommitStoreStart, CommitStoreContinue,
             StoreUnitOther, StoreUnit, CommitBranch, CommitFp, CommitInt, branch,
             Committing
    <3> QED
      BY <2>4, <3>1, HeadReady
  <2> QED
    BY <2>3, <2>4, <2>5, CommitDoes
<1> QED
  BY <1>3, <1>4, <1>5

\* The phases between commit and issue leave all of it alone.
LEMMA MiddleEnd ==
  ASSUME IInv, EndInv, StationsInv,
         WriteResult \/ (\E i \in Slots : Execution(i) \/ ExecNothing(i))
  PROVE  EndInv'
<1>1. /\ UNCHANGED <<prog, front, branch_picked, end_of_program, rb_rd_idx, clean_rb_idx>>
      /\ phase' = "execute" \/ (phase' = "issue" /\ at' = 0)
      /\ \A i \in Slots : rob'[i].pc = rob[i].pc
  <2>1. CASE WriteResult
    BY <2>1, WriteResultDoes
  <2>2. CASE \E i \in Slots : Execution(i) \/ ExecNothing(i)
    <3>1. PICK i \in Slots : Execution(i) \/ ExecNothing(i)
      BY <2>2
    <3>2. at \in Nat
      BY DEF StationsInv
    <3>3. /\ ExecutionStep
          /\ UNCHANGED <<rob, stations>> \/ Worked(i)
      BY <3>1, <3>2, ExecutionDoes
    <3> QED
      BY <3>3 DEF ExecutionStep, Worked
  <2> QED
    BY <2>1, <2>2
<1>2. Live' = Live
  BY <1>1, LiveKept
<1>3. AtEop' <=> AtEop
  BY <1>1 DEF AtEop, Instr, front
<1> QED
  BY <1>1, <1>2, <1>3 DEF EndInv, Issued

LEMMA IssueEnd ==
  ASSUME IInv, EndInv, StationsInv, CanIssue, Issue \/ IssueStall
  PROVE  EndInv'
<1>1. phase' \in {"issue", "end"} /\ end_of_program' = end_of_program
      /\ branch_picked' = branch_picked /\ phase = "issue"
  BY DEF Issue, IssueStall, NextIssue, GoTo, IssueKeeps, branch
<1>2. CASE IssueStall
  <2>1. UNCHANGED <<prog, count, rob, rb_rd_idx, clean_rb_idx>>
    BY <1>2, StallDoes
  <2>2. Live' = Live /\ (AtEop' <=> AtEop)
    BY <2>1, LiveKept DEF AtEop, Instr
  <2>3. ~ branch_picked /\ Live = {} => AtEop
    BY <1>2, StallsAtEop
  <2> QED
    BY <1>1, <2>2, <2>3 DEF EndInv, Issued
<1>3. CASE Issue
  <2>1. ~ AtEop
    BY <1>3, IssueEntry DEF AtEop
  <2>2. ~ branch_picked => Live' # {}
    BY <1>3, LiveIssued
  <2> QED
    BY <1>1, <2>1, <2>2 DEF EndInv, Issued
<1> QED
  BY <1>2, <1>3

LEMMA EndEnd ==
  ASSUME IInv, EndInv, Flush \/ EndCycle
  PROVE  EndInv'
<1>1. CASE Flush
  <2>1. /\ branch_picked /\ ~ branch_picked' /\ branch_end_of_program'
        /\ phase' = "commit" /\ end_of_program' = end_of_program
    BY <1>1 DEF Flush, GoTo
  <2> QED
    BY <2>1 DEF EndInv, Issued
<1>2. CASE EndCycle
  <2>1. /\ phase = "end" /\ ~ branch_picked /\ ~ branch_picked' /\ phase' = "commit"
        /\ UNCHANGED <<prog, count, end_of_program>>
    BY <1>2 DEF EndCycle, GoTo, branch, front, chosen
  <2>2. Live' = Live /\ (AtEop' <=> AtEop)
    BY <1>2, <2>1, LiveCleared DEF AtEop, Instr
  <2>3. NoneInFlight' => Live' = {}
    BY DEF NoneInFlight, Live
  <2> QED
    BY <2>1, <2>2, <2>3 DEF EndInv, Issued
<1> QED
  BY <1>1, <1>2

LEMMA StepEnd ==
  CanIssue /\ IInv /\ StationsInv /\ EndInv /\ [Next]_vars => EndInv'
<1> SUFFICES ASSUME CanIssue, IInv, StationsInv, EndInv, [Next]_vars PROVE EndInv'
  OBVIOUS
<1>1. CASE UNCHANGED vars
  <2>1. UNCHANGED <<prog, count, eop, branch_end_of_program, end_of_program,
                    clean_rb_idx, rob, phase, at, branch_picked, rb_rd_idx>>
    BY <1>1 DEF vars, chosen, front, cleanup, branch, ring
  <2>2. Live' = Live /\ (AtEop' <=> AtEop) /\ (NoneInFlight' <=> NoneInFlight)
    BY <2>1, LiveKept DEF AtEop, Instr, NoneInFlight, InFlight
  <2> QED
    BY <2>1, <2>2 DEF EndInv, Issued
<1> QED
  BY <1>1, CommitEnd, MiddleEnd, IssueEnd, EndEnd DEF Next, SkipExecution

\* A run ends only at an EOP that the program reaches, if the buffer has more than
\* one entry and every operation of the program a station to go to: an EOP fetched
\* behind a taken branch, which leaves eop set for good, ends nothing.
THEOREM EndCorrect ==
  MemoryUnitLast /\ CanIssue => (Spec => []NoEarlyEnd)
<1>1. Init => IInv /\ StationsInv /\ EndInv
  <2>1. Init => EndInv
    BY DEF Init, EndInv, Issued
  <2> QED
    BY <2>1, InitInv, InitStations
<1>2. (MemoryUnitLast /\ CanIssue) /\ (IInv /\ StationsInv /\ EndInv) /\ [Next]_vars
        => (IInv /\ StationsInv /\ EndInv)'
  BY StepInv, StepStations, StepEnd
<1>3. IInv /\ StationsInv /\ EndInv => NoEarlyEnd
  BY DEF EndInv, NoEarlyEnd, ArchPC, AtEop
<1>4. MemoryUnitLast /\ CanIssue => [](MemoryUnitLast /\ CanIssue)
  <2>1. MemoryUnitLast /\ CanIssue => (MemoryUnitLast /\ CanIssue)'
    BY DEF MemoryUnitLast, CanIssue
  <2> QED
    BY <2>1, PTL
<1> QED
  BY <1>1, <1>2, <1>3, <1>4, PTL DEF Spec

-----------------------------------------------------------------------------
(* Tags of waiting operands *)

\* Stations have been told of all results: not so between write_result and issue.
Caught == ~ (phase = "execute" \/ (phase = "issue" /\ at = 0))

EmptyNameless == \A i \in Slots : ~ InFlight(i) => rob[i].destination = UNDEFINED

TagsWait ==
  \A j \in Stations : \A t \in {stations[j].tag1, stations[j].tag2} : t # UNDEFINED =>
    /\ Held(j) /\ t \in Live
    /\ Back(t, rb_rd_idx) < Back(Entry(j), rb_rd_idx)
    /\ Caught => ~ rob[t].ready

TagsInv == ~ branch_picked => EmptyNameless /\ TagsWait

\* An entry found to write a register has an instruction.
LEMMA WritersInFlight ==
  ASSUME EmptyNameless, NEW r \in 0 .. 31, NEW base \in {0, 32}, NEW s \in Writers(r, base)
  PROVE  s \in Slots /\ InFlight(s)
<1>1. s \in Slots /\ Wrap(rob[s].destination - base) = r
  BY DEF Writers
<1>2. WordSize \in Nat /\ RobSize \in Nat /\ RobSize + 64 < WordSize - 1
  BY WordBitsAssumption, TomasuloAssumption DEF UNDEFINED
<1>3. \A W \in Nat : \A b \in {0, 32} : 64 < W - 1 => (W - 1 - b) % W = W - 1 - b
  OBVIOUS
<1>4. 64 < WordSize - 1
  BY <1>2
<1>5. rob[s].destination = UNDEFINED =>
        Wrap(rob[s].destination - base) = WordSize - 1 - base
  BY <1>2, <1>3, <1>4 DEF Wrap, UNDEFINED
<1>6. WordSize - 1 - base # r
  BY <1>2, <1>4
<1> QED
  BY <1>1, <1>5, <1>6 DEF EmptyNameless

\* The search back from the write index meets every entry.
LEMMA BackBack ==
  ASSUME NEW w \in Slots, NEW s \in Slots
  PROVE  Back(w, s) \in Slots /\ Back(w, Back(w, s)) = s
<1>1. \A M \in Nat \ {0} : \A m, f \in 0 .. M - 1 :
        /\ (m - f) % M = IF m >= f THEN m - f ELSE m - f + M
        /\ (m - f) % M \in 0 .. M - 1
  OBVIOUS
<1>2. \A m, f \in Slots : /\ Back(m, f) = IF m >= f THEN m - f ELSE m - f + RobSize
                          /\ Back(m, f) \in Slots
  BY <1>1, Constants DEF Back, Slots
<1>3. Back(w, s) \in Slots
  BY <1>2
<1>4. Back(w, s) = IF w >= s THEN w - s ELSE w - s + RobSize
  BY <1>2
<1>5. Back(w, Back(w, s)) = IF w >= Back(w, s) THEN w - Back(w, s)
                            ELSE w - Back(w, s) + RobSize
  BY <1>2, <1>3
<1> QED
  BY <1>3, <1>4, <1>5, Constants DEF Slots

LEMMA YoungestWrites ==
  ASSUME rb_wr_idx \in Slots, NEW r, NEW base, Writers(r, base) # {}
  PROVE  Youngest(r, base) \in Writers(r, base)
<1> DEFINE S == {k \in Slots : Back(rb_wr_idx, k) \in Writers(r, base)}
<1>1. PICK s \in Writers(r, base) : s \in Slots
  BY DEF Writers
<1>2. Back(rb_wr_idx, s) \in S
  BY <1>1, BackBack
<1>3. S \in SUBSET Nat /\ S # {}
  BY <1>2, Constants
<1>4. First(S) \in S
  BY <1>3, FirstIn
<1> QED
  BY <1>4 DEF Youngest

\* An operand is known, or is to come from an instruction in flight without a result.
LEMMA FromTag ==
  ASSUME IInv, StationsInv, ~ branch_picked, NEW s \in Slots, InFlight(s),
         NEW o \in From(s), o.tag # UNDEFINED
  PROVE  o.tag \in Live /\ ~ rob[o.tag].ready
<1>1. ~ rob[s].ready /\ o = Pending(s)
  BY DEF From, Known
<1>2. o.tag = s
  BY <1>1 DEF Pending
<1>3. clean_rb_idx = s => rob[s].ready
  BY Constants DEF StationsInv, RetiredOlder
<1> QED
  BY <1>1, <1>2, <1>3 DEF Live

LEMMA OperandTag ==
  ASSUME IInv, StationsInv, EmptyNameless, ~ branch_picked, rb_wr_idx \in Slots,
         NEW file, NEW r \in 0 .. 31, NEW base \in {0, 32}, NEW pick \in 0 .. 31,
         Cardinality(Writers(r, base)) > 1 => Writers(pick, base) # {},
         NEW o \in Operand(file, r, base, pick), o.tag # UNDEFINED
  PROVE  o.tag \in Live /\ ~ rob[o.tag].ready
<1>1. IsFiniteSet(Writers(r, base)) /\ Cardinality(Writers(r, base)) \in Nat
  <2>1. IsFiniteSet(Slots)
    BY FS_Interval, Constants DEF Slots
  <2>2. IsFiniteSet(Writers(r, base))
    BY <2>1, FS_Subset DEF Writers
  <2> QED
    BY <2>2, FS_CardinalityType
<1>2. CASE Cardinality(Writers(r, base)) = 0
  BY <1>2 DEF Operand, Known
<1>3. CASE Cardinality(Writers(r, base)) = 1
  <2>1. Writers(r, base) # {} /\ Writers(r, base) \in SUBSET Nat
    <3>1. Writers(r, base) # {}
      BY <1>3, FS_EmptySet
    <3>2. Writers(r, base) \in SUBSET Nat
      BY Constants DEF Writers
    <3> QED
      BY <3>1, <3>2
  <2>2. First(Writers(r, base)) \in Writers(r, base)
    BY <2>1, FirstIn
  <2>3. o \in From(First(Writers(r, base)))
    BY <1>3 DEF Operand
  <2>4. First(Writers(r, base)) \in Slots /\ InFlight(First(Writers(r, base)))
    BY <2>2, WritersInFlight
  <2> QED
    BY <2>3, <2>4, FromTag
<1>4. CASE Cardinality(Writers(r, base)) > 1
  <2>1. o \in From(Youngest(pick, base))
    BY <1>4 DEF Operand
  <2>2. Youngest(pick, base) \in Writers(pick, base)
    BY <1>4, YoungestWrites
  <2>3. Youngest(pick, base) \in Slots /\ InFlight(Youngest(pick, base))
    BY <2>2, WritersInFlight
  <2> QED
    BY <2>1, <2>3, FromTag
<1> QED
  BY <1>1, <1>2, <1>3, <1>4

LEMMA OperandsWait ==
  ASSUME IInv, StationsInv, EmptyNameless, ~ branch_picked, SourcesNamed, BaseFound, Issue
  PROVE  \A o \in Operand1(Instr(count)) \cup Operand2(Instr(count)) :
           o.tag # UNDEFINED => o.tag \in Live /\ ~ rob[o.tag].ready
<1> DEFINE in == Instr(count)
<1>1. /\ in.opcode # "EOP" /\ count \in DOMAIN prog /\ in = prog[count]
      /\ prog \in Programs /\ phase = "issue" /\ rb_wr_idx \in Slots
  <2>1. in.opcode # "EOP" /\ count \in DOMAIN prog /\ rb_wr_idx \in Slots
    BY IssueEntry, LiveIssued
  <2> QED
    BY <2>1 DEF Instr, IInv, Shaped, Issue
<1>2. /\ in.src1 \in 0 .. 31
      /\ in.opcode \in FpAlu \cup IntMulDiv \cup RegisterOps \cup {"SWS"} =>
           in.src2 \in 0 .. 31
  BY <1>1 DEF SourcesNamed
<1>3. in.opcode = "SWS" /\ Cardinality(Writers(in.src2, 0)) > 1 =>
        Writers(in.src1, 0) # {}
  BY <1>1 DEF BaseFound
<1>4. ASSUME NEW r \in 0 .. 31, NEW base \in {0, 32},
             Cardinality(Writers(r, base)) > 1
      PROVE  Writers(r, base) # {}
  <2>1. ~ (0 > 1)
    OBVIOUS
  <2> QED
    BY <1>4, <2>1, FS_EmptySet
<1>5. ASSUME NEW o \in Operand1(in), o.tag # UNDEFINED
      PROVE  o.tag \in Live /\ ~ rob[o.tag].ready
  <2>1. \/ o \in Operand(gp_fp, in.src1, 32, in.src1)
        \/ o \in Operand(gp_int, in.src1, 0, in.src1)
    BY <1>5 DEF Operand1
  <2> QED
    BY <1>1, <1>2, <1>4, <1>5, <2>1, OperandTag
<1>6. ASSUME NEW o \in Operand2(in), o.tag # UNDEFINED
      PROVE  o.tag \in Live /\ ~ rob[o.tag].ready
  <2>1. \/ /\ in.src2 \in 0 .. 31
           /\ \/ o \in Operand(gp_fp, in.src2, 32, in.src2)
              \/ o \in Operand(gp_int, in.src2, 0, in.src2)
        \/ /\ in.opcode = "SWS" /\ in.src2 \in 0 .. 31
           /\ o \in Operand(gp_int, in.src2, 0, in.src1)
    <3>1. o \notin NoOperand
      BY <1>6 DEF NoOperand, Known
    <3> QED
      BY <1>2, <1>6, <3>1 DEF Operand2
  <2>2. CASE /\ in.src2 \in 0 .. 31
             /\ \/ o \in Operand(gp_fp, in.src2, 32, in.src2)
                \/ o \in Operand(gp_int, in.src2, 0, in.src2)
    BY <1>1, <1>4, <1>6, <2>2, OperandTag
  <2>3. CASE /\ in.opcode = "SWS" /\ in.src2 \in 0 .. 31
             /\ o \in Operand(gp_int, in.src2, 0, in.src1)
    BY <1>1, <1>2, <1>3, <1>6, <2>3, OperandTag
  <2> QED
    BY <2>1, <2>2, <2>3
<1> QED
  BY <1>5, <1>6

\* Steps that tell no station anything.
LEMMA TagsStay ==
  ASSUME TagsWait, Live' = Live, rb_rd_idx' = rb_rd_idx,
         \A j \in Stations :
           /\ stations'[j].pc = stations[j].pc
           /\ stations'[j].destination = stations[j].destination
           /\ stations'[j].tag1 = stations[j].tag1 /\ stations'[j].tag2 = stations[j].tag2,
         Caught' => Caught /\ \A i \in Live : rob'[i].ready = rob[i].ready
  PROVE  TagsWait'
<1>1. \A i : Back(i, rb_rd_idx)' = Back(i, rb_rd_idx')
  BY DEF Back
<1>2. ASSUME NEW j \in Stations, NEW t \in {stations[j].tag1, stations[j].tag2},
             t # UNDEFINED
      PROVE  /\ stations'[j].pc # UNDEFINED /\ t \in Live
             /\ Back(t, rb_rd_idx) < Back(stations'[j].destination, rb_rd_idx)
             /\ Caught' => ~ rob'[t].ready
  BY <1>2 DEF TagsWait, Held, Entry
<1>3. ASSUME NEW j \in Stations, NEW t \in {stations'[j].tag1, stations'[j].tag2},
             t # UNDEFINED
      PROVE  /\ stations'[j].pc # UNDEFINED /\ t \in Live'
             /\ Back(t, rb_rd_idx') < Back(stations'[j].destination, rb_rd_idx')
             /\ Caught' => ~ rob'[t].ready
  BY <1>2, <1>3
<1> QED
  BY <1>3 DEF TagsWait, Held, Entry, Back

LEMMA NamelessStay ==
  ASSUME EmptyNameless, \A i \in Slots : /\ rob'[i].pc = rob[i].pc
                                         /\ \/ rob'[i].destination = rob[i].destination
                                            \/ InFlight(i)
  PROVE  EmptyNameless'
BY DEF EmptyNameless, InFlight

\* The head is nobody's tag when it retires: it has a result, and none waits for it.
LEMMA CommitTagsWait ==
  ASSUME IInv, StationsInv, TagsInv, Commit
  PROVE  TagsInv'
<1>1. /\ stations' = stations /\ prog' = prog
      /\ phase \in {"commit", "store", "reclaim"}
      /\ \A i \in Slots : /\ rob'[i].pc = rob[i].pc /\ rob'[i].ready = rob[i].ready
                          /\ rob'[i].destination = rob[i].destination
  BY CommitDoes
<1>2. CASE branch_picked'
  BY <1>2 DEF TagsInv
<1>3. CASE UNCHANGED <<rb_wr_idx, rb_rd_idx, clean_rb_idx, branch_picked>>
  <2>1. Live' = Live /\ \A i \in Live : i \in Slots
    BY <1>1, <1>3, LiveKept DEF Live
  <2>2. Caught
    BY <1>1 DEF Caught
  <2> QED
    BY <1>1, <1>3, <2>1, <2>2, TagsStay, NamelessStay DEF TagsInv
<1>4. CASE /\ clean_rb_idx = UNDEFINED /\ InFlight(rb_rd_idx) /\ Retire
           /\ ~ branch_picked
           /\ head.ready \/ phase = "store"
  <2>1. /\ EmptyNameless /\ TagsWait /\ Caught
        /\ StationHoldsLive /\ clear_res_stat_idx = {} /\ head.ready
    BY <1>1, <1>4 DEF TagsInv, StationsInv, ClearedLater, Caught
  <2>2. /\ rb_rd_idx \in Live /\ rb_rd_idx' \in Slots
        /\ Live' = Live \ {rb_rd_idx}
        /\ \A i \in Live' : Place(i)' = Place(i) - 1
    BY <1>1, <1>4, LiveRetired
  <2>3. /\ \A i \in Live : i \in Slots
        /\ \A i \in Live' : /\ Back(i, rb_rd_idx') = Back(i, rb_rd_idx) - 1
                            /\ Back(i, rb_rd_idx) \in Int
    <3>1. \A i \in Live : i \in Slots
      BY DEF Live
    <3>2. ASSUME NEW i \in Slots
          PROVE  Back(i, rb_rd_idx) \in Int
      <4>1. rb_rd_idx \in Slots
        BY DEF IInv, Shaped, Ring
      <4>2. Place(i) \in Slots
        BY <4>1, PlaceIs
      <4> QED
        BY <4>2, Constants DEF Place, Slots
    <3> QED
      BY <2>2, <3>1, <3>2 DEF Place
  <2>4. ASSUME NEW j \in Stations, NEW t \in {stations[j].tag1, stations[j].tag2},
               t # UNDEFINED
        PROVE  /\ Held(j) /\ t \in Live'
               /\ Back(t, rb_rd_idx') < Back(Entry(j), rb_rd_idx')
               /\ ~ rob'[t].ready
    <3>1. /\ Held(j) /\ t \in Live /\ ~ rob[t].ready
          /\ Back(t, rb_rd_idx) < Back(Entry(j), rb_rd_idx)
      BY <2>1, <2>4 DEF TagsWait
    <3>2. Entry(j) \in Live'
      BY <2>1, <2>2, <3>1 DEF StationHoldsLive, head
    <3>3. t \in Live'
      BY <2>1, <2>2, <3>1 DEF head
    <3>4. \A m, n \in Int : m < n => m - 1 < n - 1
      OBVIOUS
    <3> QED
      BY <1>1, <2>3, <3>1, <3>2, <3>3, <3>4
  <2>5. TagsWait'
    BY <1>1, <2>4 DEF TagsWait, Held, Entry, Back
  <2>6. EmptyNameless'
    BY <1>1, <2>1, NamelessStay
  <2> QED
    BY <2>5, <2>6 DEF TagsInv
<1> QED
  BY <1>2, <1>3, <1>4, CommitDoes

\* What becomes of the tags a station had, when it has been told of the results.
LEMMA ListensWaits ==
  ASSUME TagsWait, NEW j \in Stations, Listens(j),
         NEW t \in {stations'[j].tag1, stations'[j].tag2}, t # UNDEFINED
  PROVE  /\ stations'[j].pc # UNDEFINED /\ stations'[j].pc = stations[j].pc
         /\ t \in Live /\ ~ rob'[t].ready
         /\ Entry(j) = stations'[j].destination
         /\ Back(t, rb_rd_idx) < Back(Entry(j), rb_rd_idx)
<1>1. t \in {stations[j].tag1, stations[j].tag2} /\ ~ (t \in Slots /\ rob'[t].ready)
  BY DEF Listens, Left
<1>2. t \in Live /\ Held(j) /\ Back(t, rb_rd_idx) < Back(Entry(j), rb_rd_idx)
  BY <1>1 DEF TagsWait
<1> QED
  BY <1>1, <1>2 DEF Listens, Held, Entry, Live

LEMMA IssueTagsWait ==
  ASSUME IInv, StationsInv, TagsInv, SourcesNamed, BaseFound, Issue \/ IssueStall
  PROVE  TagsInv'
<1> SUFFICES ASSUME ~ branch_picked
             PROVE  EmptyNameless' /\ TagsWait'
  <2>1. UNCHANGED branch
    BY DEF Issue, IssueStall, IssueKeeps
  <2>2. branch_picked' = branch_picked
    BY <2>1 DEF branch
  <2> QED
    BY <2>2 DEF TagsInv
<1>1. EmptyNameless /\ TagsWait
  BY DEF TagsInv
<1>2. CASE IssueStall
  <2>1. /\ \A j \in Stations : Listens(j)
        /\ UNCHANGED <<prog, rob, rb_rd_idx, clean_rb_idx>>
    BY <1>2, StallDoes
  <2>2. Live' = Live
    BY <2>1, LiveKept
  <2>3. ASSUME NEW j \in Stations, NEW t \in {stations'[j].tag1, stations'[j].tag2},
               t # UNDEFINED
        PROVE  /\ stations'[j].pc # UNDEFINED /\ t \in Live' /\ ~ rob'[t].ready
               /\ Back(t, rb_rd_idx') < Back(stations'[j].destination, rb_rd_idx')
    BY <1>1, <2>1, <2>2, <2>3, ListensWaits
  <2>4. TagsWait'
    BY <2>3 DEF TagsWait, Held, Entry, Back
  <2>5. EmptyNameless'
    BY <1>1, <2>1, NamelessStay
  <2> QED
    BY <2>4, <2>5
<1>3. CASE Issue
  <2>1. /\ rb_rd_idx' = rb_rd_idx
        /\ count * 4 # UNDEFINED
        /\ \A i \in Slots : i # rb_wr_idx => rob'[i] = rob[i]
        /\ rb_wr_idx \in Slots => rob'[rb_wr_idx].pc = count * 4
    BY <1>3, IssueEntry
  <2>2. /\ rb_wr_idx \in Slots /\ rb_wr_idx \notin Live
        /\ Live' = Live \cup {rb_wr_idx}
        /\ \A i \in Live : Back(i, rb_rd_idx) < Back(rb_wr_idx, rb_rd_idx)
    BY <1>3, LiveIssued DEF Place
  <2>3. PICK s \in Stations, o1 \in Operand1(Instr(count)), o2 \in Operand2(Instr(count)) :
          /\ stations'[s].pc = count * 4 /\ stations'[s].destination = rb_wr_idx
          /\ stations'[s].tag1 = Left(o1.tag) /\ stations'[s].tag2 = Left(o2.tag)
          /\ \A k \in Stations : k # s => Listens(k)
    BY <1>3, IssueStation
  <2>4. \A o \in {o1, o2} : o.tag # UNDEFINED => o.tag \in Live
    BY <1>1, <1>3, <2>3, OperandsWait
  <2>5. ASSUME NEW j \in Stations, NEW t \in {stations'[j].tag1, stations'[j].tag2},
               t # UNDEFINED
        PROVE  /\ stations'[j].pc # UNDEFINED /\ t \in Live' /\ ~ rob'[t].ready
               /\ Back(t, rb_rd_idx') < Back(stations'[j].destination, rb_rd_idx')
    <3>1. CASE j = s
      <4>1. t \in {o1.tag, o2.tag} /\ ~ (t \in Slots /\ rob'[t].ready)
        BY <2>3, <2>5, <3>1 DEF Left
      <4>2. t \in Live /\ t \in Slots
        BY <2>4, <2>5, <4>1 DEF Live
      <4> QED
        BY <2>1, <2>2, <2>3, <3>1, <4>1, <4>2
    <3>2. CASE j # s
      BY <1>1, <2>1, <2>2, <2>3, <2>5, <3>2, ListensWaits
    <3> QED
      BY <3>1, <3>2
  <2>6. TagsWait'
    BY <2>5 DEF TagsWait, Held, Entry, Back
  <2>7. EmptyNameless'
    BY <1>1, <2>1, <2>2 DEF EmptyNameless, InFlight
  <2> QED
    BY <2>6, <2>7
<1> QED
  BY <1>2, <1>3

LEMMA EndTagsWait ==
  ASSUME IInv, StationsInv, TagsInv, Flush \/ EndCycle
  PROVE  TagsInv'
<1>1. CASE Flush
  <2>1. /\ \A i \in Slots : rob'[i] = EmptySlot
        /\ \A j \in Stations : stations'[j] = EmptyStation
    BY <1>1 DEF Flush, FlushedSlots
  <2>2. /\ EmptySlot.destination = UNDEFINED
        /\ EmptyStation.tag1 = UNDEFINED /\ EmptyStation.tag2 = UNDEFINED
    BY DEF EmptySlot, EmptyStation
  <2> QED
    BY <2>1, <2>2 DEF TagsInv, EmptyNameless, TagsWait
<1>2. CASE EndCycle
  <2>1. /\ ~ branch_picked /\ ~ branch_picked' /\ phase = "end"
        /\ rb_rd_idx' = rb_rd_idx
        /\ \A i \in Slots : rob'[i] = IF i = clean_rb_idx THEN EmptySlot ELSE rob[i]
        /\ \A j \in Stations : stations'[j] = IF j \in clear_res_stat_idx
                                              THEN EmptyStation ELSE stations[j]
        /\ Live' = Live
    BY <1>2, LiveCleared DEF EndCycle, branch, ring
  <2>2. EmptyNameless /\ TagsWait /\ Caught
    BY <2>1 DEF TagsInv, Caught
  <2>3. /\ EmptySlot.destination = UNDEFINED
        /\ EmptyStation.tag1 = UNDEFINED /\ EmptyStation.tag2 = UNDEFINED
    BY DEF EmptySlot, EmptyStation
  <2>4. EmptyNameless'
    BY <2>1, <2>2, <2>3 DEF EmptyNameless, InFlight
  <2>5. \A i \in Live : i \in Slots /\ rob'[i] = rob[i]
    BY <2>1 DEF Live
  <2>6. ASSUME NEW j \in Stations, NEW t \in {stations'[j].tag1, stations'[j].tag2},
               t # UNDEFINED
        PROVE  /\ stations'[j].pc # UNDEFINED /\ t \in Live' /\ ~ rob'[t].ready
               /\ Back(t, rb_rd_idx') < Back(stations'[j].destination, rb_rd_idx')
    <3>1. stations'[j] = stations[j]
      BY <2>1, <2>3, <2>6
    <3> QED
      BY <2>1, <2>2, <2>5, <2>6, <3>1 DEF TagsWait, Held, Entry
  <2>7. TagsWait'
    BY <2>6 DEF TagsWait, Held, Entry, Back
  <2> QED
    BY <2>4, <2>7 DEF TagsInv
<1> QED
  BY <1>1, <1>2

\* Results are written while nobody looks, and issue looks before the cycle ends.
LEMMA MiddleTagsWait ==
  ASSUME IInv, StationsInv, TagsInv,
         WriteResult \/ (\E i \in Slots : Execution(i) \/ ExecNothing(i))
  PROVE  TagsInv'
<1>1. /\ UNCHANGED <<prog, branch_picked, rb_rd_idx, clean_rb_idx>>
      /\ ~ Caught'
      /\ \A i \in Slots : /\ rob'[i].pc = rob[i].pc
                          /\ rob'[i].destination = rob[i].destination \/ InFlight(i)
      /\ \A j \in Stations :
           /\ stations'[j].pc = stations[j].pc
           /\ stations'[j].destination = stations[j].destination
           /\ stations'[j].tag1 = stations[j].tag1 /\ stations'[j].tag2 = stations[j].tag2
  <2>1. CASE WriteResult
    BY <2>1, WriteResultDoes DEF Caught
  <2>2. CASE \E i \in Slots : Execution(i) \/ ExecNothing(i)
    <3>1. PICK i \in Slots : Execution(i) \/ ExecNothing(i)
      BY <2>2
    <3>2. at \in Nat
      BY DEF StationsInv
    <3>3. /\ ExecutionStep
          /\ UNCHANGED <<rob, stations>> \/ (Worked(i) /\ Executing(i))
      BY <3>1, <3>2, ExecutionDoes
    <3> QED
      BY <3>3 DEF ExecutionStep, Worked, Executing, Caught
  <2> QED
    BY <2>1, <2>2
<1>2. Live' = Live
  BY <1>1, LiveKept
<1> QED
  BY <1>1, <1>2, TagsStay, NamelessStay DEF TagsInv

LEMMA InitTagsWait == Init => TagsInv
<1>1. /\ EmptySlot.destination = UNDEFINED
      /\ EmptyStation.tag1 = UNDEFINED /\ EmptyStation.tag2 = UNDEFINED
  BY DEF EmptySlot, EmptyStation
<1> QED
  BY <1>1 DEF Init, TagsInv, EmptyNameless, TagsWait

LEMMA StepTagsWait ==
  SourcesNamed /\ BaseFound /\ IInv /\ StationsInv /\ TagsInv /\ [Next]_vars => TagsInv'
<1> SUFFICES ASSUME SourcesNamed, BaseFound, IInv, StationsInv, TagsInv, [Next]_vars
             PROVE  TagsInv'
  OBVIOUS
<1>1. CASE UNCHANGED vars
  <2>1. UNCHANGED <<prog, clean_rb_idx, rob, stations, phase, at, branch_picked, rb_rd_idx>>
    BY <1>1 DEF vars, chosen, cleanup, branch, ring
  <2>2. Live' = Live /\ (Caught' <=> Caught)
    BY <2>1, LiveKept DEF Caught
  <2> QED
    BY <2>1, <2>2, TagsStay, NamelessStay DEF TagsInv
<1> QED
  BY <1>1, CommitTagsWait, MiddleTagsWait, IssueTagsWait, EndTagsWait
     DEF Next, SkipExecution

LEMMA TagsArePending == IInv /\ TagsInv => TagsPending
<1> SUFFICES ASSUME IInv, TagsInv, Boundary, NEW j \in Stations,
                    NEW t \in {stations[j].tag1, stations[j].tag2} \ {UNDEFINED}
             PROVE  /\ t \in Live /\ ~ rob[t].ready
                    /\ Place(t) < Place(stations[j].destination)
  BY DEF TagsPending
<1>1. TagsWait /\ Caught
  BY DEF IInv, TagsInv, Boundary, Caught
<1> QED
  BY <1>1 DEF TagsWait, Place, Entry

\* In every machine whose memory units come last, and for every program that names
\* registers, operands wait between two cycles for older instructions that are in
\* flight and have no result yet, as long as the base of a store is found: so no
\* station waits for ever, and no two for each other.
THEOREM TagsCorrect ==
  MemoryUnitLast /\ SourcesNamed => (Spec /\ []BaseFound => []TagsPending)
<1>1. Init => IInv /\ StationsInv /\ TagsInv
  BY InitInv, InitStations, InitTagsWait
<1>2. (MemoryUnitLast /\ SourcesNamed) /\ BaseFound /\ (IInv /\ StationsInv /\ TagsInv)
        /\ [Next]_vars => (IInv /\ StationsInv /\ TagsInv)'
  BY StepInv, StepStations, StepTagsWait
<1>3. IInv /\ StationsInv /\ TagsInv => TagsPending
  BY TagsArePending
<1>4. MemoryUnitLast /\ SourcesNamed => [](MemoryUnitLast /\ SourcesNamed)
  <2>1. MemoryUnitLast /\ SourcesNamed => (MemoryUnitLast /\ SourcesNamed)'
    BY DEF MemoryUnitLast, SourcesNamed
  <2> QED
    BY <2>1, PTL
<1> QED
  BY <1>1, <1>2, <1>3, <1>4, PTL DEF Spec

-----------------------------------------------------------------------------
(* Types *)

TypedUnit(e, busy) == /\ DOMAIN e = DOMAIN IdleUnit
                      /\ e.pc \in Word /\ e.busy \in 0 .. busy /\ e.clean \in BOOLEAN

UnitsTyped == DOMAIN exec_units = Units /\ \A u \in Units : TypedUnit(exec_units[u], latency[u])

FilesTyped ==
  /\ \E f \in IntFiles : DOMAIN gp_int = DOMAIN f
  /\ \E f \in FpFiles : DOMAIN gp_fp = DOMAIN f
  /\ \A r \in DOMAIN gp_int : gp_int[r] \in Word
  /\ \A r \in DOMAIN gp_fp : gp_fp[r] \in Word
  /\ \A a \in DOMAIN data_memory : data_memory[a] \in Word

TagsTyped ==
  /\ \A r \in DOMAIN gp_int_tag : gp_int_tag[r] \in Word
  /\ \A r \in DOMAIN gp_fp_tag : gp_fp_tag[r] \in Word

BypassTyped == /\ DOMAIN str_bypass_value = Stations
               /\ \A j \in Stations : str_bypass_value[j] \in Word

IndicesTyped ==
  /\ latency \in Latencies
  /\ rb_wr_idx \in Slots
  /\ branch_target \in Word
  /\ clean_rb_idx \in Slots \cup {UNDEFINED}
  /\ clean_str_execution \in Units \cup {UNDEFINED}
  /\ clear_res_stat_idx \subseteq Stations
  /\ phase \in {"commit", "store", "reclaim", "write_result", "execute", "issue", "end"}

TypeInv ==
  /\ rob \in [Slots -> SlotType]
  /\ stations \in [Stations -> StationRecord]
  /\ UnitsTyped
  /\ FilesTyped
  /\ TagsTyped
  /\ BypassTyped
  /\ IndicesTyped

LEMMA Words ==
  /\ 0 \in Word /\ UNDEFINED \in Word /\ Slots \subseteq Word /\ RobSize \in Word
  /\ \A n \in 0 .. 31 : n + 32 \in Word
  /\ \A n \in Int : Wrap(n) \in Word
<1>1. /\ WordSize \in Nat \ {0} /\ RobSize \in Nat /\ RobSize + 64 < WordSize - 1
      /\ UNDEFINED = WordSize - 1
  BY Constants, TomasuloAssumption DEF UNDEFINED
<1>2. \A m \in Nat \ {0} : \A n \in Int : n % m \in 0 .. m - 1
  OBVIOUS
<1>3. \A n \in Int : Wrap(n) \in Word
  BY <1>1, <1>2 DEF Wrap, Word
<1> HIDE DEF UNDEFINED, Wrap
<1>4. /\ 0 \in Word /\ UNDEFINED \in Word /\ Slots \subseteq Word /\ RobSize \in Word
      /\ \A n \in 0 .. 31 : n + 32 \in Word
  BY <1>1 DEF Word, Slots
<1> QED
  BY <1>3, <1>4

\* A station's record with other fields.
LEMMA UnitFields ==
  ASSUME NEW e, NEW max \in Nat, TypedUnit(e, max)
  PROVE  /\ \A b \in 0 .. max : TypedUnit([e EXCEPT !.busy = b], max)
         /\ \A p \in Word : /\ TypedUnit([e EXCEPT !.pc = p], max)
                            /\ \A b \in 0 .. max : TypedUnit([e EXCEPT !.busy = b, !.pc = p], max)
         /\ TypedUnit([e EXCEPT !.clean = TRUE], max)
         /\ TypedUnit([e EXCEPT !.pc = UNDEFINED, !.clean = FALSE], max)
         /\ TypedUnit([e EXCEPT !.pc = UNDEFINED], max)
         /\ TypedUnit([e EXCEPT !.pc = UNDEFINED, !.busy = 0], max)
<1>1. DOMAIN e = {"pc", "busy", "clean"} /\ DOMAIN IdleUnit = {"pc", "busy", "clean"}
  BY DEF TypedUnit, IdleUnit
<1>2. e.pc \in Word /\ e.busy \in 0 .. max /\ e.clean \in BOOLEAN
  BY DEF TypedUnit
<1>3. ASSUME NEW p \in Word, NEW b \in 0 .. max
      PROVE  /\ TypedUnit([e EXCEPT !.busy = b], max)
             /\ TypedUnit([e EXCEPT !.pc = p], max)
             /\ TypedUnit([e EXCEPT !.busy = b, !.pc = p], max)
  BY <1>1, <1>2 DEF TypedUnit
<1>4. /\ TypedUnit([e EXCEPT !.clean = TRUE], max)
      /\ TypedUnit([e EXCEPT !.pc = UNDEFINED, !.clean = FALSE], max)
      /\ TypedUnit([e EXCEPT !.pc = UNDEFINED], max)
  BY <1>1, <1>2, Words DEF TypedUnit
<1>5. TypedUnit([e EXCEPT !.pc = UNDEFINED, !.busy = 0], max)
  BY <1>1, <1>2, Words DEF TypedUnit
<1>6. 0 \in 0 .. max
  OBVIOUS
<1> QED
  BY <1>3, <1>4, <1>5, <1>6, Words

\* The latency of a unit is a number.
LEMMA LatencyType ==
  ASSUME WordsGiven, IndicesTyped, NEW u \in Units
  PROVE  latency[u] \in Nat \ {0}
BY DEF WordsGiven, IndicesTyped

LEMMA NextSlotTypes ==
  ASSUME WordsGiven, TypeInv, NEW units, NextSlot(units), phase = "execute", latency' = latency,
         DOMAIN units = Units, \A u \in Units : TypedUnit(units[u], latency[u])
  PROVE  UnitsTyped' /\ phase' \in {"execute", "issue"}
<1>1. \A u \in Units : latency[u] \in Nat
  BY LatencyType DEF TypeInv
<1>2. CASE at + 1 \in Slots
  BY <1>2 DEF NextSlot, UnitsTyped
<1>3. CASE at + 1 \notin Slots
  <2>1. /\ phase' = "issue"
        /\ exec_units' = [u \in Units |->
             IF units[u].clean THEN [units[u] EXCEPT !.pc = UNDEFINED, !.clean = FALSE]
             ELSE units[u]]
    BY <1>3 DEF NextSlot, GoTo
  <2>2. \A u \in Units : TypedUnit([units[u] EXCEPT !.pc = UNDEFINED, !.clean = FALSE], latency[u])
    BY <1>1, UnitFields
  <2> QED
    BY <2>1, <2>2 DEF UnitsTyped
<1> QED
  BY <1>2, <1>3

LEMMA IdleTypes ==
  ASSUME WordsGiven, TypeInv, NextSlot(exec_units), phase = "execute", latency' = latency
  PROVE  UnitsTyped' /\ phase' \in {"execute", "issue"}
<1>1. DOMAIN exec_units = Units /\ \A u \in Units : TypedUnit(exec_units[u], latency[u])
  BY DEF TypeInv, UnitsTyped
<1> QED
  BY <1>1, NextSlotTypes

\* What a program holds are words.
LEMMA InstrWords ==
  ASSUME prog \in Programs, NEW n
  PROVE  Instr(n) \in Instruction
<1>1. \A k \in DOMAIN prog : prog[k] \in Instruction
  BY TomasuloAssumption
<1>2. Eop \in Instruction
  BY Words DEF Eop, Instruction, Opcodes
<1> QED
  BY <1>1, <1>2 DEF Instr

LEMMA WorkTypes ==
  ASSUME WordsGiven, IInv, TypeInv, NEW i \in Slots, Executing(i), NEW u \in Units,
         NEW busy \in 0 .. latency[u], Work(i, u, busy), latency' = latency
  PROVE  /\ rob' \in [Slots -> SlotType] /\ stations' \in [Stations -> StationRecord]
         /\ UnitsTyped' /\ phase' \in {"execute", "issue"}
<1> DEFINE j    == Station(i)
           left == IF busy # 0 THEN busy - 1 ELSE 0
           load == Op(i) \in Loads
           sum  == Wrap(stations[j].value1 + stations[j].address)
           addr == IF load /\ left = latency[u] - 1 THEN sum ELSE stations[j].address
           alu  == Alu(Op(i), stations[j].value1, stations[j].value2,
                       At(rob[i].pc).immediate, rob[i].pc)
           out  == IF load THEN ReadMemory(addr) ELSE alu
           unit == [exec_units[u] EXCEPT !.busy = left, !.pc = rob[i].pc]
<1>1. /\ rob' = [rob EXCEPT ![i].state = "EXECUTE",
                            ![i].result = IF left = 0 THEN out ELSE @]
      /\ stations' = [stations EXCEPT ![j].address = addr,
                                      ![j].write_result = @ \/ left = 0]
      /\ NextSlot([exec_units EXCEPT ![u] = unit])
  BY DEF Work
<1>2. phase = "execute" /\ Holders(i) # {} /\ prog \in Programs
  BY DEF IInv, Shaped, Executing
<1>3. j \in Stations
  BY <1>2, StationHolds
<1>4. /\ rob \in [Slots -> SlotType] /\ stations \in [Stations -> StationRecord]
      /\ rob[i].pc \in Word /\ rob[i].result \in Word
      /\ stations[j].value1 \in Word /\ stations[j].value2 \in Word
      /\ stations[j].address \in Word /\ stations[j].write_result \in BOOLEAN
  BY <1>3 DEF TypeInv, SlotType, StationRecord
<1>5. At(rob[i].pc).immediate \in Word
  BY <1>2, InstrWords DEF At, Instruction
<1>6. sum \in Word
  <2>1. stations[j].value1 \in Nat /\ stations[j].address \in Nat
    BY <1>4, Constants
  <2>2. stations[j].value1 + stations[j].address \in Int
    BY <2>1
  <2> QED
    BY <2>2, Words
<1>7. \A a : ReadMemory(a) \in Word
  <2>1. \A a \in DOMAIN data_memory : data_memory[a] \in Word
    BY DEF TypeInv, FilesTyped
  <2> QED
    BY <2>1, Words, Zenon DEF ReadMemory
<1>8. alu \in Word
  BY <1>4, <1>5, AluWord DEF WordsGiven
<1>9. latency[u] \in Nat
  BY LatencyType DEF TypeInv
<1>10. left \in 0 .. latency[u]
  BY <1>9
<1>11. (left = 0) \in BOOLEAN
  OBVIOUS
<1> HIDE DEF j, left, load, sum, alu
<1>12. addr \in Word /\ out \in Word
  BY <1>4, <1>6, <1>7, <1>8
<1> HIDE DEF addr, out
<1>13. rob' \in [Slots -> SlotType]
  <2>1. (IF left = 0 THEN out ELSE rob[i].result) \in Word
    BY <1>4, <1>12
  <2> QED
    BY <1>1, <1>4, <2>1 DEF SlotType
<1>14. stations' \in [Stations -> StationRecord]
  BY <1>1, <1>3, <1>4, <1>11, <1>12 DEF StationRecord
<1>15. UnitsTyped' /\ phase' \in {"execute", "issue"}
  <2>1. /\ DOMAIN exec_units = Units
        /\ \A v \in Units : TypedUnit(exec_units[v], latency[v])
    BY DEF TypeInv, UnitsTyped
  <2>2. TypedUnit(unit, latency[u])
    BY <1>4, <1>9, <1>10, <2>1, UnitFields
  <2> HIDE DEF unit
  <2> DEFINE units == [exec_units EXCEPT ![u] = unit]
  <2>3. DOMAIN units = Units /\ \A v \in Units : TypedUnit(units[v], latency[v])
    BY <2>1, <2>2
  <2> HIDE DEF units
  <2> QED
    BY <1>1, <1>2, <2>3, NextSlotTypes DEF units
<1> QED
  BY <1>13, <1>14, <1>15

LEMMA ExecutionKept ==
  ASSUME TypeInv, ExecKeeps, rob' \in [Slots -> SlotType],
         stations' \in [Stations -> StationRecord], UnitsTyped', BypassTyped',
         phase' \in {"execute", "issue"}
  PROVE  TypeInv'
<1>1. UNCHANGED <<prog, latency, gp_int, gp_fp, data_memory, gp_int_tag, gp_fp_tag,
                  branch_target, rb_wr_idx, rb_rd_idx, clean_rb_idx,
                  clear_res_stat_idx, clean_str_execution>>
  BY DEF ExecKeeps, chosen, arch, tags, front, branch, ring, cleanup
<1>2. FilesTyped' /\ TagsTyped'
  BY <1>1 DEF TypeInv, FilesTyped, TagsTyped
<1>3. IndicesTyped'
  BY <1>1 DEF TypeInv, IndicesTyped
<1> QED
  BY <1>2, <1>3 DEF TypeInv

\* A load that takes the value of a store.
LEMMA BypassTypes ==
  ASSUME WordsGiven, TypeInv, NEW i \in Slots, Executing(i), NEW v \in Word, TakeBypass(i, v),
         latency' = latency
  PROVE  /\ rob' \in [Slots -> SlotType] /\ stations' \in [Stations -> StationRecord]
         /\ UnitsTyped' /\ BypassTyped' /\ phase' \in {"execute", "issue"}
<1> DEFINE j == Station(i)
           a == LoadAddress(i)
<1>1. /\ rob' = [rob EXCEPT ![i].state = "EXECUTE", ![i].result = v]
      /\ stations' = [stations EXCEPT ![j].value2 = v, ![j].write_result = TRUE,
                                      ![j].address = a]
      /\ str_bypass_value' = [str_bypass_value EXCEPT ![j] = 0]
      /\ NextSlot(exec_units)
  BY DEF TakeBypass
<1>2. phase = "execute" /\ Holders(i) # {}
  BY DEF Executing
<1>3. j \in Stations
  BY <1>2, StationHolds
<1>4. rob \in [Slots -> SlotType] /\ stations \in [Stations -> StationRecord]
  BY DEF TypeInv
<1>5. a \in Word
  <2>1. stations[j].value1 \in Nat /\ stations[j].address \in Nat
    BY <1>3, <1>4, Constants DEF StationRecord
  <2>2. stations[j].value1 + stations[j].address \in Int
    BY <2>1
  <2> QED
    BY <2>2, Words DEF LoadAddress
<1> HIDE DEF j, a
<1>6. rob' \in [Slots -> SlotType]
  BY <1>1, <1>4 DEF SlotType
<1>7. stations' \in [Stations -> StationRecord]
  BY <1>1, <1>3, <1>4, <1>5 DEF StationRecord
<1>8. BypassTyped'
  BY <1>1, <1>3, Words DEF TypeInv, BypassTyped
<1> QED
  BY <1>1, <1>2, <1>6, <1>7, <1>8, IdleTypes

\* What the scan of the stores finds is a word.
LEMMA ScanWord ==
  ASSUME TypeInv, NEW i \in Slots, NEW a
  PROVE  Scan(i, a).value \in Word
<1>1. \A M \in Nat \ {0} : \A n \in Int : n % M \in 0 .. M - 1
  OBVIOUS
<1>2. \A k \in Slots : Back(i, k) \in Slots
  <2>1. \A k \in Slots : i - k \in Int
    BY Constants
  <2> QED
    BY <1>1, <2>1, Constants DEF Back, Slots
<1>3. CASE Conflicts(i, a) = {}
  BY <1>3, Words DEF Scan
<1>4. CASE Conflicts(i, a) # {}
  <2> DEFINE s == Back(i, First(Conflicts(i, a)))
  <2>1. Conflicts(i, a) \in SUBSET Slots /\ Conflicts(i, a) \in SUBSET Nat
    BY Constants DEF Conflicts, Scanned
  <2>2. First(Conflicts(i, a)) \in Slots
    BY <1>4, <2>1, FirstIn
  <2>3. s \in Slots
    BY <1>2, <2>2
  <2>4. Scan(i, a) = [verdict |-> Verdict(s, a), value |-> rob[s].value]
    BY <1>4 DEF Scan
  <2> HIDE DEF s
  <2> QED
    BY <2>3, <2>4 DEF TypeInv, SlotType
<1> QED
  BY <1>3, <1>4

LEMMA ExecutionTypes ==
  ASSUME WordsGiven, IInv, TypeInv, NEW i \in Slots, ExecNothing(i) \/ Execution(i)
  PROVE  TypeInv'
<1>1. ExecKeeps /\ latency' = latency
  BY DEF Execution, ExecNothing, ExecStore, ExecStart, ExecGoOn, ExecLoadAnnounced,
         ExecLoad, ExecLoadNoUnit, ExecKeeps, chosen
<1>2. /\ rob \in [Slots -> SlotType] /\ stations \in [Stations -> StationRecord]
      /\ BypassTyped
  BY DEF TypeInv
<1>3. UNCHANGED waiting => BypassTyped'
  BY <1>2 DEF waiting, BypassTyped
<1>4. \A u \in Units : latency[u] \in Nat /\ exec_units[u].busy \in 0 .. latency[u]
  BY LatencyType DEF TypeInv, UnitsTyped, TypedUnit
<1>5. ASSUME Executing(i)
      PROVE  phase = "execute" /\ Station(i) \in Stations
  BY <1>5, StationHolds DEF Executing
<1>6. ASSUME phase = "execute", NextSlot(exec_units), UNCHANGED <<rob, stations>>, BypassTyped'
      PROVE  TypeInv'
  BY <1>1, <1>2, <1>6, IdleTypes, ExecutionKept
<1>7. ASSUME Executing(i), NEW u \in Units, NEW busy \in 0 .. latency[u], Work(i, u, busy),
             UNCHANGED waiting
      PROVE  TypeInv'
  BY <1>1, <1>3, <1>7, WorkTypes, ExecutionKept
<1>8. ASSUME Executing(i), NEW v \in Word, TakeBypass(i, v)
      PROVE  TypeInv'
  BY <1>1, <1>8, BypassTypes, ExecutionKept
<1>9. \A op : FreeUnits(op) # {} =>
        /\ First(FreeUnits(op)) \in Units
        /\ latency[First(FreeUnits(op))] \in 0 .. latency[First(FreeUnits(op))]
  BY <1>4, FreeUnitType
<1>10. ASSUME NEW scan, scan.value \in Word, Executing(i), Announce(i, scan)
       PROVE  BypassTyped'
  <2>1. \/ str_bypass_value' = str_bypass_value
        \/ str_bypass_value' = [str_bypass_value EXCEPT ![Station(i)] = scan.value]
    BY <1>10 DEF Announce
  <2> QED
    BY <1>2, <1>5, <1>10, <2>1 DEF BypassTyped
<1>11. CASE ExecNothing(i)
  BY <1>3, <1>6, <1>11 DEF ExecNothing
<1>12. CASE ExecStore(i)
  <2> DEFINE j == Station(i)
             a == Wrap(stations[j].value2 + stations[j].address)
  <2>1. /\ Executing(i) /\ NextSlot(exec_units) /\ UNCHANGED waiting
        /\ rob' = [rob EXCEPT ![i].state = "EXECUTE", ![i].destination = a]
        /\ stations' = [stations EXCEPT ![j].address = a, ![j].write_result = TRUE]
    BY <1>12 DEF ExecStore, Starting, Going
  <2>2. j \in Stations /\ phase = "execute"
    BY <1>5, <2>1
  <2>3. a \in Word
    <3>1. stations[j].value2 \in Nat /\ stations[j].address \in Nat
      BY <1>2, <2>2, Constants DEF StationRecord
    <3>2. stations[j].value2 + stations[j].address \in Int
      BY <3>1
    <3> QED
      BY <3>2, Words
  <2> HIDE DEF j, a
  <2>4. rob' \in [Slots -> SlotType]
    BY <1>2, <2>1, <2>3 DEF SlotType
  <2>5. stations' \in [Stations -> StationRecord]
    BY <1>2, <2>1, <2>2, <2>3 DEF StationRecord
  <2> QED
    BY <1>1, <1>3, <2>1, <2>2, <2>4, <2>5, IdleTypes, ExecutionKept
<1>13. CASE ExecStart(i)
  <2>1. Executing(i) /\ UNCHANGED waiting
    BY <1>13 DEF ExecStart, Starting
  <2>2. CASE FreeUnits(Op(i)) = {}
    BY <1>3, <1>5, <1>6, <1>13, <2>1, <2>2 DEF ExecStart
  <2>3. CASE FreeUnits(Op(i)) # {}
    <3>1. Work(i, First(FreeUnits(Op(i))), latency[First(FreeUnits(Op(i)))])
      BY <1>13, <2>3 DEF ExecStart
    <3> QED
      BY <1>7, <1>9, <2>1, <2>3, <3>1
  <2> QED
    BY <2>2, <2>3
<1>14. CASE ExecGoOn(i)
  <2>1. Executing(i) /\ UNCHANGED waiting
    BY <1>14 DEF ExecGoOn, Going
  <2>2. PICK u \in Units : Work(i, u, exec_units[u].busy)
    BY <1>14 DEF ExecGoOn, Holding
  <2> QED
    BY <1>4, <1>7, <2>1, <2>2
<1>15. CASE ExecLoadAnnounced(i)
  <2>1. Executing(i) /\ TakeBypass(i, str_bypass_value[Station(i)])
    BY <1>15 DEF ExecLoadAnnounced, StartingLoad, Starting
  <2>2. str_bypass_value[Station(i)] \in Word
    BY <1>2, <1>5, <2>1 DEF BypassTyped
  <2> QED
    BY <1>8, <2>1, <2>2
<1>16. CASE ExecLoad(i)
  <2> DEFINE scan == Scan(i, LoadAddress(i))
             u    == First(FreeUnits(Op(i)))
  <2>1. /\ Executing(i) /\ FreeUnits(Op(i)) # {}
        /\ CASE scan.verdict = "none"  -> Work(i, u, latency[u]) /\ UNCHANGED waiting
             [] scan.verdict = "ready" -> /\ TakeBypass(i, scan.value)
                                          /\ UNCHANGED <<str_bypass_write, store_com_bypass>>
             [] OTHER -> /\ Announce(i, scan)
                         /\ NextSlot(exec_units)
                         /\ UNCHANGED <<rob, stations>>
    BY <1>16 DEF ExecLoad, Undecided, StartingLoad, Starting
  <2>2. scan.value \in Word
    BY ScanWord
  <2>3. u \in Units /\ latency[u] \in 0 .. latency[u]
    BY <1>9, <2>1
  <2> HIDE DEF scan, u
  <2> QED
    BY <1>5, <1>6, <1>7, <1>8, <1>10, <2>1, <2>2, <2>3
<1>17. CASE ExecLoadNoUnit(i)
  <2> DEFINE scan == Scan(i, LoadAddress(i))
             own  == IF scan.verdict \in {"written", "committing"} THEN scan.value
                     ELSE str_bypass_value[Station(i)]
             taken == IF scan.verdict = "ready" THEN 0 ELSE own
  <2>1. /\ Executing(i)
        /\ \/ TakeBypass(i, taken)
           \/ TakeBypass(i, scan.value)
           \/ /\ Announce(i, scan)
              /\ NextSlot(exec_units)
              /\ UNCHANGED <<rob, stations>>
    BY <1>17 DEF ExecLoadNoUnit, Undecided, StartingLoad, Starting
  <2>2. scan.value \in Word
    BY ScanWord
  <2>3. str_bypass_value[Station(i)] \in Word
    BY <1>2, <1>5, <2>1 DEF BypassTyped
  <2>4. taken \in Word
    BY <2>2, <2>3, Words
  <2> HIDE DEF scan, own, taken
  <2> QED
    BY <1>5, <1>6, <1>8, <1>10, <2>1, <2>2, <2>4
<1> QED
  BY <1>11, <1>12, <1>13, <1>14, <1>15, <1>16, <1>17 DEF Execution

\* What commits leave alone.
LEMMA CommitKept ==
  ASSUME TypeInv, UNCHANGED <<stations, str_bypass_value, latency, rb_wr_idx, clear_res_stat_idx>>,
         rob' \in [Slots -> SlotType], UnitsTyped', FilesTyped', TagsTyped',
         branch_target' \in Word, clean_rb_idx' \in Slots \cup {UNDEFINED},
         clean_str_execution' \in Units \cup {UNDEFINED},
         phase' \in {"commit", "store", "reclaim", "write_result", "execute", "issue"}
  PROVE  TypeInv'
<1>1. BypassTyped'
  BY DEF TypeInv, BypassTyped
<1>2. IndicesTyped'
  BY DEF TypeInv, IndicesTyped
<1> QED
  BY <1>1, <1>2 DEF TypeInv

LEMMA ReleasedTypes ==
  ASSUME WordsGiven, TypeInv
  PROVE  DOMAIN Released = Units /\ \A u \in Units : TypedUnit(Released[u], latency[u])
<1>1. ASSUME NEW u \in Units
      PROVE  /\ TypedUnit(exec_units[u], latency[u])
             /\ TypedUnit([exec_units[u] EXCEPT !.pc = UNDEFINED], latency[u])
  BY UnitFields, LatencyType DEF TypeInv, UnitsTyped
<1> QED
  BY <1>1 DEF Released

LEMMA CommitTypes ==
  ASSUME WordsGiven, IInv, TypeInv, Commit
  PROVE  TypeInv'
<1>1. /\ UNCHANGED <<stations, str_bypass_value, latency, rb_wr_idx, clear_res_stat_idx>>
      /\ phase' \in {"commit", "store", "reclaim", "write_result", "execute", "issue"}
      /\ phase \in {"commit", "store", "reclaim"}
  BY DEF Commit, SkipCommit, CommitNothing, CommitStoreStart, CommitStoreContinue,
         StoreUnitOther, StoreUnit, CommitBranch, CommitFp, CommitInt, Reclaim,
         Committing, AfterUnit, GoTo, chosen, ring, bypass, waiting, cleanup
<1>2. /\ rb_rd_idx \in Slots /\ head \in SlotType /\ rob \in [Slots -> SlotType]
      /\ head.pc \in Word /\ head.value \in Word
  BY DEF TypeInv, IInv, head, SlotType
<1>3. /\ branch_target \in Word /\ clean_rb_idx \in Slots \cup {UNDEFINED}
      /\ clean_str_execution \in Units \cup {UNDEFINED}
      /\ UnitsTyped /\ FilesTyped /\ TagsTyped
  BY DEF TypeInv, IndicesTyped
<1>4. \A u \in Units : latency[u] \in Nat \ {0} /\ TypedUnit(exec_units[u], latency[u])
  BY <1>3, LatencyType DEF TypeInv, UnitsTyped
<1>5. exec_units' = Released => UnitsTyped'
  BY <1>1, ReleasedTypes DEF UnitsTyped
<1>6. exec_units' = exec_units => UnitsTyped'
  BY <1>1, <1>3 DEF UnitsTyped
<1>7. UNCHANGED <<gp_int, gp_fp, data_memory>> => FilesTyped'
  BY <1>3 DEF FilesTyped
<1>8. UNCHANGED tags => TagsTyped'
  BY <1>3 DEF TagsTyped, tags
<1>9. Retire => clean_rb_idx' \in Slots \cup {UNDEFINED}
  BY <1>2 DEF Retire
<1>10. CASE SkipCommit \/ CommitNothing \/ CommitStoreContinue \/ StoreUnitOther
  <2>1. /\ exec_units' = Released \/ exec_units' = exec_units
        /\ clean_str_execution' \in {UNDEFINED, clean_str_execution}
        /\ UNCHANGED <<rob, branch_target, clean_rb_idx, gp_int, gp_fp, data_memory, tags>>
    BY <1>10 DEF SkipCommit, CommitNothing, CommitStoreContinue, StoreUnitOther,
                 arch, branch, cleanup
  <2> QED
    BY <1>1, <1>2, <1>3, <1>5, <1>6, <1>7, <1>8, <2>1, CommitKept
<1>11. CASE CommitStoreStart
  <2> DEFINE free == {u \in Units : /\ UnitType[u] = "MEMORY"
                                    /\ Released[u].busy = 0
                                    /\ Released[u].pc = UNDEFINED}
             m    == First(free)
             unit == [Released[m] EXCEPT !.busy = latency[m] - 1, !.pc = head.pc]
  <2>1. /\ clean_str_execution' = UNDEFINED
        /\ UNCHANGED <<branch_target, clean_rb_idx, gp_int, gp_fp, data_memory, tags>>
        /\ \/ exec_units' = Released /\ rob' = rob
           \/ /\ free # {}
              /\ exec_units' = [Released EXCEPT ![m] =
                    [@ EXCEPT !.busy = latency[m] - 1, !.pc = head.pc]]
              /\ rob' = [rob EXCEPT ![rb_rd_idx].state = "COMMIT"]
    BY <1>11 DEF CommitStoreStart, arch, branch, cleanup
  <2>2. CASE exec_units' = Released /\ rob' = rob
    BY <1>1, <1>2, <1>3, <1>5, <1>7, <1>8, <2>1, <2>2, CommitKept
  <2>3. CASE /\ free # {}
             /\ exec_units' = [Released EXCEPT ![m] =
                    [@ EXCEPT !.busy = latency[m] - 1, !.pc = head.pc]]
             /\ rob' = [rob EXCEPT ![rb_rd_idx].state = "COMMIT"]
    <3>1. free \in SUBSET Nat /\ free \in SUBSET Units
      BY TomasuloAssumption
    <3>2. m \in Units
      BY <2>3, <3>1, FirstIn
    <3> HIDE DEF free, m
    <3>3. latency[m] - 1 \in 0 .. latency[m] /\ latency[m] \in Nat
      BY <1>4, <3>2
    <3>4. TypedUnit(unit, latency[m])
      BY <1>2, <3>2, <3>3, ReleasedTypes, UnitFields
    <3>5. exec_units' = [Released EXCEPT ![m] = unit]
      BY <2>3, <3>2, ReleasedTypes
    <3> HIDE DEF unit
    <3>6. UnitsTyped'
      BY <1>1, <3>2, <3>4, <3>5, ReleasedTypes DEF UnitsTyped
    <3>7. rob' \in [Slots -> SlotType]
      BY <1>2, <2>3 DEF SlotType
    <3> QED
      BY <1>1, <1>3, <1>7, <1>8, <2>1, <3>6, <3>7, CommitKept
  <2> QED
    BY <2>1, <2>2, <2>3
<1>12. CASE StoreUnit
  <2> DEFINE left == IF exec_units[at].busy # 0 THEN exec_units[at].busy - 1 ELSE 0
             unit == [exec_units[at] EXCEPT !.busy = left]
  <2>1. /\ phase = "store"
        /\ exec_units' = [exec_units EXCEPT ![at].busy = left]
        /\ UNCHANGED <<branch_target, gp_int, gp_fp, tags, rob>>
        /\ \/ /\ Retire /\ clean_str_execution' = at
              /\ data_memory' = [a \in DOMAIN data_memory |->
                      IF a = head.destination THEN head.value ELSE data_memory[a]]
           \/ UNCHANGED <<data_memory, clean_rb_idx, clean_str_execution>>
    BY <1>12 DEF StoreUnit, branch
  <2>2. at \in Units
    BY <2>1 DEF IInv, InPhase
  <2>3. left \in 0 .. latency[at] /\ latency[at] \in Nat
    BY <1>4, <2>2 DEF TypedUnit
  <2>4. TypedUnit(unit, latency[at])
    BY <1>4, <2>2, <2>3, UnitFields
  <2>5. exec_units' = [exec_units EXCEPT ![at] = unit]
    BY <2>1
  <2> HIDE DEF unit, left
  <2>6. UnitsTyped'
    BY <1>1, <1>3, <2>2, <2>4, <2>5 DEF UnitsTyped
  <2>7. FilesTyped'
    <3>1. \A a \in DOMAIN data_memory' : data_memory'[a] \in Word
      BY <1>2, <1>3, <2>1 DEF FilesTyped
    <3> QED
      BY <1>3, <2>1, <3>1 DEF FilesTyped
  <2> QED
    BY <1>1, <1>2, <1>3, <1>8, <1>9, <2>1, <2>2, <2>6, <2>7, CommitKept
<1>13. CASE CommitBranch
  <2>1. /\ exec_units' = Released /\ clean_str_execution' = UNDEFINED
        /\ \/ Retire /\ UNCHANGED branch
           \/ branch_target' = head.value /\ UNCHANGED clean_rb_idx
        /\ UNCHANGED <<gp_int, gp_fp, data_memory, tags, rob>>
    BY <1>13 DEF CommitBranch
  <2>2. branch_target' \in Word /\ clean_rb_idx' \in Slots \cup {UNDEFINED}
    BY <1>2, <1>3, <1>9, <2>1 DEF branch
  <2> QED
    BY <1>1, <1>2, <1>3, <1>5, <1>7, <1>8, <2>1, <2>2, CommitKept
<1>14. CASE CommitFp
  <2>1. /\ gp_fp' = [gp_fp EXCEPT ![head.destination - 32] = head.value]
        /\ gp_fp_tag' = ClearTag(gp_fp_tag, head.destination - 32)
        /\ Retire /\ exec_units' = Released /\ clean_str_execution' = UNDEFINED
        /\ UNCHANGED <<gp_int, data_memory, gp_int_tag, branch_target, rob>>
    BY <1>14 DEF CommitFp, branch
  <2>2. FilesTyped'
    BY <1>2, <1>3, <2>1 DEF FilesTyped
  <2>3. TagsTyped'
    BY <1>3, <2>1, Words DEF TagsTyped, ClearTag
  <2> QED
    BY <1>1, <1>2, <1>3, <1>5, <1>9, <2>1, <2>2, <2>3, CommitKept
<1>15. CASE CommitInt
  <2>1. /\ gp_int' = [gp_int EXCEPT ![head.destination] = head.value]
        /\ gp_int_tag' = ClearTag(gp_int_tag, head.destination)
        /\ Retire /\ exec_units' = Released /\ clean_str_execution' = UNDEFINED
        /\ UNCHANGED <<gp_fp, data_memory, gp_fp_tag, branch_target, rob>>
    BY <1>15 DEF CommitInt, branch
  <2>2. FilesTyped'
    BY <1>2, <1>3, <2>1 DEF FilesTyped
  <2>3. TagsTyped'
    BY <1>3, <2>1, Words DEF TagsTyped, ClearTag
  <2> QED
    BY <1>1, <1>2, <1>3, <1>5, <1>9, <2>1, <2>2, <2>3, CommitKept
<1>16. CASE Reclaim
  <2>1. /\ exec_units' = [u \in Units |-> IF Stranded(u)
                                    THEN [exec_units[u] EXCEPT !.pc = UNDEFINED]
                                    ELSE exec_units[u]]
        /\ UNCHANGED <<rob, branch_target, clean_rb_idx, clean_str_execution,
                       gp_int, gp_fp, data_memory, tags>>
    BY <1>16 DEF Reclaim, arch, branch, cleanup
  <2>2. \A u \in Units : TypedUnit([exec_units[u] EXCEPT !.pc = UNDEFINED], latency[u])
    BY <1>4, UnitFields
  <2>3. UnitsTyped'
    BY <1>1, <1>4, <2>1, <2>2 DEF UnitsTyped
  <2> QED
    BY <1>1, <1>2, <1>3, <1>7, <1>8, <2>1, <2>3, CommitKept
<1> QED
  BY <1>10, <1>11, <1>12, <1>13, <1>14, <1>15, <1>16 DEF Commit

LEMMA WriteResultTypes ==
  ASSUME WordsGiven, TypeInv, WriteResult
  PROVE  TypeInv'
<1>1. /\ UNCHANGED <<prog, latency, gp_int, gp_fp, data_memory, tags, branch_target,
                     rb_wr_idx, stations, str_bypass_value, clean_rb_idx,
                     clean_str_execution>>
      /\ rob' = [i \in Slots |-> IF Producers(i) = {} THEN rob[i] ELSE Written(i)]
      /\ exec_units' = [u \in Units |-> IF u \in Marked
                                    THEN [exec_units[u] EXCEPT !.clean = TRUE]
                                    ELSE exec_units[u]]
      /\ clear_res_stat_idx' = clear_res_stat_idx \cup Finished
      /\ phase' = "execute"
  BY DEF WriteResult, chosen, arch, branch, ring, waiting, GoTo
<1>2. rob \in [Slots -> SlotType] /\ stations \in [Stations -> StationRecord]
  BY DEF TypeInv
<1>3. ASSUME NEW i \in Slots, Producers(i) # {}
      PROVE  Written(i) \in SlotType
  <2> DEFINE j == First(Producers(i))
             v == IF At(rob[i].pc).opcode = "SWS" THEN stations[j].value1 ELSE rob[i].result
  <2>1. Producers(i) \in SUBSET Nat /\ Producers(i) \in SUBSET Stations
    BY TomasuloAssumption DEF Producers, Finished
  <2>2. j \in Stations
    BY <1>3, <2>1, FirstIn
  <2>3. v \in Word
    BY <1>2, <2>2 DEF SlotType, StationRecord
  <2>4. Written(i) = [rob[i] EXCEPT !.state = "WRITE_RESULT", !.ready = TRUE, !.value = v]
    BY DEF Written
  <2> HIDE DEF v
  <2>5. rob[i] \in SlotType
    BY <1>2
  <2>6. \A r \in SlotType : \A w \in Word :
          [r EXCEPT !.state = "WRITE_RESULT", !.ready = TRUE, !.value = w] \in SlotType
    BY DEF SlotType
  <2> QED
    BY <2>3, <2>4, <2>5, <2>6
<1>4. rob' \in [Slots -> SlotType]
  BY <1>1, <1>2, <1>3
<1>5. UnitsTyped'
  <2>1. \A u \in Units : /\ TypedUnit(exec_units[u], latency[u])
                         /\ TypedUnit([exec_units[u] EXCEPT !.clean = TRUE], latency[u])
    BY UnitFields, LatencyType DEF TypeInv, UnitsTyped
  <2> QED
    BY <1>1, <2>1 DEF UnitsTyped
<1>6. FilesTyped' /\ TagsTyped' /\ BypassTyped'
  BY <1>1 DEF TypeInv, FilesTyped, TagsTyped, BypassTyped, tags
<1>7. IndicesTyped'
  BY <1>1 DEF TypeInv, IndicesTyped, Finished
<1> QED
  BY <1>1, <1>2, <1>4, <1>5, <1>6, <1>7 DEF TypeInv

LEMMA CapturedTypes ==
  ASSUME rob' \in [Slots -> SlotType], NEW st \in StationRecord
  PROVE  Captured(st) \in StationRecord
<1> DEFINE v1 == IF st.tag1 \in Slots /\ rob'[st.tag1].ready THEN rob'[st.tag1].value
                 ELSE st.value1
           t1 == IF st.tag1 \in Slots /\ rob'[st.tag1].ready THEN UNDEFINED ELSE st.tag1
           v2 == IF st.tag2 \in Slots /\ rob'[st.tag2].ready THEN rob'[st.tag2].value
                 ELSE st.value2
           t2 == IF st.tag2 \in Slots /\ rob'[st.tag2].ready THEN UNDEFINED ELSE st.tag2
<1>1. /\ st.value1 \in Word /\ st.tag1 \in Word /\ st.value2 \in Word /\ st.tag2 \in Word
      /\ \A s \in Slots : rob'[s].value \in Word
  BY DEF StationRecord, SlotType
<1>2. v1 \in Word /\ t1 \in Word /\ v2 \in Word /\ t2 \in Word
  BY <1>1, Words, Zenon
<1>3. Captured(st) = [st EXCEPT !.value1 = v1, !.tag1 = t1, !.value2 = v2, !.tag2 = t2]
  BY DEF Captured, StationRecord
<1> HIDE DEF v1, t1, v2, t2
<1> QED
  BY <1>2, <1>3 DEF StationRecord

\* An operand is a word or waits for an entry.
LEMMA OperandWord ==
  ASSUME TypeInv, NEW file, NEW r, file[r] \in Word, NEW base, NEW pick,
         NEW o \in Operand(file, r, base, pick)
  PROVE  o.value \in Word /\ o.tag \in Word
<1>1. \A v \in Word : Known(v).value \in Word /\ Known(v).tag \in Word
  BY Words DEF Known
<1>2. \A t \in Word : Pending(t).value \in Word /\ Pending(t).tag \in Word
  BY Words DEF Pending
<1>3. \A s \in Slots : rob[s].value \in Word
  BY DEF TypeInv, SlotType
<1>4. \A s : \A p \in From(s) : p.value \in Word /\ p.tag \in Word
  <2> SUFFICES ASSUME NEW s, NEW p \in From(s)
               PROVE  p.value \in Word /\ p.tag \in Word
    OBVIOUS
  <2>1. CASE s \notin Slots
    <3>1. p \in {Known(0), Known(UNDEFINED), Pending(RobSize)}
      BY <2>1 DEF From, Garbage
    <3> QED
      BY <1>1, <1>2, <3>1, Words
  <2>2. CASE s \in Slots
    <3>1. p \in {Known(rob[s].value), Pending(s)}
      BY <2>2 DEF From
    <3> QED
      BY <1>1, <1>2, <1>3, <2>2, <3>1, Words
  <2> QED
    BY <2>1, <2>2
<1>5. o = Known(file[r]) \/ (\E s : o \in From(s))
  BY DEF Operand
<1> QED
  BY <1>1, <1>4, <1>5

\* The operands of an instruction in the program.
LEMMA OperandsAreWords ==
  ASSUME WordsGiven, TypeInv, prog \in Programs, NEW n \in DOMAIN prog,
         prog[n].opcode # "EOP", NEW o1 \in Operand1(prog[n]), NEW o2 \in Operand2(prog[n])
  PROVE  /\ o1.value \in Word /\ o1.tag \in Word
         /\ o2.value \in Word /\ o2.tag \in Word
<1> DEFINE in == prog[n]
<1>1. PICK f \in IntFiles : DOMAIN gp_int = DOMAIN f
  BY DEF TypeInv, FilesTyped
<1>2. PICK g \in FpFiles : DOMAIN gp_fp = DOMAIN g
  BY DEF TypeInv, FilesTyped
<1>3. /\ IF in.opcode \in FpAlu \cup IntMulDiv \cup {"SWS"}
         THEN in.src1 \in DOMAIN gp_fp ELSE in.src1 \in DOMAIN gp_int
      /\ in.opcode \in FpAlu \cup IntMulDiv => in.src2 \in DOMAIN gp_fp
      /\ in.opcode \in RegisterOps \cup {"SWS"} => in.src2 \in DOMAIN gp_int
  BY <1>1, <1>2 DEF WordsGiven
<1>4. /\ \A r \in DOMAIN gp_int : gp_int[r] \in Word
      /\ \A r \in DOMAIN gp_fp : gp_fp[r] \in Word
  BY DEF TypeInv, FilesTyped
<1> HIDE DEF in
<1>5. o1.value \in Word /\ o1.tag \in Word
  <2>1. CASE in.opcode \in FpAlu \cup IntMulDiv \cup {"SWS"}
    <3>1. o1 \in Operand(gp_fp, in.src1, 32, in.src1)
      BY <2>1 DEF Operand1, in
    <3> QED
      BY <1>3, <1>4, <2>1, <3>1, OperandWord
  <2>2. CASE in.opcode \notin FpAlu \cup IntMulDiv \cup {"SWS"}
    <3>1. o1 \in Operand(gp_int, in.src1, 0, in.src1)
      BY <2>2 DEF Operand1, in
    <3> QED
      BY <1>3, <1>4, <2>2, <3>1, OperandWord
  <2> QED
    BY <2>1, <2>2
<1>6. o2.value \in Word /\ o2.tag \in Word
  <2>1. CASE in.opcode \in FpAlu \cup IntMulDiv
    <3>1. o2 \in Operand(gp_fp, in.src2, 32, in.src2)
      BY <2>1 DEF Operand2, in, FpAlu, IntMulDiv, RegisterOps
    <3> QED
      BY <1>3, <1>4, <2>1, <3>1, OperandWord
  <2>2. CASE in.opcode = "SWS"
    <3>1. o2 \in Operand(gp_int, in.src2, 0, in.src1)
      BY <2>2 DEF Operand2, in, FpAlu, IntMulDiv, RegisterOps
    <3> QED
      BY <1>3, <1>4, <2>2, <3>1, OperandWord
  <2>3. CASE in.opcode \in RegisterOps
    <3>1. o2 \in Operand(gp_int, in.src2, 0, in.src2)
      BY <2>3 DEF Operand2, in, FpAlu, IntMulDiv, RegisterOps
    <3> QED
      BY <1>3, <1>4, <2>3, <3>1, OperandWord
  <2>4. CASE in.opcode \notin FpAlu \cup IntMulDiv \cup {"SWS"} \cup RegisterOps
    <3>1. o2 = Known(UNDEFINED)
      BY <2>4 DEF Operand2, in, NoOperand
    <3> QED
      BY <3>1, Words DEF Known
  <2> QED
    BY <2>1, <2>2, <2>3, <2>4
<1> QED
  BY <1>5, <1>6

LEMMA IssueKept ==
  ASSUME TypeInv, IssueKeeps, rob' \in [Slots -> SlotType],
         stations' \in [Stations -> StationRecord], TagsTyped', rb_wr_idx' \in Slots,
         phase' \in {"issue", "end"}
  PROVE  TypeInv'
<1>1. UNCHANGED <<prog, latency, gp_int, gp_fp, data_memory, branch_target, rb_rd_idx,
                  exec_units, str_bypass_value, clean_rb_idx, clear_res_stat_idx,
                  clean_str_execution>>
  BY DEF IssueKeeps, chosen, arch, branch, bypass, waiting, cleanup
<1>2. UnitsTyped' /\ FilesTyped' /\ BypassTyped'
  BY <1>1 DEF TypeInv, UnitsTyped, FilesTyped, BypassTyped
<1>3. IndicesTyped'
  BY <1>1 DEF TypeInv, IndicesTyped
<1> QED
  BY <1>2, <1>3 DEF TypeInv

LEMMA IssueTypes ==
  ASSUME WordsGiven, IInv, TypeInv, Issue \/ IssueStall
  PROVE  TypeInv'
<1>1. /\ rob \in [Slots -> SlotType] /\ stations \in [Stations -> StationRecord]
      /\ rb_wr_idx \in Slots /\ TagsTyped /\ prog \in Programs
  BY DEF TypeInv, IndicesTyped, IInv, Shaped
<1>2. IssueKeeps /\ phase' \in {"issue", "end"}
  BY DEF Issue, IssueStall, NextIssue, GoTo
<1>3. CASE IssueStall
  <2>1. /\ UNCHANGED <<tags, rob, rb_wr_idx>>
        /\ stations' = [j \in Stations |-> Captured(stations[j])]
    BY <1>3 DEF IssueStall
  <2>2. TagsTyped'
    BY <1>1, <2>1 DEF TagsTyped, tags
  <2>3. rob' \in [Slots -> SlotType] /\ rb_wr_idx' \in Slots
    BY <1>1, <2>1
  <2>4. \A j \in Stations : Captured(stations[j]) \in StationRecord
    BY <1>1, <2>3, CapturedTypes
  <2>5. stations' \in [Stations -> StationRecord]
    BY <2>1, <2>4
  <2> QED
    BY <1>2, <2>2, <2>3, <2>5, IssueKept
<1>4. CASE Issue
  <2> DEFINE in == Instr(count)
             j  == First(FreeStations(in.opcode))
             slot == [rob[rb_wr_idx] EXCEPT !.ready = FALSE, !.pc = count * 4,
                        !.state = "ISSUE", !.destination = Destination(in)]
             entry(o1, o2) == [stations[j] EXCEPT
                   !.pc = count * 4, !.destination = rb_wr_idx,
                   !.value1 = o1.value, !.tag1 = o1.tag,
                   !.value2 = o2.value, !.tag2 = o2.tag,
                   !.address = IF in.opcode \in Loads \cup {"SWS"}
                               THEN in.immediate ELSE @]
  <2>1. /\ FreeStations(in.opcode) # {}
        /\ rob' = [rob EXCEPT ![rb_wr_idx] = slot]
        /\ gp_fp_tag' = gp_fp_tag \/ gp_fp_tag' = [gp_fp_tag EXCEPT ![in.dest] = rb_wr_idx]
        /\ gp_int_tag' = gp_int_tag \/ gp_int_tag' = [gp_int_tag EXCEPT ![in.dest] = rb_wr_idx]
        /\ rb_wr_idx' = (rb_wr_idx + 1) % RobSize
    <3>1. rob' = [rob EXCEPT ![rb_wr_idx] =
                     [@ EXCEPT !.ready = FALSE, !.pc = count * 4, !.state = "ISSUE",
                               !.destination = Destination(in)]]
      BY <1>4 DEF Issue
    <3> QED
      BY <1>1, <1>4, <3>1 DEF Issue
  <2>2. PICK o1 \in Operand1(in), o2 \in Operand2(in) :
           stations' = [k \in Stations |-> Captured(IF k = j THEN entry(o1, o2) ELSE stations[k])]
    BY <1>4 DEF Issue
  <2>3. FreeStations(in.opcode) \in SUBSET Nat /\ FreeStations(in.opcode) \in SUBSET Stations
    BY TomasuloAssumption DEF FreeStations
  <2>4. j \in Stations /\ in.opcode # "EOP"
    BY <2>1, <2>3, FirstIn DEF FreeStations
  <2>5. count \in DOMAIN prog /\ in = prog[count]
    BY <2>4 DEF Instr, Eop
  <2>6. count * 4 \in Word
    <3>1. count \in Nat /\ 4 * count < UNDEFINED
      BY <1>1, <2>5, TomasuloAssumption
    <3>2. UNDEFINED = WordSize - 1 /\ WordSize \in Nat
      BY Constants DEF UNDEFINED
    <3> HIDE DEF UNDEFINED
    <3> QED
      BY <3>1, <3>2 DEF Word
  <2>7. in \in Instruction /\ in.dest \in Word /\ in.immediate \in Word
    <3>1. in \in Instruction
      BY <1>1, InstrWords
    <3> HIDE DEF in
    <3> QED
      BY <3>1 DEF Instruction
  <2>8. Destination(in) \in Word
    <3>1. CASE in.opcode \in {"SWS"} \cup Branches
      <4>1. Destination(in) = rob[rb_wr_idx].destination
        BY <3>1 DEF Destination, IsFp, Branches, FpAlu
      <4> QED
        BY <1>1, <4>1 DEF SlotType
    <3>2. CASE in.opcode \notin {"SWS"} \cup Branches /\ IsFp(in.opcode)
      <4>1. Destination(in) = in.dest + 32
        BY <3>2 DEF Destination
      <4>2. in.opcode \in FpAlu \cup {"LWS"}
        BY <3>2 DEF IsFp
      <4>3. in.dest \in 0 .. 31
        BY <1>1, <2>4, <2>5, <4>2 DEF WordsGiven
      <4> QED
        BY <4>1, <4>3, Words
    <3>3. CASE in.opcode \notin {"SWS"} \cup Branches /\ ~ IsFp(in.opcode)
      BY <2>7, <3>3 DEF Destination
    <3> QED
      BY <3>1, <3>2, <3>3
  <2>9. rob' \in [Slots -> SlotType]
    <3>1. rob[rb_wr_idx] \in SlotType
      BY <1>1
    <3>2. \A r \in SlotType : \A p, d \in Word :
            [r EXCEPT !.ready = FALSE, !.pc = p, !.state = "ISSUE", !.destination = d]
              \in SlotType
      BY DEF SlotType
    <3>3. slot \in SlotType
      BY <2>6, <2>8, <3>1, <3>2
    <3> HIDE DEF slot
    <3> QED
      BY <1>1, <2>1, <3>3
  <2>10. entry(o1, o2) \in StationRecord
    <3>1. o1.value \in Word /\ o1.tag \in Word /\ o2.value \in Word /\ o2.tag \in Word
      BY <1>1, <2>4, <2>5, OperandsAreWords
    <3>2. stations[j] \in StationRecord /\ rb_wr_idx \in Word
      BY <1>1, <2>4, Words
    <3>3. (IF in.opcode \in Loads \cup {"SWS"} THEN in.immediate ELSE stations[j].address)
            \in Word
      BY <2>7, <3>2 DEF StationRecord
    <3> DEFINE a == IF in.opcode \in Loads \cup {"SWS"} THEN in.immediate
                    ELSE stations[j].address
               e == [stations[j] EXCEPT !.pc = count * 4, !.destination = rb_wr_idx,
                       !.value1 = o1.value, !.tag1 = o1.tag,
                       !.value2 = o2.value, !.tag2 = o2.tag, !.address = a]
    <3>4. entry(o1, o2) = e
      OBVIOUS
    <3> HIDE DEF in, j, a
    <3>5. e \in StationRecord
      BY <2>6, <3>1, <3>2, <3>3 DEF StationRecord, a
    <3> QED
      BY <3>4, <3>5
  <2> HIDE DEF entry, slot
  <2>11. stations' \in [Stations -> StationRecord]
    <3>1. \A k \in Stations :
            Captured(IF k = j THEN entry(o1, o2) ELSE stations[k]) \in StationRecord
      BY <1>1, <2>9, <2>10, CapturedTypes
    <3> QED
      BY <2>2, <3>1
  <2>12. TagsTyped'
    BY <1>1, <2>1, Words DEF TagsTyped
  <2>13. rb_wr_idx' \in Slots
    BY <1>1, <2>1, Constants DEF Slots
  <2> QED
    BY <1>2, <2>9, <2>11, <2>12, <2>13, IssueKept
<1> QED
  BY <1>3, <1>4

LEMMA EndTypes ==
  ASSUME WordsGiven, IInv, TypeInv, Flush \/ EndCycle
  PROVE  TypeInv'
<1>1. EmptySlot \in SlotType /\ EmptyStation \in StationRecord
  BY Words DEF EmptySlot, EmptyStation, SlotType, StationRecord
<1>2. /\ rob \in [Slots -> SlotType] /\ stations \in [Stations -> StationRecord]
      /\ rb_wr_idx \in Slots
  BY DEF TypeInv, IndicesTyped
<1>3. /\ UNCHANGED <<latency, gp_int, gp_fp, data_memory, branch_target, str_bypass_value,
                     clean_str_execution>>
      /\ clean_rb_idx' = UNDEFINED /\ clear_res_stat_idx' = {} /\ phase' = "commit"
      /\ rb_wr_idx' = 0 \/ rb_wr_idx' = rb_wr_idx
  BY DEF Flush, EndCycle, GoTo, chosen, arch, branch, ring, bypass, waiting
<1>4. FilesTyped' /\ BypassTyped' /\ IndicesTyped'
  <2>1. 0 \in Slots
    BY Constants DEF Slots
  <2> QED
    BY <1>2, <1>3, <2>1 DEF TypeInv, FilesTyped, BypassTyped, IndicesTyped
<1>5. CASE Flush
  <2>1. /\ rob' = [i \in Slots |-> EmptySlot] /\ stations' = [j \in Stations |-> EmptyStation]
        /\ exec_units' = [u \in Units |-> [exec_units[u] EXCEPT !.pc = UNDEFINED, !.busy = 0]]
        /\ gp_int_tag' = [r \in DOMAIN gp_int_tag |-> UNDEFINED]
        /\ gp_fp_tag' = [r \in DOMAIN gp_fp_tag |-> UNDEFINED]
    BY <1>5 DEF Flush, FlushedSlots, FlushedTags
  <2>2. rob' \in [Slots -> SlotType] /\ stations' \in [Stations -> StationRecord]
    BY <1>1, <2>1
  <2>3. TagsTyped'
    BY <2>1, Words DEF TagsTyped
  <2>4. \A u \in Units : TypedUnit([exec_units[u] EXCEPT !.pc = UNDEFINED, !.busy = 0],
                                   latency[u])
    BY UnitFields, LatencyType DEF TypeInv, UnitsTyped
  <2>5. UnitsTyped'
    BY <1>3, <2>1, <2>4 DEF UnitsTyped
  <2> QED
    BY <1>4, <2>2, <2>3, <2>5 DEF TypeInv
<1>6. CASE EndCycle
  <2>1. /\ rob' = [i \in Slots |-> IF i = clean_rb_idx THEN EmptySlot ELSE rob[i]]
        /\ stations' = [j \in Stations |-> IF j \in clear_res_stat_idx
                                           THEN EmptyStation ELSE stations[j]]
        /\ UNCHANGED <<tags, exec_units>>
    BY <1>6 DEF EndCycle
  <2>2. rob' \in [Slots -> SlotType] /\ stations' \in [Stations -> StationRecord]
    BY <1>1, <1>2, <2>1
  <2>3. TagsTyped'
    BY <2>1 DEF TypeInv, TagsTyped, tags
  <2>4. UnitsTyped'
    BY <1>3, <2>1 DEF TypeInv, UnitsTyped
  <2> QED
    BY <1>4, <2>2, <2>3, <2>4 DEF TypeInv
<1> QED
  BY <1>5, <1>6

LEMMA InitTypes == WordsGiven /\ Init => TypeInv
<1> SUFFICES ASSUME WordsGiven, Init PROVE TypeInv
  OBVIOUS
<1>1. EmptySlot \in SlotType /\ EmptyStation \in StationRecord
  BY Words DEF EmptySlot, EmptyStation, SlotType, StationRecord
<1>2. rob \in [Slots -> SlotType] /\ stations \in [Stations -> StationRecord]
  BY <1>1 DEF Init
<1>3. \A u \in Units : latency[u] \in Nat
  BY DEF Init, WordsGiven
<1>4. \A m \in Nat : TypedUnit(IdleUnit, m)
  BY Words DEF TypedUnit, IdleUnit
<1>5. UnitsTyped
  BY <1>3, <1>4 DEF Init, UnitsTyped
<1>6. FilesTyped
  BY DEF Init, FilesTyped, WordsGiven, UnsignedFunctions
<1>7. TagsTyped /\ BypassTyped
  BY Words DEF Init, TagsTyped, BypassTyped
<1>8. IndicesTyped
  BY Words, Constants DEF Init, IndicesTyped, Slots
<1> QED
  BY <1>2, <1>5, <1>6, <1>7, <1>8 DEF TypeInv

LEMMA StepTypes == WordsGiven /\ IInv /\ TypeInv /\ [Next]_vars => TypeInv'
<1> SUFFICES ASSUME WordsGiven, IInv, TypeInv, [Next]_vars PROVE TypeInv'
  OBVIOUS
<1>1. CASE UNCHANGED vars
  <2>1. UNCHANGED <<latency, gp_int, gp_fp, data_memory, gp_int_tag, gp_fp_tag, branch_target,
                    rob, rb_wr_idx, stations, exec_units, str_bypass_value, clean_rb_idx,
                    clean_str_execution, clear_res_stat_idx, phase>>
    BY <1>1 DEF vars, chosen, arch, tags, branch, ring, bypass, waiting, cleanup
  <2> QED
    BY <2>1 DEF TypeInv, UnitsTyped, FilesTyped, TagsTyped, BypassTyped, IndicesTyped
<1> QED
  BY <1>1, CommitTypes, WriteResultTypes, ExecutionTypes, IssueTypes, EndTypes
     DEF Next, SkipExecution

LEMMA TypesRight == IInv /\ TypeInv => TypeOK
<1> SUFFICES ASSUME IInv, TypeInv PROVE TypeOK
  OBVIOUS
<1>1. UnsignedFunctions({gp_int, gp_fp, gp_int_tag, gp_fp_tag, data_memory,
                         str_bypass_value})
  BY DEF TypeInv, FilesTyped, TagsTyped, BypassTyped, UnsignedFunctions
<1>2. count \in Nat /\ rb_rd_idx \in Slots
  BY DEF IInv
<1>3. \A u \in Units : /\ exec_units[u].pc \in Word
                       /\ exec_units[u].busy \in 0 .. latency[u]
                       /\ exec_units[u].clean \in BOOLEAN
  BY DEF TypeInv, UnitsTyped, TypedUnit
<1> QED
  BY <1>1, <1>2, <1>3 DEF TypeOK, TypeInv, IndicesTyped

\* From words and latencies of at least one cycle, every field of the machine keeps
\* its type: no busy count passes zero, and no destination leaves the words.
THEOREM TypesCorrect ==
  MemoryUnitLast /\ WordsGiven => (Spec => []TypeOK)
<1>1. WordsGiven /\ Init => IInv /\ TypeInv
  BY InitInv, InitTypes
<1>2. (MemoryUnitLast /\ WordsGiven) /\ (IInv /\ TypeInv) /\ [Next]_vars => (IInv /\ TypeInv)'
  BY StepInv, StepTypes
<1>3. IInv /\ TypeInv => TypeOK
  BY TypesRight
<1>4. MemoryUnitLast /\ WordsGiven => [](MemoryUnitLast /\ WordsGiven)
  <2>1. MemoryUnitLast /\ WordsGiven => (MemoryUnitLast /\ WordsGiven)'
    BY DEF MemoryUnitLast, WordsGiven, UnsignedFunctions
  <2> QED
    BY <2>1, PTL
<1> QED
  BY <1>1, <1>2, <1>3, <1>4, PTL DEF Spec
=============================================================================
