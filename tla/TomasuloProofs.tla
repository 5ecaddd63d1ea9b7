--------------------------- MODULE TomasuloProofs ---------------------------
(***************************************************************************)
(* The reorder buffer of the processor of Tomasulo, for every machine and  *)
(* program: it holds consecutive instructions in program order, through    *)
(* speculation, stores that commit over several cycles and flushes.        *)
(***************************************************************************)
EXTENDS TomasuloProps, IsaProofs, FiniteSetTheorems, WellFoundedInduction, TLAPS

-----------------------------------------------------------------------------
(* The inductive invariant *)

\* What records and functions of the state are defined on.
Shaped ==
  /\ prog \in Programs
  /\ DOMAIN rob = Slots
  /\ \A i \in Slots : DOMAIN rob[i] = DOMAIN EmptySlot /\ rob[i].pc \in Nat
  /\ DOMAIN stations = Stations
  /\ \A j \in Stations : DOMAIN stations[j] = DOMAIN EmptyStation
  /\ DOMAIN exec_units = Units
  /\ \A u \in Units : DOMAIN exec_units[u] = DOMAIN IdleUnit

\* The n entries from the head on hold the n instructions before count; the one in
\* front of the head may wait to be cleared.
Ring(n) ==
  /\ n \in 0 .. RobSize
  /\ n <= count
  /\ \A i \in Slots : InFlight(i) <=> Place(i) < n \/ i = clean_rb_idx
  /\ \A i \in Slots : Place(i) < n => rob[i].pc = 4 * (count - n + Place(i))
  /\ rb_wr_idx = (rb_rd_idx + n) % RobSize
  /\ clean_rb_idx # UNDEFINED => /\ clean_rb_idx \in Slots
                                 /\ n < RobSize
                                 /\ Place(clean_rb_idx) = RobSize - 1

\* An entry or a station that holds no instruction has no result.
NothingReady ==
  /\ \A i \in Slots : ~ InFlight(i) => ~ rob[i].ready
  /\ \A j \in Stations : stations[j].pc = UNDEFINED => ~ stations[j].write_result

\* The result of a branch is an address.
BranchResults ==
  \A i \in Slots : ~ InFlight(i) \/ Op(i) \in Branches =>
                     rob[i].value \in Nat /\ rob[i].result \in Nat

\* A store takes no other unit.
StoresInMemoryUnit ==
  \A u \in Units : exec_units[u].pc # UNDEFINED /\ At(exec_units[u].pc).opcode = "SWS"
                   => UnitType[u] = "MEMORY"

\* Commit retires one instruction a cycle, and the loop over the units has a store
\* at the head.
InPhase ==
  /\ phase = "commit" => clean_rb_idx = UNDEFINED
  /\ phase = "store" => /\ at \in Units
                        /\ clean_rb_idx = UNDEFINED
                        /\ InFlight(rb_rd_idx)
                        /\ At(head.pc).opcode = "SWS"

\* From the commit of a taken branch to the flush only what the flush keeps counts.
IInv ==
  /\ Shaped
  /\ count \in Nat
  /\ rb_rd_idx \in Slots
  /\ branch_picked => /\ rb_rd_idx = 0
                      /\ branch_target \in Nat
                      /\ phase \notin {"commit", "store"}
  /\ ~ branch_picked => /\ \E n \in 0 .. RobSize : Ring(n)
                        /\ NothingReady
                        /\ BranchResults
                        /\ StoresInMemoryUnit
                        /\ InPhase

-----------------------------------------------------------------------------
(* Places in the buffer *)

\* Words are numbers, and no slot is UNDEFINED.
LEMMA Constants ==
  /\ RobSize \in Nat \ {0}
  /\ UNDEFINED \in Nat /\ UNDEFINED \notin Slots /\ Slots \subseteq Nat
  /\ WordSize \in Nat \ {0} /\ Word \subseteq Nat
<1>1. WordSize \in Nat \ {0} /\ RobSize \in Nat \ {0} /\ RobSize + 64 < UNDEFINED
  BY WordBitsAssumption, TomasuloAssumption
<1> QED
  BY <1>1 DEF UNDEFINED, Slots, Word

\* A number less than twice the size of the buffer, cut to a slot.
LEMMA Cut ==
  ASSUME NEW n \in Nat, n < 2 * RobSize
  PROVE  n % RobSize = IF n < RobSize THEN n ELSE n - RobSize
<1>1. \A m \in Nat \ {0} : \A x \in Nat :
        x < 2 * m => x % m = IF x < m THEN x ELSE x - m
  OBVIOUS
<1> QED
  BY <1>1, Constants

\* How far a slot is behind the head.
LEMMA PlaceIs ==
  ASSUME rb_rd_idx \in Slots, NEW i \in Slots
  PROVE  /\ Place(i) = IF i >= rb_rd_idx THEN i - rb_rd_idx ELSE i - rb_rd_idx + RobSize
         /\ Place(i) \in Slots
<1>1. \A M \in Nat \ {0} : \A m, f \in 0 .. M - 1 :
        (m - f) % M = IF m >= f THEN m - f ELSE m - f + M
  OBVIOUS
<1>2. Place(i) = IF i >= rb_rd_idx THEN i - rb_rd_idx ELSE i - rb_rd_idx + RobSize
  BY <1>1, Constants DEF Place, Back, Slots
<1> QED
  BY <1>2, Constants DEF Slots

\* Only the head is at place 0, and no two slots are at one place.
LEMMA PlacesDiffer ==
  ASSUME rb_rd_idx \in Slots, NEW i \in Slots, NEW k \in Slots
  PROVE  /\ Place(i) = Place(k) => i = k
         /\ Place(i) = 0 <=> i = rb_rd_idx
  BY PlaceIs, Constants DEF Slots

\* The place of the slot n places behind the head.
LEMMA SlotAt ==
  ASSUME rb_rd_idx \in Slots, NEW n \in Slots
  PROVE  /\ (rb_rd_idx + n) % RobSize \in Slots
         /\ Place((rb_rd_idx + n) % RobSize) = n
<1> DEFINE w == (rb_rd_idx + n) % RobSize
<1>1. w = IF rb_rd_idx + n < RobSize THEN rb_rd_idx + n ELSE rb_rd_idx + n - RobSize
  BY Cut, Constants DEF Slots
<1>2. w \in Slots
  BY <1>1, Constants DEF Slots
<1> HIDE DEF w
<1> QED
  BY <1>1, <1>2, PlaceIs, Constants DEF Slots, w

\* When the head moves on, each slot is one place nearer, the old head last.
LEMMA NextPlace ==
  ASSUME rb_rd_idx \in Slots, rb_rd_idx' = (rb_rd_idx + 1) % RobSize
  PROVE  /\ rb_rd_idx' \in Slots
         /\ \A i \in Slots : Place(i)' = IF i = rb_rd_idx THEN RobSize - 1
                                         ELSE Place(i) - 1
<1>1. rb_rd_idx' = IF rb_rd_idx + 1 = RobSize THEN 0 ELSE rb_rd_idx + 1
  BY Cut, Constants DEF Slots
<1>2. rb_rd_idx' \in Slots
  BY <1>1, Constants DEF Slots
<1>3. ASSUME NEW i \in Slots
      PROVE  Place(i)' = IF i >= rb_rd_idx' THEN i - rb_rd_idx'
                         ELSE i - rb_rd_idx' + RobSize
  <2>1. \A M \in Nat \ {0} : \A m, f \in 0 .. M - 1 :
          (m - f) % M = IF m >= f THEN m - f ELSE m - f + M
    OBVIOUS
  <2> QED
    BY <1>2, <2>1, Constants DEF Place, Back, Slots
<1>4. ASSUME NEW i \in Slots
      PROVE  Place(i)' = IF i = rb_rd_idx THEN RobSize - 1 ELSE Place(i) - 1
  <2> DEFINE r == rb_rd_idx
  <2>1. Place(i) = IF i >= r THEN i - r ELSE i - r + RobSize
    BY PlaceIs
  <2>2. /\ RobSize \in Nat \ {0} /\ r \in 0 .. RobSize - 1 /\ i \in 0 .. RobSize - 1
    BY Constants DEF Slots
  <2>3. Place(i)' = IF r + 1 = RobSize THEN i
                    ELSE IF i >= r + 1 THEN i - (r + 1) ELSE i - (r + 1) + RobSize
    <3>1. i >= 0 /\ i - 0 = i
      BY <2>2
    <3> QED
      BY <1>1, <1>3, <3>1
  <2> HIDE DEF r
  <2>4. IF r + 1 = RobSize THEN Place(i)' = i
        ELSE Place(i)' = IF i >= r + 1 THEN i - (r + 1) ELSE i - (r + 1) + RobSize
    BY <2>3
  <2> QED
    BY <2>1, <2>2, <2>4 DEF r
<1> QED
  BY <1>2, <1>4

-----------------------------------------------------------------------------
(* What may happen to the ring *)

\* Its steps: none, ...
LEMMA RingKept ==
  ASSUME NEW n \in 0 .. RobSize, Ring(n), UNCHANGED <<ring, count, clean_rb_idx>>,
         \A i \in Slots : rob'[i].pc = rob[i].pc
  PROVE  Ring(n)'
<1>1. rb_wr_idx' = rb_wr_idx /\ rb_rd_idx' = rb_rd_idx
  BY DEF ring
<1>2. \A i \in Slots : Place(i)' = Place(i)
  BY <1>1 DEF Place, Back
<1>3. \A i \in Slots : InFlight(i)' <=> InFlight(i)
  BY DEF InFlight
<1>4. clean_rb_idx \in Slots => Place(clean_rb_idx)' = Place(clean_rb_idx)
  BY <1>1 DEF Place, Back
<1> QED
  BY <1>1, <1>2, <1>3, <1>4 DEF Ring

\* ... the head is retired, ...
LEMMA RingRetire ==
  ASSUME NEW n \in 0 .. RobSize, Ring(n), rb_rd_idx \in Slots, count \in Nat,
         clean_rb_idx = UNDEFINED, InFlight(rb_rd_idx), Retire,
         rb_wr_idx' = rb_wr_idx, count' = count,
         \A i \in Slots : rob'[i].pc = rob[i].pc
  PROVE  /\ n - 1 \in 0 .. RobSize
         /\ rb_rd_idx' \in Slots
         /\ Ring(n - 1)'
<1>1. Place(rb_rd_idx) = 0 /\ n >= 1
  <2>1. rb_rd_idx # UNDEFINED
    BY Constants
  <2> QED
    BY <2>1, PlacesDiffer DEF Ring
<1>2. /\ rb_rd_idx' \in Slots
      /\ rb_rd_idx' = (rb_rd_idx + 1) % RobSize
      /\ clean_rb_idx' = rb_rd_idx
      /\ \A i \in Slots : Place(i)' = IF i = rb_rd_idx THEN RobSize - 1 ELSE Place(i) - 1
  BY NextPlace DEF Retire
<1>3. n - 1 \in 0 .. RobSize /\ n - 1 < RobSize /\ n - 1 <= count'
  BY <1>1, Constants DEF Ring
<1>4. ASSUME NEW i \in Slots
      PROVE  InFlight(i)' <=> Place(i)' < n - 1 \/ i = clean_rb_idx'
  <2>1. InFlight(i)' <=> InFlight(i)
    BY DEF InFlight
  <2>2. InFlight(i) <=> Place(i) < n
    BY Constants DEF Ring
  <2>3. Place(i) \in 0 .. RobSize - 1
    BY PlaceIs DEF Slots
  <2> QED
    BY <1>1, <1>2, <2>1, <2>2, <2>3, Constants
<1>5. ASSUME NEW i \in Slots, Place(i)' < n - 1
      PROVE  rob'[i].pc = 4 * (count' - (n - 1) + Place(i)')
  <2>1. Place(i) \in 0 .. RobSize - 1
    BY PlaceIs DEF Slots
  <2>2. i # rb_rd_idx
    BY <1>2, <1>5, <2>1, Constants
  <2>3. Place(i)' = Place(i) - 1 /\ Place(i) < n
    BY <1>2, <1>5, <2>1, <2>2
  <2>4. rob[i].pc = 4 * (count - n + Place(i))
    BY <2>3 DEF Ring
  <2>5. count - n + Place(i) = count' - (n - 1) + (Place(i) - 1)
    BY <2>1
  <2> QED
    BY <2>3, <2>4, <2>5
<1>6. rb_wr_idx' = (rb_rd_idx' + (n - 1)) % RobSize
  <2>1. rb_wr_idx = (rb_rd_idx + n) % RobSize
    BY DEF Ring
  <2>2. \A x \in Nat : x < 2 * RobSize =>
          x % RobSize = IF x < RobSize THEN x ELSE x - RobSize
    BY Cut
  <2>3. /\ rb_rd_idx \in Nat /\ rb_rd_idx < RobSize /\ n \in Nat /\ n <= RobSize
        /\ RobSize \in Nat \ {0}
    BY Constants DEF Slots
  <2>4. rb_rd_idx' = IF rb_rd_idx + 1 < RobSize THEN rb_rd_idx + 1 ELSE 0
    BY <1>2, <2>2, <2>3
  <2>5. CASE rb_rd_idx + 1 < RobSize
    <3>1. rb_rd_idx' + (n - 1) = rb_rd_idx + n
      BY <2>3, <2>4, <2>5
    <3> QED
      BY <2>1, <3>1
  <2>6. CASE rb_rd_idx + 1 = RobSize
    <3>1. rb_rd_idx' + (n - 1) = n - 1 /\ rb_rd_idx + n = RobSize + n - 1
      BY <2>3, <2>4, <2>6
    <3>2. (n - 1) % RobSize = n - 1 /\ (RobSize + n - 1) % RobSize = n - 1
      BY <1>1, <2>2, <2>3
    <3> QED
      BY <2>1, <3>1, <3>2
  <2> QED
    BY <2>3, <2>5, <2>6
<1>7. clean_rb_idx' # UNDEFINED => /\ clean_rb_idx' \in Slots
                                   /\ n - 1 < RobSize
                                   /\ Place(clean_rb_idx)' = RobSize - 1
  <2>1. Place(clean_rb_idx)' = (clean_rb_idx' - rb_rd_idx') % RobSize
    BY DEF Place, Back
  <2>2. Place(rb_rd_idx)' = (rb_rd_idx' - rb_rd_idx') % RobSize
    BY DEF Place, Back
  <2>3. \A i \in Slots : (i - rb_rd_idx') % RobSize
                           = IF i = rb_rd_idx THEN RobSize - 1 ELSE Place(i) - 1
    BY <1>2 DEF Place, Back
  <2>4. (rb_rd_idx - rb_rd_idx') % RobSize = RobSize - 1
    BY <2>3
  <2> QED
    BY <1>2, <1>3, <2>1, <2>4
<1> QED
  BY <1>2, <1>3, <1>4, <1>5, <1>6, <1>7 DEF Ring

\* ... an instruction is issued to the entry behind the last, ...
LEMMA RingIssue ==
  ASSUME NEW n \in 0 .. RobSize, Ring(n), rb_rd_idx \in Slots, count \in Nat,
         ~ Full, clean_rb_idx' = clean_rb_idx, rb_rd_idx' = rb_rd_idx,
         count' = count + 1, rb_wr_idx' = (rb_wr_idx + 1) % RobSize,
         4 * count < UNDEFINED,
         \A i \in Slots : rob'[i].pc = IF i = rb_wr_idx THEN count * 4 ELSE rob[i].pc
  PROVE  /\ n + 1 \in 0 .. RobSize
         /\ rb_wr_idx \in Slots /\ ~ InFlight(rb_wr_idx)
         /\ Ring(n + 1)'
<1>1. \A i \in Slots : Place(i)' = Place(i) /\ Place(i) \in 0 .. RobSize - 1
  BY PlaceIs DEF Place, Back, Slots
<1>2. n < RobSize
  <2>1. PICK k \in Slots : ~ InFlight(k)
    BY DEF Full
  <2>2. ~ (Place(k) < n)
    BY <2>1 DEF Ring
  <2> QED
    BY <1>1, <2>2, Constants
<1>3. rb_wr_idx \in Slots /\ Place(rb_wr_idx) = n
  BY <1>2, SlotAt, Constants DEF Ring, Slots
<1>4. clean_rb_idx = UNDEFINED \/ n + 1 < RobSize
  <2>1. SUFFICES ASSUME clean_rb_idx # UNDEFINED, n + 1 = RobSize PROVE FALSE
    BY <1>2, Constants
  <2>2. clean_rb_idx \in Slots /\ Place(clean_rb_idx) = n
    BY <2>1, Constants DEF Ring
  <2>3. ASSUME NEW i \in Slots
        PROVE  InFlight(i)
    <3>1. Place(i) < n \/ Place(i) = n
      BY <1>1, <2>1, Constants
    <3>2. CASE Place(i) = n
      BY <2>2, <3>2, PlacesDiffer DEF Ring
    <3> QED
      BY <3>1, <3>2 DEF Ring
  <2> QED
    BY <2>3 DEF Full
<1>5. ~ InFlight(rb_wr_idx)
  BY <1>1, <1>3, <1>4, Constants DEF Ring
<1>6. n + 1 \in 0 .. RobSize /\ n + 1 <= count'
  BY <1>2, Constants DEF Ring
<1>7. ASSUME NEW i \in Slots
      PROVE  InFlight(i)' <=> Place(i) < n + 1 \/ i = clean_rb_idx
  <2>1. CASE i = rb_wr_idx
    BY <1>3, <2>1, Constants DEF InFlight
  <2>2. CASE i # rb_wr_idx
    <3>1. InFlight(i)' <=> InFlight(i)
      BY <2>2 DEF InFlight
    <3>2. Place(i) # n
      BY <1>3, <2>2, PlacesDiffer
    <3> QED
      BY <1>1, <3>1, <3>2, Constants DEF Ring
  <2> QED
    BY <2>1, <2>2
<1>8. ASSUME NEW i \in Slots, Place(i) < n + 1
      PROVE  rob'[i].pc = 4 * (count' - (n + 1) + Place(i))
  <2>1. CASE i = rb_wr_idx
    <3>1. count' - (n + 1) + n = count
      OBVIOUS
    <3>2. rob'[i].pc = count * 4 /\ Place(i) = n
      BY <1>3, <2>1
    <3> QED
      BY <3>1, <3>2
  <2>2. CASE i # rb_wr_idx
    <3>1. Place(i) # n
      BY <1>3, <2>2, PlacesDiffer
    <3>2. Place(i) < n
      BY <1>1, <1>8, <3>1
    <3> QED
      BY <1>1, <2>2, <3>2 DEF Ring
  <2> QED
    BY <2>1, <2>2
<1>9. rb_wr_idx' = (rb_rd_idx + (n + 1)) % RobSize
  <2>1. /\ rb_rd_idx \in Nat /\ rb_rd_idx < RobSize /\ n \in Nat /\ n < RobSize
        /\ RobSize \in Nat \ {0}
    BY <1>2, Constants DEF Slots
  <2>2. \A x \in Nat : x < 2 * RobSize =>
          x % RobSize = IF x < RobSize THEN x ELSE x - RobSize
    BY Cut
  <2>3. rb_wr_idx = IF rb_rd_idx + n < RobSize THEN rb_rd_idx + n
                    ELSE rb_rd_idx + n - RobSize
    BY <2>1, <2>2 DEF Ring
  <2>4. (rb_wr_idx + 1) % RobSize = IF rb_wr_idx + 1 < RobSize THEN rb_wr_idx + 1
                                    ELSE rb_wr_idx + 1 - RobSize
    BY <2>1, <2>2, <2>3
  <2>5. (rb_rd_idx + (n + 1)) % RobSize
          = IF rb_rd_idx + (n + 1) < RobSize THEN rb_rd_idx + (n + 1)
            ELSE rb_rd_idx + (n + 1) - RobSize
    BY <2>1, <2>2
  <2>6. CASE rb_rd_idx + n < RobSize
    BY <2>1, <2>3, <2>4, <2>5, <2>6
  <2>7. CASE rb_rd_idx + n >= RobSize
    <3>1. rb_wr_idx + 1 = rb_rd_idx + n - RobSize + 1 /\ rb_wr_idx + 1 < RobSize
      BY <2>1, <2>3, <2>7
    <3>2. rb_rd_idx + (n + 1) >= RobSize
      BY <2>1, <2>7
    <3> QED
      BY <2>1, <2>4, <2>5, <3>1, <3>2
  <2> QED
    BY <2>1, <2>6, <2>7
<1>10. clean_rb_idx' # UNDEFINED => /\ clean_rb_idx' \in Slots
                                    /\ n + 1 < RobSize
                                    /\ Place(clean_rb_idx)' = RobSize - 1
  <2>1. Place(clean_rb_idx)' = Place(clean_rb_idx)
    BY DEF Place, Back
  <2> QED
    BY <1>4, <2>1 DEF Ring
<1> QED
  BY <1>1, <1>3, <1>5, <1>6, <1>7, <1>8, <1>9, <1>10 DEF Ring

\* ... the entry retired in this cycle is cleared, ...
LEMMA RingCleared ==
  ASSUME NEW n \in 0 .. RobSize, Ring(n), rb_rd_idx \in Slots, UNCHANGED <<ring, count>>,
         clean_rb_idx' = UNDEFINED,
         \A i \in Slots : rob'[i].pc = IF i = clean_rb_idx THEN UNDEFINED ELSE rob[i].pc
  PROVE  Ring(n)'
<1>1. \A i \in Slots : Place(i)' = Place(i) /\ Place(i) \in 0 .. RobSize - 1
  BY PlaceIs DEF Place, Back, Slots, ring
<1>2. \A i \in Slots : i = clean_rb_idx => Place(i) = RobSize - 1 /\ n < RobSize
  BY Constants DEF Ring
<1>3. \A i \in Slots : InFlight(i)' <=> InFlight(i) /\ i # clean_rb_idx
  BY DEF InFlight
<1>4. \A i \in Slots : Place(i) < n => i # clean_rb_idx
  BY <1>2, Constants
<1>5. \A i \in Slots : InFlight(i)' <=> Place(i)' < n \/ i = clean_rb_idx'
  BY <1>1, <1>3, <1>4, Constants DEF Ring
<1>6. \A i \in Slots : Place(i)' < n => rob'[i].pc = 4 * (count' - n + Place(i)')
  BY <1>1, <1>4 DEF Ring
<1> QED
  BY <1>5, <1>6 DEF Ring, ring

\* ... or everything in flight is dropped, and the places count from slot 0.
LEMMA FromZero ==
  /\ \A i \in Slots : Back(i, 0) \in Nat
  /\ \A r \in Nat : r = 0 => (r + 0) % RobSize = 0
<1>1. \A m \in Nat \ {0} : \A i \in 0 .. m - 1 : (i - 0) % m \in Nat
  OBVIOUS
<1>2. 0 % RobSize = 0 /\ 0 + 0 = 0
  BY Cut, Constants
<1> QED
  BY <1>1, <1>2, Constants DEF Back, Slots

-----------------------------------------------------------------------------
(* What the actions do to entries, stations and units *)

\* The loops that look for a station or a unit take the first one.
LEMMA FirstIn ==
  ASSUME NEW S \in SUBSET Nat, S # {}
  PROVE  First(S) \in S
<1>1. PICK m \in S : \A n \in S : ~ (<<n, m>> \in OpToRel(<, Nat))
  BY NatLessThanWellFounded, WFMin, Zenon
<1>2. \A n \in S : ~ (n < m)
  BY <1>1 DEF OpToRel
<1>3. \A n \in S : m <= n
  <2>1. \A a, b \in Nat : ~ (a < b) => b <= a
    OBVIOUS
  <2> QED
    BY <1>2, <2>1
<1> QED
  BY <1>3 DEF First

\* The station of an instruction holds its address.
LEMMA StationHolds ==
  ASSUME NEW i \in Slots, Holders(i) # {}
  PROVE  Station(i) \in Stations /\ stations[Station(i)].pc = rob[i].pc
<1>1. Holders(i) \in SUBSET Nat
  BY TomasuloAssumption DEF Holders
<1>2. Station(i) \in Holders(i)
  BY <1>1, FirstIn DEF Station
<1> QED
  BY <1>2 DEF Holders

\* A free unit is of the type asked for.
LEMMA FreeUnitType ==
  ASSUME NEW op, FreeUnits(op) # {}
  PROVE  First(FreeUnits(op)) \in Units
<1>1. FreeUnits(op) \in SUBSET Nat
  BY TomasuloAssumption DEF FreeUnits
<1> QED
  BY <1>1, FirstIn DEF FreeUnits

\* The immediate operands of a program are numbers.
LEMMA ImmediateType ==
  ASSUME prog \in Programs, NEW pc
  PROVE  At(pc).immediate \in Nat
<1>1. \A n \in DOMAIN prog : prog[n] \in Instruction
  BY TomasuloAssumption
<1>2. \A n : Instr(n).immediate \in Nat
  BY <1>1, Constants DEF Instr, Eop, Instruction
<1> QED
  BY <1>2 DEF At

\* A branch computes an address, whatever its operand.
LEMMA BranchAlu ==
  ASSUME NEW op \in Branches, NEW v1, NEW v2, NEW imm \in Nat, NEW pc \in Nat
  PROVE  Alu(op, v1, v2, imm, pc) \in Nat
<1>1. Alu(op, v1, v2, imm, pc) = Wrap(pc + 4 + (IF Taken(op, v1) THEN imm ELSE 0))
  BY DEF Alu, Branches
<1>2. pc + 4 + (IF Taken(op, v1) THEN imm ELSE 0) \in Nat
  OBVIOUS
<1> HIDE DEF Wrap
<1>3. \A n \in Nat : Wrap(n) \in Nat
  BY Constants DEF Wrap
<1> QED
  BY <1>1, <1>2, <1>3

\* What commits and cycles of execution leave alone in the entries: they keep the
\* instruction of each, no result becomes ready, and those of branches are addresses.
EntriesKept ==
  /\ DOMAIN rob' = Slots
  /\ \A i \in Slots : /\ DOMAIN rob'[i] = DOMAIN EmptySlot
                      /\ rob'[i].pc = rob[i].pc
                      /\ rob'[i].ready = rob[i].ready
                      /\ ~ InFlight(i) \/ Op(i) \in Branches =>
                           /\ rob'[i].value = rob[i].value
                           /\ rob'[i].result = rob[i].result \/ rob'[i].result \in Nat

\* ... and in the stations: a result is that of an instruction.
StationsKept ==
  /\ DOMAIN stations' = Stations
  /\ \A j \in Stations : /\ DOMAIN stations'[j] = DOMAIN EmptyStation
                         /\ stations'[j].pc = stations[j].pc
                         /\ stations'[j].write_result =>
                              stations[j].write_result \/ stations[j].pc # UNDEFINED

\* ... and in the units: one that takes a store is a memory unit.
UnitsKept ==
  /\ DOMAIN exec_units' = Units
  /\ \A u \in Units : /\ DOMAIN exec_units'[u] = DOMAIN IdleUnit
                      /\ \/ exec_units'[u].pc = exec_units[u].pc
                         \/ exec_units'[u].pc = UNDEFINED
                         \/ At(exec_units'[u].pc).opcode # "SWS"
                         \/ UnitType[u] = "MEMORY"

\* The entries after an update of one of them.
LEMMA EntryUpdate ==
  ASSUME Shaped, NEW i \in Slots, NEW e, rob' = [rob EXCEPT ![i] = e],
         DOMAIN e = DOMAIN EmptySlot, e.pc = rob[i].pc, e.ready = rob[i].ready,
         ~ InFlight(i) \/ Op(i) \in Branches =>
           e.value = rob[i].value /\ (e.result = rob[i].result \/ e.result \in Nat)
  PROVE  EntriesKept
  BY DEF Shaped, EntriesKept

\* The stations after an update of one that holds an instruction.
LEMMA StationUpdate ==
  ASSUME Shaped, NEW j \in Stations, NEW e, stations' = [stations EXCEPT ![j] = e],
         DOMAIN e = DOMAIN EmptyStation, e.pc = stations[j].pc, e.pc # UNDEFINED
  PROVE  StationsKept
  BY DEF Shaped, StationsKept

\* Together they keep what the invariant says of them.
LEMMA RestKept ==
  ASSUME Shaped, NothingReady, BranchResults, StoresInMemoryUnit,
         EntriesKept, StationsKept, UnitsKept, prog' = prog
  PROVE  /\ NothingReady'
         /\ BranchResults'
         /\ StoresInMemoryUnit'
<1>1. \A pc : At(pc)' = At(pc)
  BY DEF At, Instr
<1>2. \A i \in Slots : (InFlight(i)' <=> InFlight(i)) /\ Op(i)' = Op(i)
  BY <1>1 DEF InFlight, Op, EntriesKept
<1>3. NothingReady'
  BY <1>2 DEF NothingReady, EntriesKept, StationsKept
<1>4. BranchResults'
  BY <1>2 DEF BranchResults, EntriesKept
<1>5. StoresInMemoryUnit'
  <2>1. ASSUME NEW u \in Units, exec_units'[u].pc # UNDEFINED,
               At(exec_units'[u].pc).opcode = "SWS"
        PROVE  UnitType[u] = "MEMORY"
    BY <2>1 DEF UnitsKept, StoresInMemoryUnit
  <2> QED
    BY <1>1, <2>1 DEF StoresInMemoryUnit, At, Instr
<1> QED
  BY <1>3, <1>4, <1>5

\* They keep the shape of the state whatever the invariant says.
LEMMA ShapeKept ==
  ASSUME Shaped, EntriesKept, StationsKept, UnitsKept, prog' = prog
  PROVE  Shaped'
  BY DEF Shaped, EntriesKept, StationsKept, UnitsKept

\* A step that keeps them and touches neither the ring nor the branch.
LEMMA Kept ==
  ASSUME IInv, EntriesKept, StationsKept, UnitsKept, UNCHANGED <<prog, ring, count,
         clean_rb_idx, branch>>, phase' \notin {"commit", "store"}
  PROVE  IInv'
<1>1. Shaped'
  BY ShapeKept DEF IInv
<1>2. /\ rb_rd_idx' = rb_rd_idx /\ branch_picked' = branch_picked
      /\ branch_target' = branch_target
  BY DEF ring, branch
<1>3. ASSUME ~ branch_picked
      PROVE  /\ (\E n \in 0 .. RobSize : Ring(n))'
             /\ NothingReady' /\ BranchResults' /\ StoresInMemoryUnit' /\ InPhase'
  <2>1. PICK n \in 0 .. RobSize : Ring(n)
    BY <1>3 DEF IInv
  <2>2. Ring(n)'
    BY <2>1, RingKept DEF EntriesKept
  <2>3. InPhase'
    BY DEF InPhase
  <2> QED
    BY <1>3, <2>2, <2>3, RestKept DEF IInv
<1> QED
  BY <1>1, <1>2, <1>3 DEF IInv

\* A commit that retires the head.
LEMMA Retired ==
  ASSUME IInv, ~ branch_picked, clean_rb_idx = UNDEFINED, InFlight(rb_rd_idx), Retire,
         EntriesKept, StationsKept, UnitsKept,
         UNCHANGED <<prog, rb_wr_idx, count, branch>>, phase' \notin {"commit", "store"}
  PROVE  IInv'
<1>1. Shaped'
  BY ShapeKept DEF IInv
<1>2. branch_picked' = branch_picked
  BY DEF branch
<1>3. NothingReady' /\ BranchResults' /\ StoresInMemoryUnit'
  BY RestKept DEF IInv
<1>4. PICK n \in 0 .. RobSize : Ring(n)
  BY DEF IInv
<1>5. n - 1 \in 0 .. RobSize /\ rb_rd_idx' \in Slots /\ Ring(n - 1)'
  BY <1>4, RingRetire DEF IInv, EntriesKept
<1>6. InPhase'
  BY DEF InPhase
<1>7. (\E k \in 0 .. RobSize : Ring(k))'
  BY <1>5
<1> QED
  BY <1>1, <1>2, <1>3, <1>5, <1>6, <1>7 DEF IInv

-----------------------------------------------------------------------------
(* The actions *)

\* Entries, stations and units that do not change are kept.
LEMMA Unchanged ==
  ASSUME Shaped
  PROVE  /\ rob' = rob => EntriesKept
         /\ stations' = stations => StationsKept
         /\ exec_units' = exec_units => UnitsKept
  BY DEF Shaped, EntriesKept, StationsKept, UnitsKept

\* Whatever the units of an iteration, the loop over the entries goes on or ends.
LEMMA NextSlotKeeps ==
  ASSUME NEW units, NextSlot(units), phase = "execute", DOMAIN units = Units,
         \A u \in Units : /\ DOMAIN units[u] = DOMAIN IdleUnit
                          /\ \/ units[u].pc = exec_units[u].pc
                             \/ At(units[u].pc).opcode # "SWS"
  PROVE  UnitsKept /\ phase' \in {"execute", "issue"}
<1>1. CASE at + 1 \in Slots
  BY <1>1 DEF NextSlot, UnitsKept
<1>2. CASE at + 1 \notin Slots
  <2>1. /\ phase' = "issue"
        /\ exec_units' = [u \in Units |->
             IF units[u].clean THEN [units[u] EXCEPT !.pc = UNDEFINED, !.clean = FALSE]
             ELSE units[u]]
    BY <1>2 DEF NextSlot, GoTo
  <2>2. \A u \in Units : /\ DOMAIN exec_units'[u] = DOMAIN IdleUnit
                         /\ \/ exec_units'[u].pc = UNDEFINED
                            \/ exec_units'[u].pc = units[u].pc
    BY <2>1, Zenon DEF IdleUnit
  <2> QED
    BY <2>1, <2>2 DEF UnitsKept
<1> QED
  BY <1>1, <1>2

\* A cycle of work in a unit.
LEMMA WorkKeeps ==
  ASSUME IInv, NEW i \in Slots, Executing(i), NEW u \in Units, NEW busy, Work(i, u, busy),
         exec_units[u].pc = rob[i].pc \/ Op(i) # "SWS"
  PROVE  /\ EntriesKept /\ StationsKept /\ UnitsKept
         /\ phase' \in {"execute", "issue"}
<1> DEFINE j    == Station(i)
           left == IF busy # 0 THEN busy - 1 ELSE 0
           load == Op(i) \in Loads
           addr == IF load /\ left = latency[u] - 1
                   THEN Wrap(stations[j].value1 + stations[j].address)
                   ELSE stations[j].address
           alu  == Alu(Op(i), stations[j].value1, stations[j].value2,
                       At(rob[i].pc).immediate, rob[i].pc)
           out  == IF load THEN ReadMemory(addr) ELSE alu
           unit == [exec_units[u] EXCEPT !.busy = left, !.pc = rob[i].pc]
<1>1. /\ rob' = [rob EXCEPT ![i].state = "EXECUTE",
                            ![i].result = IF left = 0 THEN out ELSE @]
      /\ stations' = [stations EXCEPT ![j].address = addr,
                                      ![j].write_result = @ \/ left = 0]
      /\ NextSlot([exec_units EXCEPT ![u] = unit])
  BY DEF Work
<1>2. Shaped /\ phase = "execute" /\ InFlight(i) /\ Holders(i) # {}
  BY DEF IInv, Executing
<1>3. j \in Stations /\ stations[j].pc = rob[i].pc
  BY <1>2, StationHolds
<1>4. Op(i) \in Branches => out \in Nat
  <2>1. Op(i) \in Branches => ~ load
    BY DEF Branches, Loads
  <2>2. At(rob[i].pc).immediate \in Nat /\ rob[i].pc \in Nat
    BY <1>2, ImmediateType DEF Shaped
  <2>3. Op(i) \in Branches => alu \in Nat
    BY <2>2, BranchAlu
  <2> QED
    BY <2>1, <2>3
<1> HIDE DEF j, left, load, addr, out
<1>5. EntriesKept
  <2> DEFINE e == [rob[i] EXCEPT !.state = "EXECUTE",
                                 !.result = IF left = 0 THEN out ELSE @]
  <2>1. rob' = [rob EXCEPT ![i] = e]
    BY <1>1, <1>2 DEF Shaped
  <2>2. /\ DOMAIN e = DOMAIN EmptySlot /\ e.pc = rob[i].pc /\ e.ready = rob[i].ready
        /\ e.value = rob[i].value
        /\ e.result = rob[i].result \/ e.result = out
    BY <1>2, Zenon DEF Shaped, EmptySlot
  <2> HIDE DEF e
  <2> QED
    BY <1>2, <1>4, <2>1, <2>2, EntryUpdate
<1>6. StationsKept
  <2> DEFINE e == [stations[j] EXCEPT !.address = addr, !.write_result = @ \/ left = 0]
  <2>1. stations' = [stations EXCEPT ![j] = e]
    BY <1>1, <1>2, <1>3 DEF Shaped
  <2>2. DOMAIN e = DOMAIN EmptyStation /\ e.pc = stations[j].pc
    BY <1>2, <1>3, Zenon DEF Shaped, EmptyStation
  <2> HIDE DEF e
  <2> QED
    BY <1>2, <1>3, <2>1, <2>2, StationUpdate DEF InFlight
<1>7. UnitsKept /\ phase' \in {"execute", "issue"}
  <2> DEFINE units == [exec_units EXCEPT ![u] = unit]
  <2>1. DOMAIN unit = DOMAIN IdleUnit /\ unit.pc = rob[i].pc
    BY <1>2, Zenon DEF Shaped, IdleUnit
  <2>2. \A v \in Units : units[v] = IF v = u THEN unit ELSE exec_units[v]
    BY <1>2 DEF Shaped
  <2>3. DOMAIN units = Units
    BY <1>2 DEF Shaped
  <2> HIDE DEF unit, units
  <2>4. \A v \in Units : /\ DOMAIN units[v] = DOMAIN IdleUnit
                         /\ \/ units[v].pc = exec_units[v].pc
                            \/ At(units[v].pc).opcode # "SWS"
    BY <1>2, <2>1, <2>2 DEF Shaped, Op
  <2> QED
    BY <1>1, <1>2, <2>3, <2>4, NextSlotKeeps DEF units
<1> QED
  BY <1>5, <1>6, <1>7

\* An iteration that starts nothing.
LEMMA IdleKeeps ==
  ASSUME IInv, phase = "execute", NextSlot(exec_units)
  PROVE  UnitsKept /\ phase' \in {"execute", "issue"}
<1>1. /\ DOMAIN exec_units = Units
      /\ \A u \in Units : DOMAIN exec_units[u] = DOMAIN IdleUnit
  BY DEF IInv, Shaped
<1> QED
  BY <1>1, NextSlotKeeps

\* A load takes the value of a store.
LEMMA BypassKeeps ==
  ASSUME IInv, NEW i \in Slots, StartingLoad(i), NEW v, TakeBypass(i, v)
  PROVE  /\ EntriesKept /\ StationsKept /\ UnitsKept
         /\ phase' \in {"execute", "issue"}
<1> DEFINE j == Station(i)
           a == LoadAddress(i)
<1>1. /\ rob' = [rob EXCEPT ![i].state = "EXECUTE", ![i].result = v]
      /\ stations' = [stations EXCEPT ![j].value2 = v, ![j].write_result = TRUE,
                                      ![j].address = a]
      /\ NextSlot(exec_units)
  BY DEF TakeBypass
<1>2. /\ Shaped /\ phase = "execute" /\ InFlight(i) /\ Holders(i) # {}
      /\ Op(i) \notin Branches
  BY DEF IInv, StartingLoad, Starting, Executing, Loads, Branches
<1>3. j \in Stations /\ stations[j].pc = rob[i].pc
  BY <1>2, StationHolds
<1> HIDE DEF j, a
<1>4. EntriesKept
  <2> DEFINE e == [rob[i] EXCEPT !.state = "EXECUTE", !.result = v]
  <2>1. rob' = [rob EXCEPT ![i] = e]
    BY <1>1, <1>2 DEF Shaped
  <2>2. DOMAIN e = DOMAIN EmptySlot /\ e.pc = rob[i].pc /\ e.ready = rob[i].ready
    BY <1>2, Zenon DEF Shaped, EmptySlot
  <2> HIDE DEF e
  <2> QED
    BY <1>2, <2>1, <2>2, EntryUpdate
<1>5. StationsKept
  <2> DEFINE e == [stations[j] EXCEPT !.value2 = v, !.write_result = TRUE, !.address = a]
  <2>1. stations' = [stations EXCEPT ![j] = e]
    BY <1>1, <1>2, <1>3 DEF Shaped
  <2>2. DOMAIN e = DOMAIN EmptyStation /\ e.pc = stations[j].pc
    BY <1>2, <1>3, Zenon DEF Shaped, EmptyStation
  <2> HIDE DEF e
  <2> QED
    BY <1>2, <1>3, <2>1, <2>2, StationUpdate DEF InFlight
<1> QED
  BY <1>1, <1>2, <1>4, <1>5, IdleKeeps

\* Execution, one entry after the other.
LEMMA ExecutionInv ==
  ASSUME IInv, NEW i \in Slots, Execution(i) \/ ExecNothing(i)
  PROVE  IInv'
<1>1. /\ Shaped
      /\ UNCHANGED <<prog, ring, count, clean_rb_idx, branch>>
  BY DEF IInv, Execution, ExecNothing, ExecStore, ExecStart, ExecGoOn,
         ExecLoadAnnounced, ExecLoad, ExecLoadNoUnit, ExecKeeps, chosen, front, cleanup
<1> SUFFICES /\ EntriesKept /\ StationsKept /\ UnitsKept
             /\ phase' \in {"execute", "issue"}
  BY <1>1, Kept
<1>2. ASSUME phase = "execute", NextSlot(exec_units), UNCHANGED <<rob, stations>>
      PROVE  /\ EntriesKept /\ StationsKept /\ UnitsKept
             /\ phase' \in {"execute", "issue"}
  BY <1>1, <1>2, IdleKeeps, Unchanged
<1>3. CASE ExecNothing(i)
  BY <1>2, <1>3 DEF ExecNothing
<1>4. CASE ExecStore(i)
  <2> DEFINE j == Station(i)
             a == Wrap(stations[j].value2 + stations[j].address)
             e == [rob[i] EXCEPT !.state = "EXECUTE", !.destination = a]
             t == [stations[j] EXCEPT !.address = a, !.write_result = TRUE]
  <2>1. /\ rob' = [rob EXCEPT ![i].state = "EXECUTE", ![i].destination = a]
        /\ stations' = [stations EXCEPT ![j].address = a, ![j].write_result = TRUE]
        /\ NextSlot(exec_units)
    BY <1>4 DEF ExecStore
  <2>2. phase = "execute" /\ InFlight(i) /\ Holders(i) # {}
    BY <1>4 DEF ExecStore, Starting, Going, Executing
  <2>3. j \in Stations /\ stations[j].pc = rob[i].pc
    BY <2>2, StationHolds
  <2> HIDE DEF j, a
  <2>4. /\ rob' = [rob EXCEPT ![i] = e]
        /\ stations' = [stations EXCEPT ![j] = t]
    BY <1>1, <2>1, <2>3 DEF Shaped
  <2>5. /\ DOMAIN e = DOMAIN EmptySlot /\ e.pc = rob[i].pc /\ e.ready = rob[i].ready
        /\ e.value = rob[i].value /\ e.result = rob[i].result
    BY <1>1, Zenon DEF Shaped, EmptySlot
  <2>6. DOMAIN t = DOMAIN EmptyStation /\ t.pc = stations[j].pc
    BY <1>1, <2>3, Zenon DEF Shaped, EmptyStation
  <2> HIDE DEF e, t
  <2>7. EntriesKept
    BY <1>1, <2>4, <2>5, EntryUpdate
  <2>8. StationsKept
    BY <1>1, <2>2, <2>3, <2>4, <2>6, StationUpdate DEF InFlight
  <2> QED
    BY <2>1, <2>2, <2>7, <2>8, IdleKeeps
<1>5. CASE ExecStart(i)
  <2>1. Starting(i) /\ Executing(i) /\ phase = "execute"
    BY <1>5 DEF ExecStart, Starting, Executing
  <2>2. CASE FreeUnits(Op(i)) = {}
    BY <1>2, <1>5, <2>1, <2>2 DEF ExecStart
  <2>3. CASE FreeUnits(Op(i)) # {}
    <3>1. /\ First(FreeUnits(Op(i))) \in Units
          /\ Work(i, First(FreeUnits(Op(i))), latency[First(FreeUnits(Op(i)))])
          /\ Op(i) # "SWS"
      BY <1>5, <2>3, FreeUnitType DEF ExecStart
    <3> QED
      BY <2>1, <3>1, WorkKeeps
  <2> QED
    BY <2>2, <2>3
<1>6. CASE ExecGoOn(i)
  <2>1. PICK u \in Holding(rob[i].pc) : Work(i, u, exec_units[u].busy)
    BY <1>6 DEF ExecGoOn
  <2>2. u \in Units /\ Executing(i) /\ Op(i) # "SWS"
    BY <1>6 DEF ExecGoOn, Holding, Going
  <2> QED
    BY <2>1, <2>2, WorkKeeps
<1>7. CASE ExecLoadAnnounced(i)
  BY <1>7, BypassKeeps DEF ExecLoadAnnounced
<1>8. CASE ExecLoad(i)
  <2> DEFINE u    == First(FreeUnits(Op(i)))
             scan == Scan(i, LoadAddress(i))
  <2>1. /\ StartingLoad(i) /\ Executing(i) /\ phase = "execute"
        /\ Op(i) # "SWS" /\ u \in Units
    BY <1>8, FreeUnitType
       DEF ExecLoad, Undecided, StartingLoad, Starting, Executing, Loads
  <2>2. \/ Work(i, u, latency[u])
        \/ TakeBypass(i, scan.value)
        \/ NextSlot(exec_units) /\ UNCHANGED <<rob, stations>>
    BY <1>8 DEF ExecLoad
  <2> HIDE DEF u, scan
  <2> QED
    BY <1>2, <2>1, <2>2, WorkKeeps, BypassKeeps
<1>9. CASE ExecLoadNoUnit(i)
  <2> DEFINE scan == Scan(i, LoadAddress(i))
             own  == IF scan.verdict \in {"written", "committing"} THEN scan.value
                     ELSE str_bypass_value[Station(i)]
  <2>1. StartingLoad(i) /\ phase = "execute"
    BY <1>9 DEF ExecLoadNoUnit, Undecided, StartingLoad, Starting, Executing
  <2>2. \/ TakeBypass(i, IF scan.verdict = "ready" THEN 0 ELSE own)
        \/ TakeBypass(i, scan.value)
        \/ NextSlot(exec_units) /\ UNCHANGED <<rob, stations>>
    BY <1>9 DEF ExecLoadNoUnit
  <2> HIDE DEF scan, own
  <2> QED
    BY <1>2, <2>1, <2>2, BypassKeeps
<1> QED
  BY <1>3, <1>4, <1>5, <1>6, <1>7, <1>8, <1>9 DEF Execution

\* The units after the one of the last store was released.
LEMMA ReleasedIs ==
  ASSUME Shaped
  PROVE  /\ DOMAIN Released = Units
         /\ \A u \in Units : /\ DOMAIN Released[u] = DOMAIN IdleUnit
                             /\ \/ Released[u].pc = exec_units[u].pc
                                \/ Released[u].pc = UNDEFINED
         /\ exec_units' = Released => UnitsKept
<1>1. DOMAIN Released = Units
  BY DEF Released
<1>2. \A u \in Units : /\ DOMAIN Released[u] = DOMAIN IdleUnit
                       /\ \/ Released[u].pc = exec_units[u].pc
                          \/ Released[u].pc = UNDEFINED
  BY Zenon DEF Shaped, Released, IdleUnit
<1> QED
  BY <1>1, <1>2 DEF UnitsKept

\* Commit runs when no branch waits for its flush; an instruction that is ready is
\* in flight.
LEMMA HeadReady ==
  ASSUME IInv, phase = "commit"
  PROVE  /\ ~ branch_picked /\ clean_rb_idx = UNDEFINED /\ Shaped
         /\ NothingReady /\ rb_rd_idx \in Slots
         /\ head.ready => InFlight(rb_rd_idx)
  BY DEF IInv, InPhase, NothingReady, head

\* Commits that keep the head where it is.
LEMMA WaitInv ==
  ASSUME IInv, CommitNothing \/ CommitStoreStart \/ SkipCommit \/ Reclaim
  PROVE  IInv'
<1>1. /\ Shaped
      /\ UNCHANGED <<prog, ring, count, clean_rb_idx, branch>>
      /\ phase' \notin {"commit", "store"}
  BY DEF IInv, CommitNothing, CommitStoreStart, SkipCommit, Reclaim, GoTo, chosen,
         front, cleanup
<1> SUFFICES EntriesKept /\ StationsKept /\ UnitsKept
  BY <1>1, Kept
<1>2. CASE CommitNothing
  BY <1>1, <1>2, Unchanged, ReleasedIs DEF CommitNothing
<1>3. CASE SkipCommit
  BY <1>1, <1>3, Unchanged DEF SkipCommit
<1>4. CASE Reclaim
  <2>1. /\ exec_units' = [u \in Units |-> IF Stranded(u)
                                          THEN [exec_units[u] EXCEPT !.pc = UNDEFINED]
                                          ELSE exec_units[u]]
        /\ UNCHANGED <<rob, stations>>
    BY <1>4 DEF Reclaim
  <2>2. DOMAIN exec_units' = Units
    BY <2>1
  <2>3. \A u \in Units : /\ DOMAIN exec_units'[u] = DOMAIN IdleUnit
                         /\ \/ exec_units'[u].pc = exec_units[u].pc
                            \/ exec_units'[u].pc = UNDEFINED
    BY <1>1, <2>1, Zenon DEF Shaped, IdleUnit
  <2> QED
    BY <1>1, <2>1, <2>2, <2>3, Unchanged DEF UnitsKept
<1>5. CASE CommitStoreStart
  <2> DEFINE free == {u \in Units : /\ UnitType[u] = "MEMORY"
                                    /\ Released[u].busy = 0
                                    /\ Released[u].pc = UNDEFINED}
             unit == [Released[First(free)] EXCEPT !.busy = latency[First(free)] - 1,
                                                   !.pc = head.pc]
  <2>1. UNCHANGED stations /\ rb_rd_idx \in Slots
    BY <1>5 DEF CommitStoreStart, IInv
  <2>2. CASE free = {}
    <3>1. exec_units' = Released /\ UNCHANGED rob
      BY <1>5, <2>2 DEF CommitStoreStart
    <3> QED
      BY <1>1, <2>1, <3>1, Unchanged, ReleasedIs
  <2>3. CASE free # {}
    <3>1. /\ exec_units' = [Released EXCEPT ![First(free)] = unit]
          /\ rob' = [rob EXCEPT ![rb_rd_idx].state = "COMMIT"]
      BY <1>5, <2>3 DEF CommitStoreStart
    <3>2. First(free) \in Units /\ UnitType[First(free)] = "MEMORY"
      <4>1. free \in SUBSET Nat
        BY TomasuloAssumption
      <4>2. First(free) \in free
        BY <2>3, <4>1, FirstIn
      <4> QED
        BY <4>2
    <3> HIDE DEF free
    <3>3. DOMAIN unit = DOMAIN IdleUnit
      BY <1>1, <3>2, ReleasedIs, Zenon DEF IdleUnit
    <3> HIDE DEF unit
    <3>4. UnitsKept
      <4>1. DOMAIN exec_units' = Units
        BY <1>1, <3>1, ReleasedIs
      <4>2. \A u \in Units : exec_units'[u] = IF u = First(free) THEN unit
                                              ELSE Released[u]
        BY <1>1, <3>1, ReleasedIs
      <4> QED
        BY <1>1, <3>2, <3>3, <4>1, <4>2, ReleasedIs DEF UnitsKept
    <3>5. EntriesKept
      <4> DEFINE e == [rob[rb_rd_idx] EXCEPT !.state = "COMMIT"]
      <4>1. rob' = [rob EXCEPT ![rb_rd_idx] = e]
        BY <1>1, <2>1, <3>1 DEF Shaped
      <4>2. /\ DOMAIN e = DOMAIN EmptySlot /\ e.pc = rob[rb_rd_idx].pc
            /\ e.ready = rob[rb_rd_idx].ready /\ e.value = rob[rb_rd_idx].value
            /\ e.result = rob[rb_rd_idx].result
        BY <1>1, <2>1, Zenon DEF Shaped, EmptySlot
      <4> HIDE DEF e
      <4> QED
        BY <1>1, <2>1, <4>1, <4>2, EntryUpdate
    <3> QED
      BY <1>1, <2>1, <3>4, <3>5, Unchanged
  <2> QED
    BY <2>2, <2>3
<1> QED
  BY <1>2, <1>3, <1>4, <1>5

\* A result is committed to a register, ...
LEMMA RegisterInv ==
  ASSUME IInv, CommitFp \/ CommitInt
  PROVE  IInv'
<1>1. /\ Retire /\ head.ready /\ phase = "commit"
      /\ exec_units' = Released
      /\ UNCHANGED <<prog, rb_wr_idx, count, branch, rob, stations>>
      /\ phase' = "reclaim"
  BY DEF CommitFp, CommitInt, Committing, GoTo, chosen, front
<1> QED
  BY <1>1, HeadReady, Retired, Unchanged, ReleasedIs

\* ... a branch falls through or will flush the machine, ...
LEMMA BranchInv ==
  ASSUME IInv, CommitBranch
  PROVE  IInv'
<1>1. /\ head.ready /\ phase = "commit" /\ At(head.pc).opcode \in Branches
      /\ exec_units' = Released
      /\ UNCHANGED <<prog, rb_wr_idx, count, rob, stations>>
      /\ phase' = "reclaim"
  BY DEF CommitBranch, Committing, GoTo, chosen, front
<1>2. EntriesKept /\ StationsKept /\ UnitsKept
  BY <1>1, HeadReady, Unchanged, ReleasedIs
<1>3. CASE head.value = head.pc + 4
  <2>1. Retire /\ UNCHANGED branch
    BY <1>3 DEF CommitBranch
  <2> QED
    BY <1>1, <1>2, <2>1, HeadReady, Retired
<1>4. CASE head.value # head.pc + 4
  <2>1. branch_picked' = TRUE /\ branch_target' = head.value /\ rb_rd_idx' = 0
    BY <1>4 DEF CommitBranch
  <2>2. head.value \in Nat
    BY <1>1, HeadReady DEF IInv, BranchResults, Op, head
  <2>3. 0 \in Slots
    BY Constants DEF Slots
  <2>4. Shaped'
    BY <1>1, <1>2, HeadReady, ShapeKept
  <2> QED
    BY <1>1, <2>1, <2>2, <2>3, <2>4 DEF IInv
<1> QED
  BY <1>3, <1>4

\* ... and a store goes on in its unit.
LEMMA StoreContinueInv ==
  ASSUME IInv, CommitStoreContinue
  PROVE  IInv'
<1>1. /\ head.ready /\ phase = "commit" /\ At(head.pc).opcode = "SWS"
      /\ exec_units' = Released
      /\ UNCHANGED <<prog, ring, count, clean_rb_idx, branch, rob, stations>>
      /\ phase' = "store" /\ at' = 0
  BY DEF CommitStoreContinue, Committing, GoTo, chosen, front, cleanup
<1>2. /\ rb_rd_idx' = rb_rd_idx /\ branch_picked' = branch_picked
      /\ branch_target' = branch_target
  BY <1>1 DEF ring, branch
<1>3. EntriesKept /\ StationsKept /\ UnitsKept
  BY <1>1, HeadReady, Unchanged, ReleasedIs
<1>4. Shaped'
  BY <1>1, <1>3, HeadReady, ShapeKept
<1>5. NothingReady' /\ BranchResults' /\ StoresInMemoryUnit'
  BY <1>1, <1>3, HeadReady, RestKept DEF IInv
<1>6. PICK n \in 0 .. RobSize : Ring(n)
  BY <1>1, HeadReady DEF IInv
<1>7. Ring(n)'
  BY <1>1, <1>6, RingKept
<1>8. InPhase'
  <2>1. 0 \in Units
    BY TomasuloAssumption
  <2>2. head' = head /\ At(head.pc)' = At(head.pc)
    BY <1>1, <1>2 DEF head, At, Instr
  <2>3. InFlight(rb_rd_idx)' /\ clean_rb_idx' = UNDEFINED
    BY <1>1, <1>2, HeadReady DEF InFlight
  <2> QED
    BY <1>1, <2>1, <2>2, <2>3 DEF InPhase
<1> QED
  BY <1>1, <1>2, <1>4, <1>5, <1>7, <1>8, HeadReady DEF IInv

\* The loop over the units looks for that of the store.
LEMMA StoreUnitOtherInv ==
  ASSUME IInv, StoreUnitOther
  PROVE  IInv'
<1>1. /\ phase = "store" /\ AfterUnit(at)
      /\ UNCHANGED <<prog, ring, count, clean_rb_idx, branch, rob, stations, exec_units>>
  BY DEF StoreUnitOther, chosen, front, cleanup
<1>2. EntriesKept /\ StationsKept /\ UnitsKept
  BY <1>1, Unchanged DEF IInv
<1>3. CASE at + 1 \in Units
  <2>1. at' = at + 1 /\ phase' = "store"
    BY <1>1, <1>3 DEF AfterUnit
  <2>2. /\ rb_rd_idx' = rb_rd_idx /\ branch_picked' = branch_picked
        /\ branch_target' = branch_target
    BY <1>1 DEF ring, branch
  <2>3. ~ branch_picked
    BY <1>1 DEF IInv
  <2>4. PICK n \in 0 .. RobSize : Ring(n)
    BY <2>3 DEF IInv
  <2>5. Ring(n)'
    BY <1>1, <2>4, RingKept
  <2>6. Shaped' /\ NothingReady' /\ BranchResults' /\ StoresInMemoryUnit'
    BY <1>1, <1>2, <2>3, ShapeKept, RestKept DEF IInv
  <2>7. InPhase'
    <3>1. head' = head /\ At(head.pc)' = At(head.pc)
      BY <1>1, <2>2 DEF head, At, Instr
    <3> QED
      BY <1>1, <1>3, <2>1, <2>2, <2>3, <3>1 DEF InPhase, InFlight, IInv
  <2> QED
    BY <1>1, <2>1, <2>2, <2>3, <2>5, <2>6, <2>7 DEF IInv
<1>4. CASE at + 1 \notin Units
  BY <1>1, <1>2, <1>4, Kept DEF AfterUnit, GoTo
<1> QED
  BY <1>3, <1>4

\* In its unit the store counts down, or writes memory and retires.
LEMMA StoreUnitInv ==
  ASSUME IInv, StoreUnit, MemoryUnitLast
  PROVE  IInv'
<1> DEFINE left == IF exec_units[at].busy # 0 THEN exec_units[at].busy - 1 ELSE 0
<1>1. /\ phase = "store" /\ AfterUnit(at) /\ exec_units[at].pc = head.pc
      /\ exec_units' = [exec_units EXCEPT ![at].busy = left]
      /\ UNCHANGED <<prog, rb_wr_idx, count, branch, rob, stations>>
      /\ IF left = 0 THEN Retire ELSE UNCHANGED <<clean_rb_idx, rb_rd_idx>>
  BY DEF StoreUnit, chosen, front
<1>2. /\ Shaped /\ ~ branch_picked /\ clean_rb_idx = UNDEFINED
      /\ InFlight(rb_rd_idx) /\ At(head.pc).opcode = "SWS" /\ at \in Units
  BY <1>1 DEF IInv, InPhase
<1> HIDE DEF left
<1>3. phase' = "reclaim"
  <2>1. UnitType[at] = "MEMORY"
    BY <1>1, <1>2 DEF IInv, StoresInMemoryUnit, InFlight, head
  <2> QED
    BY <1>1, <1>2, <2>1 DEF MemoryUnitLast, AfterUnit, GoTo
<1>4. EntriesKept /\ StationsKept
  BY <1>1, <1>2, Unchanged
<1>5. UnitsKept
  <2>1. DOMAIN exec_units' = Units
    BY <1>1, <1>2 DEF Shaped
  <2>2. \A u \in Units : /\ DOMAIN exec_units'[u] = DOMAIN IdleUnit
                         /\ exec_units'[u].pc = exec_units[u].pc
    BY <1>1, <1>2, Zenon DEF Shaped, IdleUnit
  <2> QED
    BY <2>1, <2>2 DEF UnitsKept
<1>6. CASE left = 0
  BY <1>1, <1>2, <1>3, <1>4, <1>5, <1>6, Retired
<1>7. CASE left # 0
  <2>1. UNCHANGED <<prog, ring, count, clean_rb_idx, branch>>
    BY <1>1, <1>7 DEF ring
  <2> QED
    BY <1>3, <1>4, <1>5, <2>1, Kept
<1> QED
  BY <1>6, <1>7

\* Results reach the entries: that of a branch is an address.
LEMMA WriteResultInv ==
  ASSUME IInv, WriteResult
  PROVE  IInv'
<1>1. /\ rob' = [i \in Slots |-> IF Producers(i) = {} THEN rob[i] ELSE Written(i)]
      /\ exec_units' = [u \in Units |-> IF u \in Marked
                                        THEN [exec_units[u] EXCEPT !.clean = TRUE]
                                        ELSE exec_units[u]]
      /\ UNCHANGED <<prog, ring, count, clean_rb_idx, branch, stations>>
      /\ phase' = "execute"
  BY DEF WriteResult, GoTo, chosen, front
<1>2. Shaped
  BY DEF IInv
<1>3. UnitsKept
  <2>1. DOMAIN exec_units' = Units
    BY <1>1
  <2>2. \A u \in Units : /\ DOMAIN exec_units'[u] = DOMAIN IdleUnit
                         /\ exec_units'[u].pc = exec_units[u].pc
    BY <1>1, <1>2, Zenon DEF Shaped, IdleUnit
  <2> QED
    BY <2>1, <2>2 DEF UnitsKept
<1>4. StationsKept
  BY <1>1, <1>2, Unchanged
<1>5. DOMAIN rob' = Slots
  BY <1>1
<1>6. ASSUME NEW i \in Slots
      PROVE  /\ DOMAIN rob'[i] = DOMAIN EmptySlot
             /\ rob'[i].pc = rob[i].pc
             /\ rob'[i].result = rob[i].result
             /\ \/ rob'[i].value = rob[i].value
                \/ At(rob[i].pc).opcode = "SWS"
                \/ rob'[i].value = rob[i].result
             /\ Producers(i) = {} => rob'[i] = rob[i]
  <2>1. CASE Producers(i) = {}
    BY <1>1, <1>2, <2>1 DEF Shaped
  <2>2. CASE Producers(i) # {}
    <3> DEFINE v == IF At(rob[i].pc).opcode = "SWS"
                    THEN stations[First(Producers(i))].value1 ELSE rob[i].result
    <3>1. rob'[i] = [rob[i] EXCEPT !.state = "WRITE_RESULT", !.ready = TRUE, !.value = v]
      BY <1>1, <2>2 DEF Written
    <3>2. v = rob[i].result \/ At(rob[i].pc).opcode = "SWS"
      OBVIOUS
    <3> HIDE DEF v
    <3>3. /\ DOMAIN rob'[i] = DOMAIN EmptySlot
          /\ rob'[i].pc = rob[i].pc /\ rob'[i].result = rob[i].result
          /\ rob'[i].value = v
      BY <1>2, <3>1, Zenon DEF Shaped, EmptySlot
    <3> QED
      BY <2>2, <3>2, <3>3
  <2> QED
    BY <2>1, <2>2
<1>7. Shaped'
  BY <1>1, <1>2, <1>3, <1>4, <1>5, <1>6 DEF Shaped, StationsKept, UnitsKept
<1>8. /\ rb_rd_idx' = rb_rd_idx /\ branch_picked' = branch_picked
      /\ branch_target' = branch_target
  BY <1>1 DEF ring, branch
<1>9. ASSUME ~ branch_picked
      PROVE  /\ (\E n \in 0 .. RobSize : Ring(n))'
             /\ NothingReady' /\ BranchResults' /\ StoresInMemoryUnit' /\ InPhase'
  <2>1. PICK n \in 0 .. RobSize : Ring(n)
    BY <1>9 DEF IInv
  <2>2. Ring(n)'
    BY <1>1, <1>6, <2>1, RingKept
  <2>3. \A pc : At(pc)' = At(pc)
    BY <1>1 DEF At, Instr
  <2>4. \A i \in Slots : (InFlight(i)' <=> InFlight(i)) /\ Op(i)' = Op(i)
    BY <1>6, <2>3 DEF InFlight, Op
  <2>5. \A i \in Slots : ~ InFlight(i) => Producers(i) = {}
    BY <1>9 DEF IInv, NothingReady, Producers, Finished, InFlight
  <2>6. NothingReady'
    BY <1>1, <1>6, <1>9, <2>4, <2>5 DEF IInv, NothingReady
  <2>7. BranchResults'
    <3>1. "SWS" \notin Branches
      BY DEF Branches
    <3>2. ASSUME NEW i \in Slots, ~ InFlight(i) \/ Op(i) \in Branches
          PROVE  rob'[i].value \in Nat /\ rob'[i].result \in Nat
      BY <1>6, <1>9, <2>5, <3>1, <3>2 DEF IInv, BranchResults, Op
    <3> QED
      BY <2>4, <3>2 DEF BranchResults
  <2>8. StoresInMemoryUnit'
    <3>1. ASSUME NEW u \in Units, exec_units'[u].pc # UNDEFINED,
                 At(exec_units'[u].pc).opcode = "SWS"
          PROVE  UnitType[u] = "MEMORY"
      <4>1. exec_units'[u].pc = exec_units[u].pc
        BY <1>1, <1>2, Zenon DEF Shaped, IdleUnit
      <4> QED
        BY <1>9, <3>1, <4>1 DEF IInv, StoresInMemoryUnit
    <3> QED
      BY <2>3, <3>1 DEF StoresInMemoryUnit, At, Instr
  <2> QED
    BY <1>1, <2>2, <2>6, <2>7, <2>8 DEF InPhase
<1> QED
  BY <1>1, <1>7, <1>8, <1>9 DEF IInv

\* Operands are captured in a station without changing what it holds.
LEMMA CapturedKeeps ==
  ASSUME NEW st, DOMAIN st = DOMAIN EmptyStation
  PROVE  /\ DOMAIN Captured(st) = DOMAIN EmptyStation
         /\ Captured(st).pc = st.pc
         /\ Captured(st).write_result = st.write_result
  BY Zenon DEF Captured, EmptyStation

\* Nothing is issued.
LEMMA IssueStallInv ==
  ASSUME IInv, IssueStall
  PROVE  IInv'
<1>1. /\ Shaped
      /\ stations' = [j \in Stations |-> Captured(stations[j])]
      /\ UNCHANGED <<prog, ring, count, clean_rb_idx, branch, rob, exec_units>>
      /\ phase' \in {"issue", "end"}
  BY DEF IInv, IssueStall, IssueKeeps, NextIssue, GoTo, chosen, ring, cleanup
<1>2. StationsKept
  BY <1>1, CapturedKeeps DEF Shaped, StationsKept
<1> QED
  BY <1>1, <1>2, Unchanged, Kept

\* An instruction is issued to the entry behind the last.
LEMMA IssueInv ==
  ASSUME IInv, Issue
  PROVE  IInv'
<1> DEFINE in    == Instr(count)
           j     == First(FreeStations(in.opcode))
           slot  == [rob[rb_wr_idx] EXCEPT !.ready = FALSE, !.pc = count * 4,
                       !.state = "ISSUE", !.destination = Destination(in)]
           entry(o1, o2) ==
             [stations[j] EXCEPT
                !.pc = count * 4, !.destination = rb_wr_idx,
                !.value1 = o1.value, !.tag1 = o1.tag,
                !.value2 = o2.value, !.tag2 = o2.tag,
                !.address = IF in.opcode \in Loads \cup {"SWS"}
                            THEN in.immediate ELSE @]
<1>1. /\ FreeStations(in.opcode) # {} /\ ~ Full
      /\ count' = count + 1 /\ rb_wr_idx' = (rb_wr_idx + 1) % RobSize
      /\ rb_rd_idx' = rb_rd_idx /\ clean_rb_idx' = clean_rb_idx
      /\ UNCHANGED <<prog, branch, exec_units>>
      /\ phase' \in {"issue", "end"}
      /\ rob' = [rob EXCEPT ![rb_wr_idx] = slot]
  BY DEF Issue, IssueKeeps, NextIssue, GoTo, chosen, cleanup
<1>2. PICK o1 \in Operand1(in), o2 \in Operand2(in) :
        stations' = [k \in Stations |-> Captured(IF k = j THEN entry(o1, o2)
                                                 ELSE stations[k])]
  BY DEF Issue
<1>3. Shaped /\ count \in Nat /\ rb_rd_idx \in Slots
  BY DEF IInv
<1>4. j \in Stations
  <2>1. FreeStations(in.opcode) \in SUBSET Nat
    BY TomasuloAssumption DEF FreeStations
  <2> QED
    BY <1>1, <2>1, FirstIn DEF FreeStations
<1>5. 4 * count < UNDEFINED /\ count * 4 \in Nat /\ count * 4 # UNDEFINED
  <2>1. in.opcode # "EOP"
    BY <1>1 DEF FreeStations
  <2>2. count \in DOMAIN prog
    BY <2>1 DEF Instr, Eop
  <2>3. 4 * count < UNDEFINED
    BY <1>3, <2>2, TomasuloAssumption DEF Shaped
  <2> QED
    BY <1>3, <2>3, Constants
<1> HIDE DEF in, j
<1>6. /\ DOMAIN rob' = Slots
      /\ \A i \in Slots : /\ DOMAIN rob'[i] = DOMAIN EmptySlot
                          /\ rob'[i].pc = IF i = rb_wr_idx THEN count * 4 ELSE rob[i].pc
                          /\ rob'[i].value = rob[i].value
                          /\ rob'[i].result = rob[i].result
                          /\ i # rb_wr_idx => rob'[i].ready = rob[i].ready
  <2>1. rb_wr_idx \in Slots => /\ DOMAIN slot = DOMAIN EmptySlot
                               /\ slot.pc = count * 4
                               /\ slot.value = rob[rb_wr_idx].value
                               /\ slot.result = rob[rb_wr_idx].result
    BY <1>3, Zenon DEF Shaped, EmptySlot
  <2>2. \A i \in Slots : rob'[i] = IF i = rb_wr_idx THEN slot ELSE rob[i]
    BY <1>1, <1>3 DEF Shaped
  <2>3. DOMAIN rob' = Slots
    BY <1>1, <1>3 DEF Shaped
  <2> HIDE DEF slot
  <2> QED
    BY <1>3, <2>1, <2>2, <2>3 DEF Shaped
<1>7. /\ DOMAIN stations' = Stations
      /\ \A k \in Stations : /\ DOMAIN stations'[k] = DOMAIN EmptyStation
                             /\ stations'[k].pc = IF k = j THEN count * 4
                                                  ELSE stations[k].pc
                             /\ k # j => stations'[k].write_result
                                           = stations[k].write_result
  <2> DEFINE e == entry(o1, o2)
  <2>1. DOMAIN e = DOMAIN EmptyStation /\ e.pc = count * 4
    BY <1>3, <1>4, Zenon DEF Shaped, EmptyStation
  <2> HIDE DEF entry
  <2>2. \A k \in Stations : stations'[k] = Captured(IF k = j THEN e ELSE stations[k])
    BY <1>2
  <2>3. DOMAIN stations' = Stations
    BY <1>2
  <2> HIDE DEF e
  <2>4. ASSUME NEW k \in Stations
        PROVE  /\ DOMAIN stations'[k] = DOMAIN EmptyStation
               /\ stations'[k].pc = IF k = j THEN count * 4 ELSE stations[k].pc
               /\ k # j => stations'[k].write_result = stations[k].write_result
    <3>1. CASE k = j
      <4>1. stations'[k] = Captured(e)
        BY <2>2, <3>1
      <4> QED
        BY <2>1, <3>1, <4>1, CapturedKeeps
    <3>2. CASE k # j
      <4>1. stations'[k] = Captured(stations[k])
        BY <2>2, <3>2
      <4>2. DOMAIN stations[k] = DOMAIN EmptyStation
        BY <1>3 DEF Shaped
      <4> QED
        BY <3>2, <4>1, <4>2, CapturedKeeps
    <3> QED
      BY <3>1, <3>2
  <2> QED
    BY <2>3, <2>4
<1>8. Shaped'
  <2>1. \A i \in Slots : rob'[i].pc \in Nat
    BY <1>3, <1>5, <1>6 DEF Shaped
  <2> QED
    BY <1>1, <1>3, <1>6, <1>7, <2>1 DEF Shaped
<1>9. count' \in Nat /\ branch_picked' = branch_picked /\ branch_target' = branch_target
  BY <1>1, <1>3 DEF branch
<1>10. ASSUME ~ branch_picked
       PROVE  /\ (\E n \in 0 .. RobSize : Ring(n))'
              /\ NothingReady' /\ BranchResults' /\ StoresInMemoryUnit' /\ InPhase'
  <2>1. PICK n \in 0 .. RobSize : Ring(n)
    BY <1>10 DEF IInv
  <2>2. n + 1 \in 0 .. RobSize /\ rb_wr_idx \in Slots /\ ~ InFlight(rb_wr_idx)
        /\ Ring(n + 1)'
    BY <1>1, <1>3, <1>5, <1>6, <2>1, RingIssue
  <2>3. (\E k \in 0 .. RobSize : Ring(k))'
    BY <2>2
  <2>4. \A pc : At(pc)' = At(pc)
    BY <1>1 DEF At, Instr
  <2>5. \A i \in Slots : i # rb_wr_idx => (InFlight(i)' <=> InFlight(i)) /\ Op(i)' = Op(i)
    BY <1>6, <2>4 DEF InFlight, Op
  <2>6. \A i \in Slots : i = rb_wr_idx => InFlight(i)'
    BY <1>5, <1>6, <2>2 DEF InFlight
  <2>7. NothingReady'
    <3>1. ASSUME NEW i \in Slots, ~ InFlight(i)'
          PROVE  ~ rob'[i].ready
      BY <1>6, <1>10, <2>5, <2>6, <3>1 DEF IInv, NothingReady
    <3>2. \A k \in Stations : stations'[k].pc = UNDEFINED => ~ stations'[k].write_result
      BY <1>5, <1>7, <1>10 DEF IInv, NothingReady
    <3> QED
      BY <3>1, <3>2 DEF NothingReady
  <2>8. BranchResults'
    <3>1. ASSUME NEW i \in Slots, ~ InFlight(i)' \/ Op(i)' \in Branches
          PROVE  rob'[i].value \in Nat /\ rob'[i].result \in Nat
      <4>1. CASE i = rb_wr_idx
        BY <1>6, <1>10, <2>2, <4>1 DEF IInv, BranchResults
      <4>2. CASE i # rb_wr_idx
        BY <1>6, <1>10, <2>5, <3>1, <4>2 DEF IInv, BranchResults
      <4> QED
        BY <4>1, <4>2
    <3> QED
      BY <3>1 DEF BranchResults
  <2>9. StoresInMemoryUnit'
    BY <1>1, <1>10, <2>4 DEF IInv, StoresInMemoryUnit, At, Instr
  <2>10. InPhase'
    BY <1>1 DEF InPhase
  <2> QED
    BY <2>3, <2>7, <2>8, <2>9, <2>10
<1> QED
  BY <1>1, <1>3, <1>8, <1>9, <1>10 DEF IInv

\* The flush empties the machine, ...
LEMMA FlushInv ==
  ASSUME IInv, Flush
  PROVE  IInv'
<1>1. /\ count' = branch_target \div 4 /\ rb_wr_idx' = 0 /\ rb_rd_idx' = 0
      /\ branch_picked' = FALSE /\ clean_rb_idx' = UNDEFINED
      /\ rob' = [i \in Slots |-> EmptySlot]
      /\ stations' = [j \in Stations |-> EmptyStation]
      /\ exec_units' = [u \in Units |->
                          [exec_units[u] EXCEPT !.pc = UNDEFINED, !.busy = 0]]
      /\ prog' = prog /\ phase' = "commit"
  BY DEF IInv, Flush, FlushedSlots, GoTo, chosen
<1>2. count' \in Nat
  <2>1. branch_target \in Nat
    BY DEF IInv, Flush
  <2>2. \A n \in Nat : n \div 4 \in Nat
    OBVIOUS
  <2> QED
    BY <1>1, <2>1, <2>2
<1>3. 0 \in Slots /\ 0 \in 0 .. RobSize /\ UNDEFINED \in Nat
  BY Constants DEF Slots
<1>4. \A u \in Units : /\ DOMAIN exec_units'[u] = DOMAIN IdleUnit
                       /\ exec_units'[u].pc = UNDEFINED
  BY <1>1, Zenon DEF IInv, Shaped, IdleUnit
<1>5. /\ EmptySlot.pc = UNDEFINED /\ ~ EmptySlot.ready
      /\ EmptySlot.value = UNDEFINED /\ EmptySlot.result = UNDEFINED
      /\ ~ EmptyStation.write_result
  BY DEF EmptySlot, EmptyStation
<1>6. \A i \in Slots : rob'[i] = EmptySlot
  BY <1>1
<1>7. Shaped'
  BY <1>1, <1>3, <1>4, <1>5 DEF IInv, Shaped
<1>8. Ring(0)'
  <2>1. \A i \in Slots : Place(i)' = Back(i, 0)
    BY <1>1 DEF Place, Back
  <2>2. \A i \in Slots : ~ InFlight(i)' /\ i # clean_rb_idx'
    BY <1>1, <1>5, <1>6, Constants DEF InFlight
  <2>3. \A i \in Slots : ~ (Place(i)' < 0)
    <3>1. \A n \in Nat : ~ (n < 0)
      OBVIOUS
    <3> QED
      BY <2>1, <3>1, FromZero
  <2>4. rb_wr_idx' = (rb_rd_idx' + 0) % RobSize /\ 0 <= count'
    <3>1. rb_wr_idx' = 0 /\ rb_rd_idx' = 0
      BY <1>1
    <3>2. (rb_rd_idx' + 0) % RobSize = 0
      BY <3>1, FromZero
    <3>3. 0 <= count'
      BY <1>2
    <3> QED
      BY <3>1, <3>2, <3>3
  <2> QED
    BY <1>1, <1>3, <2>2, <2>3, <2>4 DEF Ring
<1>9. NothingReady'
  BY <1>1, <1>5 DEF NothingReady
<1>10. BranchResults'
  BY <1>3, <1>5, <1>6 DEF BranchResults
<1>11. StoresInMemoryUnit'
  BY <1>4 DEF StoresInMemoryUnit
<1>12. InPhase'
  BY <1>1 DEF InPhase
<1>13. (\E n \in 0 .. RobSize : Ring(n))'
  BY <1>3, <1>8
<1> QED
  BY <1>1, <1>2, <1>3, <1>7, <1>9, <1>10, <1>11, <1>12, <1>13 DEF IInv

\* ... and every other cycle ends with the retired entry cleared.
LEMMA EndCycleInv ==
  ASSUME IInv, EndCycle
  PROVE  IInv'
<1>1. /\ ~ branch_picked /\ Shaped
      /\ rob' = [i \in Slots |-> IF i = clean_rb_idx THEN EmptySlot ELSE rob[i]]
      /\ stations' = [j \in Stations |-> IF j \in clear_res_stat_idx
                                          THEN EmptyStation ELSE stations[j]]
      /\ clean_rb_idx' = UNDEFINED
      /\ UNCHANGED <<prog, ring, count, branch, exec_units>>
      /\ phase' = "commit"
  BY DEF IInv, EndCycle, GoTo, chosen, front
<1>2. /\ rb_rd_idx' = rb_rd_idx /\ branch_picked' = branch_picked
  BY <1>1 DEF ring, branch
<1>3. /\ EmptySlot.pc = UNDEFINED /\ ~ EmptySlot.ready
      /\ EmptySlot.value = UNDEFINED /\ EmptySlot.result = UNDEFINED
      /\ ~ EmptyStation.write_result
  BY DEF EmptySlot, EmptyStation
<1>4. \A i \in Slots : rob'[i] = IF i = clean_rb_idx THEN EmptySlot ELSE rob[i]
  BY <1>1
<1>5. \A j \in Stations : stations'[j] = EmptyStation \/ stations'[j] = stations[j]
  BY <1>1
<1>6. Shaped'
  BY <1>1, <1>3, <1>4, <1>5, Constants DEF Shaped
<1>7. PICK n \in 0 .. RobSize : Ring(n)
  BY <1>1 DEF IInv
<1>8. Ring(n)'
  BY <1>1, <1>3, <1>4, <1>7, RingCleared DEF IInv
<1>9. \A pc : At(pc)' = At(pc)
  BY <1>1 DEF At, Instr
<1>10. NothingReady'
  <2>1. ASSUME NEW i \in Slots, rob'[i].pc = UNDEFINED
        PROVE  ~ rob'[i].ready
    BY <1>1, <1>3, <1>4, <2>1 DEF IInv, NothingReady, InFlight
  <2>2. ASSUME NEW j \in Stations, stations'[j].pc = UNDEFINED
        PROVE  ~ stations'[j].write_result
    BY <1>1, <1>3, <1>5, <2>2 DEF IInv, NothingReady
  <2> QED
    BY <2>1, <2>2 DEF NothingReady, InFlight
<1>11. BranchResults'
  <2>1. ASSUME NEW i \in Slots,
               rob'[i].pc = UNDEFINED \/ At(rob'[i].pc).opcode \in Branches
        PROVE  rob'[i].value \in Nat /\ rob'[i].result \in Nat
    BY <1>1, <1>3, <1>4, <2>1, Constants DEF IInv, BranchResults, InFlight, Op
  <2> QED
    BY <1>9, <2>1 DEF BranchResults, InFlight, Op, At, Instr
<1>12. StoresInMemoryUnit'
  BY <1>1, <1>9 DEF IInv, StoresInMemoryUnit, At, Instr
<1>13. InPhase'
  BY <1>1 DEF InPhase
<1>14. (\E k \in 0 .. RobSize : Ring(k))'
  BY <1>8
<1> QED
  BY <1>1, <1>2, <1>6, <1>10, <1>11, <1>12, <1>13, <1>14 DEF IInv

-----------------------------------------------------------------------------
(* The invariant, and what it says of the ring *)

\* The empty machine has it.
LEMMA InitInv == Init => IInv
<1> SUFFICES ASSUME Init PROVE IInv
  OBVIOUS
<1>1. /\ rob = [i \in Slots |-> EmptySlot]
      /\ stations = [j \in Stations |-> EmptyStation]
      /\ exec_units = [u \in Units |-> IdleUnit]
      /\ prog \in Programs /\ count = 0 /\ rb_wr_idx = 0 /\ rb_rd_idx = 0
      /\ branch_picked = FALSE /\ clean_rb_idx = UNDEFINED /\ phase = "commit"
  BY DEF Init
<1>2. 0 \in Slots /\ 0 \in 0 .. RobSize /\ UNDEFINED \in Nat
  BY Constants DEF Slots
<1>3. /\ EmptySlot.pc = UNDEFINED /\ ~ EmptySlot.ready
      /\ EmptySlot.value = UNDEFINED /\ EmptySlot.result = UNDEFINED
      /\ ~ EmptyStation.write_result
      /\ IdleUnit.pc = UNDEFINED
  BY DEF EmptySlot, EmptyStation, IdleUnit
<1>4. \A i \in Slots : rob[i] = EmptySlot
  BY <1>1
<1>5. Shaped
  BY <1>1, <1>2, <1>3 DEF Shaped
<1>6. Ring(0)
  <2>1. \A i \in Slots : Place(i) = Back(i, 0)
    BY <1>1 DEF Place, Back
  <2>2. \A i \in Slots : ~ InFlight(i) /\ i # clean_rb_idx
    BY <1>1, <1>3, <1>4, Constants DEF InFlight
  <2>3. \A i \in Slots : ~ (Place(i) < 0)
    <3>1. \A n \in Nat : ~ (n < 0)
      OBVIOUS
    <3> QED
      BY <2>1, <3>1, FromZero
  <2>4. rb_wr_idx = (rb_rd_idx + 0) % RobSize /\ 0 <= count
    BY <1>1, FromZero
  <2> QED
    BY <1>1, <1>2, <2>2, <2>3, <2>4 DEF Ring
<1>7. NothingReady /\ BranchResults /\ StoresInMemoryUnit /\ InPhase
  BY <1>1, <1>2, <1>3, <1>4
     DEF NothingReady, BranchResults, StoresInMemoryUnit, InPhase
<1> QED
  BY <1>1, <1>2, <1>5, <1>6, <1>7 DEF IInv

\* Every step of a cycle keeps it.
LEMMA StepInv == MemoryUnitLast /\ IInv /\ [Next]_vars => IInv'
<1> SUFFICES ASSUME MemoryUnitLast, IInv, [Next]_vars PROVE IInv'
  OBVIOUS
<1>1. CASE Commit
  BY <1>1, WaitInv, RegisterInv, BranchInv, StoreContinueInv, StoreUnitOtherInv,
     StoreUnitInv DEF Commit
<1>2. CASE WriteResult
  BY <1>2, WriteResultInv
<1>3. CASE SkipExecution \/ \E i \in Slots : Execution(i)
  BY <1>3, ExecutionInv DEF SkipExecution
<1>4. CASE IssueStall \/ Issue
  BY <1>4, IssueStallInv, IssueInv
<1>5. CASE Flush \/ EndCycle
  BY <1>5, FlushInv, EndCycleInv
<1>6. CASE UNCHANGED vars
  <2>1. /\ UNCHANGED <<prog, ring, count, clean_rb_idx, branch, rob, stations,
                       exec_units>>
        /\ phase' = phase /\ at' = at
    BY <1>6 DEF vars, chosen, front, cleanup
  <2>2. /\ rb_rd_idx' = rb_rd_idx /\ rb_wr_idx' = rb_wr_idx
        /\ branch_picked' = branch_picked /\ branch_target' = branch_target
    BY <2>1 DEF ring, branch
  <2>3. EntriesKept /\ StationsKept /\ UnitsKept
    BY <2>1, Unchanged DEF IInv
  <2>4. Shaped'
    BY <2>1, <2>3, ShapeKept DEF IInv
  <2>5. ASSUME ~ branch_picked
        PROVE  /\ (\E n \in 0 .. RobSize : Ring(n))'
               /\ NothingReady' /\ BranchResults' /\ StoresInMemoryUnit' /\ InPhase'
    <3>1. PICK n \in 0 .. RobSize : Ring(n)
      BY <2>5 DEF IInv
    <3>2. Ring(n)'
      BY <2>1, <3>1, RingKept
    <3>3. InPhase'
      <4>1. head' = head /\ At(head.pc)' = At(head.pc)
        BY <2>1, <2>2 DEF head, At, Instr
      <4> QED
        BY <2>1, <2>2, <2>5, <4>1 DEF InPhase, InFlight, IInv
    <3> QED
      BY <2>1, <2>3, <2>5, <3>2, <3>3, RestKept DEF IInv
  <2> QED
    BY <2>1, <2>2, <2>4, <2>5 DEF IInv
<1> QED
  BY <1>1, <1>2, <1>3, <1>4, <1>5, <1>6 DEF Next

\* The entries of a ring of n instructions are n.
LEMMA LiveCount ==
  ASSUME NEW n \in 0 .. RobSize, Ring(n), rb_rd_idx \in Slots
  PROVE  /\ \A i \in Slots : i \in Live <=> Place(i) < n
         /\ Cardinality(Live) = n
<1>1. \A i \in Slots : Place(i) \in 0 .. RobSize - 1
  BY PlaceIs DEF Slots
<1>2. \A i \in Slots : i \in Live <=> Place(i) < n
  <2>1. \A i \in Slots : i = clean_rb_idx => ~ (Place(i) < n)
    BY <1>1, Constants DEF Ring
  <2> QED
    BY <2>1 DEF Ring, Live
<1> DEFINE slot == [k \in 0 .. n - 1 |-> (rb_rd_idx + k) % RobSize]
<1>3. ASSUME NEW k \in 0 .. n - 1
      PROVE  slot[k] \in Live /\ Place(slot[k]) = k
  <2>1. k \in Slots /\ k < n
    BY Constants DEF Slots
  <2>2. slot[k] \in Slots /\ Place(slot[k]) = k
    BY <2>1, SlotAt
  <2> QED
    BY <1>2, <2>1, <2>2
<1>4. ASSUME NEW i \in Live
      PROVE  Place(i) \in 0 .. n - 1 /\ slot[Place(i)] = i
  <2>1. i \in Slots
    BY DEF Live
  <2>2. Place(i) \in 0 .. n - 1
    BY <1>1, <1>2, <2>1
  <2>3. slot[Place(i)] \in Slots /\ Place(slot[Place(i)]) = Place(i)
    BY <1>3, <2>2 DEF Live
  <2> HIDE DEF slot
  <2> QED
    BY <2>1, <2>2, <2>3, PlacesDiffer
<1>5. DOMAIN slot = 0 .. n - 1 /\ slot = [k \in 0 .. n - 1 |-> slot[k]]
  OBVIOUS
<1> HIDE DEF slot
<1>6. slot \in Bijection(0 .. n - 1, Live)
  <2>1. slot \in [0 .. n - 1 -> Live]
    BY <1>3, <1>5
  <2>2. \A a, b \in 0 .. n - 1 : slot[a] = slot[b] => a = b
    BY <1>3
  <2>3. \A i \in Live : \E k \in 0 .. n - 1 : slot[k] = i
    BY <1>4
  <2> QED
    BY <1>5, <2>1, <2>2, <2>3 DEF Bijection, Injection, IsInjective, Surjection
<1>7. ExistsBijection(0 .. n - 1, Live)
  BY <1>6 DEF ExistsBijection
<1>8. IsFiniteSet(0 .. n - 1) /\ Cardinality(0 .. n - 1) = n
  <2>1. /\ IsFiniteSet(0 .. n - 1)
        /\ Cardinality(0 .. n - 1) = IF 0 > n - 1 THEN 0 ELSE n - 1 - 0 + 1
    BY FS_Interval
  <2> QED
    BY <2>1, Constants
<1>9. Cardinality(Live) = n
  BY <1>7, <1>8, FS_Bijection
<1> QED
  BY <1>2, <1>9

\* A ring in the buffer is one in program order.
LEMMA RingOrdered == IInv => RingInOrder
<1> SUFFICES ASSUME IInv, ~ branch_picked
             PROVE  /\ \A i \in Live : /\ Place(i) < Cardinality(Live)
                                       /\ rob[i].pc = 4 * (ArchPC + Place(i))
                    /\ rb_wr_idx = (rb_rd_idx + Cardinality(Live)) % RobSize
                    /\ count = ArchPC + Cardinality(Live)
  BY DEF RingInOrder
<1>1. PICK n \in 0 .. RobSize : Ring(n)
  BY DEF IInv
<1>2. rb_rd_idx \in Slots /\ count \in Nat /\ n \in Nat
  BY Constants DEF IInv
<1>3. /\ \A i \in Slots : i \in Live <=> Place(i) < n
      /\ Cardinality(Live) = n
  BY <1>1, <1>2, LiveCount
<1>4. Place(rb_rd_idx) = 0
  BY <1>2, PlacesDiffer
<1>5. ArchPC = count - n
  <2>1. CASE n = 0
    <3>1. rb_rd_idx \notin Live
      BY <1>2, <1>3, <1>4, <2>1
    <3>2. ArchPC = count
      BY <3>1 DEF ArchPC
    <3> QED
      BY <1>2, <2>1, <3>2
  <2>2. CASE n > 0
    <3>1. rb_rd_idx \in Live
      BY <1>2, <1>3, <1>4, <2>2
    <3>2. head.pc = 4 * (count - n + 0)
      BY <1>1, <1>2, <1>4, <2>2 DEF Ring, head
    <3>3. count - n \in Nat
      BY <1>1, <1>2 DEF Ring
    <3>4. \A m \in Nat : (4 * (m + 0)) \div 4 = m
      OBVIOUS
    <3>5. ArchPC = head.pc \div 4
      BY <3>1 DEF ArchPC
    <3> QED
      BY <3>2, <3>3, <3>4, <3>5
  <2> QED
    BY <1>2, <2>1, <2>2
<1>6. ASSUME NEW i \in Live
      PROVE  Place(i) < n /\ rob[i].pc = 4 * (ArchPC + Place(i))
  <2>1. i \in Slots
    BY DEF Live
  <2> QED
    BY <1>1, <1>3, <1>5, <2>1 DEF Ring
<1>7. rb_wr_idx = (rb_rd_idx + n) % RobSize
  BY <1>1 DEF Ring
<1>8. count = ArchPC + n
  BY <1>2, <1>5
<1> QED
  BY <1>3, <1>6, <1>7, <1>8

\* Every machine whose memory units come last keeps its buffer in program order: the
\* entries in flight hold the instructions from the next to take effect to the next
\* to be fetched, one after the other from the head.
THEOREM RingCorrect == MemoryUnitLast => (Spec => []RingInOrder)
<1>1. Init => IInv
  BY InitInv
<1>2. MemoryUnitLast /\ IInv /\ [Next]_vars => IInv'
  BY StepInv
<1>3. IInv => RingInOrder
  BY RingOrdered
<1>4. MemoryUnitLast => [](MemoryUnitLast)
  <2>1. MemoryUnitLast => MemoryUnitLast'
    BY DEF MemoryUnitLast
  <2> QED
    BY <2>1, PTL
<1> QED
  BY <1>1, <1>2, <1>3, <1>4, PTL DEF Spec
=============================================================================
