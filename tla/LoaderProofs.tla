---------------------------- MODULE LoaderProofs ----------------------------
(***************************************************************************)
(* What the two passes of load_program leave in the instruction memory,    *)
(* for every source, every width of a register and every reload.           *)
(***************************************************************************)
EXTENDS Loader, TLAPS

-----------------------------------------------------------------------------
(* The inductive invariant *)

\* The lines read so far that bear label l.
Bearers(l) == {k \in 0 .. instruction_nr - 1 : Line(k).label = l}

\* The table holds the labels read so far, each with its last line.
Noted ==
  /\ \A l : l \in DOMAIN labels <=> l # NoLabel /\ Bearers(l) # {}
  /\ \A l \in DOMAIN labels : /\ labels[l] \in Bearers(l)
                              /\ \A k \in Bearers(l) : k <= labels[l]

\* Line k in memory: the second pass has resolved those before i.
Translated(k) ==
  IF k < i /\ Line(k).opcode \in Jumps
  THEN [Fresh(k) EXCEPT !.immediate = Distance(k)]
  ELSE Fresh(k)

Translation ==
  instr_memory = [k \in Cells |-> IF k < instruction_nr THEN Translated(k)
                                  ELSE Blank("EOP")]

\* How far the passes are; the second has passed no EOP.
Progress ==
  /\ at \in {"empty", "read", "resolve", "loaded"}
  /\ instruction_nr \in 0 .. Len(source)
  /\ i \in Nat
  /\ at = "empty" => Len(source) = 0
  /\ at # "empty" => source \in Sources
  /\ at \in {"empty", "read"} => i = 0
  /\ at \in {"resolve", "loaded"} => instruction_nr = Len(source) /\ i < Len(source)
  /\ \A k \in 0 .. i - 1 : Line(k).opcode # "EOP"
  /\ at = "loaded" => Line(i).opcode = "EOP"

IInv == Progress /\ Noted /\ Translation

-----------------------------------------------------------------------------
(* Words and instructions *)

\* Quotient and remainder.
LEMMA Division ==
  ASSUME NEW m \in Nat \ {0}, NEW x \in Int
  PROVE  x = m * (x \div m) + (x % m) /\ x \div m \in Int /\ x % m \in 0 .. m - 1
  OBVIOUS

\* A multiple of m that is nearer to 0 than m is 0.
LEMMA SmallMultiple ==
  ASSUME NEW m \in Nat \ {0}, NEW d \in Int, m * d < m, -m < m * d
  PROVE  d = 0
<1>1. CASE d >= 1
  <2>1. m * (d - 1) >= 0
    BY <1>1
  <2>2. m * (d - 1) = m * d - m
    OBVIOUS
  <2> QED
    BY <2>1, <2>2
<1>2. CASE d <= -1
  <2>1. m * (-d - 1) >= 0
    BY <1>2
  <2>2. m * (-d - 1) = -(m * d) - m
    OBVIOUS
  <2> QED
    BY <2>1, <2>2
<1> QED
  BY <1>1, <1>2

\* No other number than the remainder completes a multiple of m.
LEMMA Remainder ==
  ASSUME NEW m \in Nat \ {0}, NEW x \in Int, NEW q \in Int, NEW r \in 0 .. m - 1,
         x = m * q + r
  PROVE  x % m = r
<1> DEFINE e == x \div m
           s == x % m
<1>1. x = m * e + s /\ e \in Int /\ s \in 0 .. m - 1
  BY Division
<1> HIDE DEF e, s
<1>2. m * (e - q) = m * e - m * q /\ m * e \in Int /\ m * q \in Int
  BY <1>1
<1>3. m * (e - q) < m /\ -m < m * (e - q)
  BY <1>1, <1>2
<1>4. e = q
  <2>1. e - q = 0
    BY <1>1, <1>3, SmallMultiple
  <2> QED
    BY <1>1, <2>1
<1> QED
  BY <1>1, <1>4 DEF s

\* What is added may be cut to a remainder first.
LEMMA AddRemainder ==
  ASSUME NEW a \in Int, NEW b \in Int, NEW m \in Nat \ {0}
  PROVE  (a + (b % m)) % m = (a + b) % m
<1> DEFINE q == b \div m
           s == b % m
           e == (a + s) \div m
           t == (a + s) % m
<1>1. b = m * q + s /\ q \in Int /\ s \in 0 .. m - 1
  BY Division
<1>2. a + s = m * e + t /\ e \in Int /\ t \in 0 .. m - 1
  <2>1. a + s \in Int
    BY <1>1
  <2> HIDE DEF s
  <2> QED
    BY <2>1, Division
<1> HIDE DEF q, s, e, t
<1>3. m * (q + e) = m * q + m * e /\ m * q \in Int /\ m * e \in Int
  BY <1>1, <1>2
<1>4. a + b = m * (q + e) + t /\ a + b \in Int /\ q + e \in Int
  BY <1>1, <1>2, <1>3
<1>5. (a + b) % m = t
  BY <1>2, <1>4, Remainder
<1> QED
  BY <1>5 DEF t, s

\* Registers hold at least one word.
LEMMA WordSizeType == WordSize \in Nat \ {0}
  BY WordBitsAssumption

\* A word is added as the number that was cut to it.
LEMMA AddWord ==
  ASSUME NEW a \in Int, NEW b \in Int
  PROVE  Wrap(a + Wrap(b)) = Wrap(a + b)
  BY WordSizeType, AddRemainder DEF Wrap

\* The result of Wrap is a word.
LEMMA WrapType == ASSUME NEW n \in Int PROVE Wrap(n) \in Word
  BY WordSizeType DEF Wrap, Word

\* An empty cell holds an instruction.
LEMMA BlankType == Blank("EOP") \in Instruction
<1>1. UNDEFINED \in Word
  BY WordSizeType DEF UNDEFINED, Word
<1> QED
  BY <1>1 DEF Blank, Instruction, Opcodes

\* A line that has its operands yields an instruction with its opcode.
LEMMA StoredType ==
  ASSUME NEW old \in Instruction, NEW line, Formed(line)
  PROVE  /\ Stored(old, line.opcode, line.par) \in Instruction
         /\ Stored(old, line.opcode, line.par).opcode = line.opcode
<1> DEFINE op == line.opcode
           p  == line.par
<1>1. /\ old.src1 \in Word /\ old.src2 \in Word
      /\ old.dest \in Word /\ old.immediate \in Word
  BY DEF Instruction
<1>2. op \in Opcodes
  BY DEF Formed
<1>3. CASE op \notin Jumps \cup {"EOP", "NOP"}
  <2>1. p[1] \in Word /\ p[2] \in Word /\ p[3] \in Word
    BY <1>3 DEF Formed
  <2> HIDE DEF op, p
  <2> QED
    BY <1>1, <1>2, <1>3, <2>1 DEF Stored, Instruction, Jumps, op, p
<1>4. CASE op \in Branches
  <2>1. p[1] \in Word
    BY <1>4 DEF Formed
  <2> QED
    BY <1>1, <1>2, <1>4, <2>1
    DEF Stored, Instruction, Branches, RegisterOps, IntMulDiv, FpAlu, ImmediateOps, Loads
<1>5. CASE op \in {"EOP", "NOP", "JUMP"}
  BY <1>1, <1>2, <1>5
  DEF Stored, Instruction, Branches, RegisterOps, IntMulDiv, FpAlu, ImmediateOps, Loads
<1> QED
  BY <1>3, <1>4, <1>5 DEF Jumps

\* The lines of a source are well formed and the last is an EOP.
LEMMA SourceLines ==
  ASSUME source \in Sources
  PROVE  /\ Len(source) \in 1 .. PROGRAM_SIZE
         /\ Line(Len(source) - 1).opcode = "EOP"
         /\ \A k \in 0 .. Len(source) - 1 :
              /\ Formed(Line(k))
              /\ Fresh(k) \in Instruction /\ Fresh(k).opcode = Line(k).opcode
<1>1. /\ Len(source) \in 1 .. PROGRAM_SIZE
      /\ source[Len(source)].opcode = "EOP"
      /\ \A l \in 1 .. Len(source) : Formed(source[l])
  BY SourcesAssumption
<1>2. \A k \in 0 .. Len(source) - 1 : Formed(Line(k))
  BY <1>1 DEF Line, PROGRAM_SIZE
<1>3. ASSUME NEW k \in 0 .. Len(source) - 1
      PROVE  Fresh(k) \in Instruction /\ Fresh(k).opcode = Line(k).opcode
  BY <1>2, BlankType, StoredType DEF Fresh
<1>4. Line(Len(source) - 1) = source[Len(source)]
  BY <1>1 DEF Line, PROGRAM_SIZE
<1> QED
  BY <1>1, <1>2, <1>3, <1>4

-----------------------------------------------------------------------------
(* Every step keeps the invariant *)

\* Nothing is loaded at the start or after a reset.
LEMMA EmptyInv ==
  ASSUME at = "empty", Len(source) = 0, instruction_nr = 0, i = 0, DOMAIN labels = {},
         instr_memory = ClearedMemory
  PROVE  IInv
<1>1. Progress
  BY DEF Progress
<1>2. Noted
  BY DEF Noted, Bearers
<1>3. Translation
  BY DEF Translation, ClearedMemory, Cells
<1> QED
  BY <1>1, <1>2, <1>3 DEF IInv

\* An opened file has no line read.
LEMMA LoadInv == ASSUME IInv, NEW s \in Sources, Load(s) PROVE IInv'
<1>1. /\ instruction_nr = 0 /\ i = 0
  BY DEF IInv, Progress, Load
<1>2. Progress'
  BY <1>1, SourcesAssumption DEF Load, Progress, PROGRAM_SIZE
<1>3. Noted'
  BY <1>1 DEF IInv, Load, Noted, Bearers
<1>4. Translation'
  BY <1>1 DEF IInv, Load, Translation, Cells
<1> QED
  BY <1>2, <1>3, <1>4 DEF IInv

\* The first pass stores a line in a cell that nothing was loaded into, and notes
\* the label in front of it.
LEMMA ReadLineInv == IInv /\ ReadLine => IInv'
<1> SUFFICES ASSUME IInv, ReadLine PROVE IInv'
  OBVIOUS
<1> DEFINE n == instruction_nr
           line == Line(n)
<1>1. /\ at = "read" /\ at' = at /\ source' = source /\ i' = i /\ i = 0
      /\ n \in Nat /\ n < Len(source) /\ n' = n + 1
      /\ source \in Sources
      /\ Len(source) \in 1 .. PROGRAM_SIZE
  BY SourceLines DEF IInv, Progress, ReadLine
<1>2. /\ labels' = IF line.label = NoLabel THEN labels
                   ELSE [l \in DOMAIN labels \cup {line.label} |->
                           IF l = line.label THEN n ELSE labels[l]]
      /\ instr_memory' = [instr_memory EXCEPT ![n] =
                            Stored(instr_memory[n], line.opcode, line.par)]
  BY DEF ReadLine, Line
<1>3. Progress'
  BY <1>1 DEF IInv, Progress, Line
<1>4. Noted'
  <2>1. \A l : Bearers(l)' = IF l = line.label THEN Bearers(l) \cup {n} ELSE Bearers(l)
    BY <1>1 DEF Bearers, Line
  <2>2. \A l : \A k \in Bearers(l) : k < n
    BY <1>1 DEF Bearers
  <2>3. n \notin Bearers(line.label)
    BY <2>2, <1>1
  <2>4. \A l : l \in DOMAIN labels' <=> l # NoLabel /\ Bearers(l)' # {}
    <3>1. DOMAIN labels' = IF line.label = NoLabel THEN DOMAIN labels
                           ELSE DOMAIN labels \cup {line.label}
      BY <1>2
    <3>2. \A l : l \in DOMAIN labels <=> l # NoLabel /\ Bearers(l) # {}
      BY DEF IInv, Noted
    <3> HIDE DEF line, n
    <3> QED
      BY <2>1, <3>1, <3>2
  <2>5. ASSUME NEW l \in DOMAIN labels'
        PROVE  labels'[l] \in Bearers(l)' /\ \A k \in Bearers(l)' : k <= labels'[l]
    <3>1. CASE line.label # NoLabel /\ l = line.label
      <4>1. labels'[l] = n
        BY <1>2, <3>1
      <4>2. Bearers(l)' = Bearers(l) \cup {n}
        BY <2>1, <3>1
      <4>3. \A k \in Bearers(l) : k <= n
        BY <1>1, <2>2 DEF Bearers
      <4> HIDE DEF n
      <4> QED
        BY <1>1, <4>1, <4>2, <4>3
    <3>2. CASE line.label = NoLabel \/ l # line.label
      <4>1. l \in DOMAIN labels /\ labels'[l] = labels[l]
        BY <1>2, <2>5, <3>2
      <4>2. l # NoLabel
        BY <4>1 DEF IInv, Noted
      <4>3. Bearers(l)' = Bearers(l)
        BY <2>1, <3>2, <4>2
      <4> QED
        BY <4>1, <4>3 DEF IInv, Noted
    <3> QED
      BY <3>1, <3>2
  <2> QED
    BY <2>4, <2>5 DEF Noted
<1>5. Translation'
  <2>1. n \in Cells
    <3>1. \A m \in 1 .. PROGRAM_SIZE : \A k \in Nat : k < m => k \in Cells
      BY DEF Cells, PROGRAM_SIZE
    <3> QED
      BY <1>1, <3>1
  <2>2. instr_memory[n] = Blank("EOP")
    BY <1>1, <2>1 DEF IInv, Translation
  <2>3. instr_memory'[n] = Fresh(n)
    BY <1>2, <2>1, <2>2 DEF IInv, Translation, Fresh
  <2>4. \A k \in Cells : Translated(k) = Fresh(k) /\ Translated(k)' = Fresh(k)
    BY <1>1 DEF Translated, Cells, Fresh, Line
  <2>5. \A k \in Cells : k < n => instr_memory[k] = Fresh(k)
    BY <2>4 DEF IInv, Translation
  <2>6. \A k \in Cells : n < k => instr_memory[k] = Blank("EOP")
    BY <1>1 DEF IInv, Translation, Cells
  <2>7. \A k \in Cells : k # n => instr_memory'[k] = instr_memory[k]
    BY <1>2 DEF IInv, Translation
  <2>8. \A k \in Cells : instr_memory'[k] = IF k < n + 1 THEN Fresh(k) ELSE Blank("EOP")
    BY <1>1, <2>3, <2>5, <2>6, <2>7 DEF Cells
  <2>9. instr_memory' = [k \in Cells |-> instr_memory'[k]]
    BY <1>2 DEF IInv, Translation
  <2>10. instr_memory' = [k \in Cells |-> IF k < n + 1 THEN Translated(k)'
                                          ELSE Blank("EOP")]
    BY <2>4, <2>8, <2>9
  <2> QED
    BY <1>1, <2>10 DEF Translation
<1> QED
  BY <1>3, <1>4, <1>5 DEF IInv

\* The second pass starts when the file is read.
LEMMA ReadEndInv == IInv /\ ReadEnd => IInv'
<1> SUFFICES ASSUME IInv, ReadEnd PROVE IInv'
  OBVIOUS
<1>1. Progress'
  <2>1. /\ source \in Sources /\ i = 0
    BY DEF IInv, Progress, ReadEnd
  <2> QED
    BY <2>1, SourceLines DEF IInv, Progress, ReadEnd, Line
<1>2. Noted'
  BY DEF IInv, Noted, ReadEnd, Bearers, Line
<1>3. Translation'
  BY DEF IInv, Translation, ReadEnd, Translated, Fresh, Distance, Position, Label, Line
<1> QED
  BY <1>1, <1>2, <1>3 DEF IInv

\* The second pass leaves a jump with its distance and anything else as it was.
LEMMA ResolveInv == IInv /\ Resolve => IInv'
<1> SUFFICES ASSUME IInv, Resolve PROVE IInv'
  OBVIOUS
<1>1. /\ at = "resolve" /\ at' = at /\ source' = source /\ labels' = labels
      /\ instruction_nr' = instruction_nr /\ instruction_nr = Len(source)
      /\ i \in Nat /\ i < Len(source) /\ i' = i + 1
      /\ source \in Sources
      /\ Len(source) \in 1 .. PROGRAM_SIZE
  BY SourceLines DEF IInv, Progress, Resolve, NextResolved
<1>2. \A k \in Nat : k < Len(source) => k \in Cells
  <2>1. \A m \in 1 .. PROGRAM_SIZE : \A k \in Nat : k < m => k \in Cells
    BY DEF Cells, PROGRAM_SIZE
  <2> QED
    BY <1>1, <2>1
<1>3. instr_memory[i] = Fresh(i) /\ Fresh(i).opcode = Line(i).opcode
  <2>1. instr_memory[i] = Translated(i)
    BY <1>1, <1>2 DEF IInv, Translation
  <2>2. Translated(i) = Fresh(i)
    BY <1>1 DEF Translated
  <2> QED
    BY <1>1, <2>1, <2>2, SourceLines
<1>4. Line(i).opcode # "EOP"
  BY <1>3 DEF Resolve, EndFound
<1>5. Progress'
  <2>1. Line(Len(source) - 1).opcode = "EOP"
    BY <1>1, SourceLines
  <2>2. i # Len(source) - 1
    BY <1>4, <2>1
  <2>3. \A k \in 0 .. i : Line(k).opcode # "EOP"
    BY <1>1, <1>4 DEF IInv, Progress
  <2>4. i + 1 < Len(source) /\ \A k \in 0 .. (i + 1) - 1 : Line(k).opcode # "EOP"
    BY <1>1, <2>2, <2>3
  <2>5. \A k : Line(k)' = Line(k)
    BY <1>1 DEF Line
  <2> QED
    BY <1>1, <2>4, <2>5 DEF IInv, Progress
<1>6. Noted'
  BY <1>1 DEF IInv, Noted, Bearers, Line
<1>7. Translation'
  <2> DEFINE new == IF Line(i).opcode \in Jumps
                    THEN [Fresh(i) EXCEPT !.immediate = Distance(i)] ELSE Fresh(i)
  <2>1. /\ i \in Cells
        /\ DOMAIN instr_memory = Cells
        /\ \A k \in Cells : instr_memory[k] = IF k < instruction_nr THEN Translated(k)
                                              ELSE Blank("EOP")
    BY <1>1, <1>2 DEF IInv, Translation
  <2>2. instr_memory' = [k \in Cells |-> IF k = i THEN new ELSE instr_memory[k]]
    <3>1. instr_memory' = IF Line(i).opcode \in Jumps
                          THEN [instr_memory EXCEPT ![i] =
                                  [instr_memory[i] EXCEPT !.immediate = Distance(i)]]
                          ELSE instr_memory
      BY <1>3 DEF Resolve
    <3>2. instr_memory = [k \in Cells |-> instr_memory[k]]
      BY DEF IInv, Translation
    <3> QED
      BY <1>3, <2>1, <3>1, <3>2
  <2>3. \A k \in Cells : Translated(k)' = IF k = i THEN new ELSE Translated(k)
    <3>1. \A k : /\ Fresh(k)' = Fresh(k) /\ Line(k)' = Line(k)
                 /\ Distance(k)' = Distance(k)
      BY <1>1 DEF Fresh, Line, Distance, Position, Label
    <3>2. \A k \in Cells : k < i' <=> k = i \/ k < i
      BY <1>1 DEF Cells
    <3>3. ~ (i < i)
      BY <1>1
    <3> QED
      BY <3>1, <3>2, <3>3 DEF Translated
  <2>4. \A k \in Cells : instr_memory'[k] = IF k < instruction_nr' THEN Translated(k)'
                                            ELSE Blank("EOP")
    <3> HIDE DEF new
    <3> QED
      BY <1>1, <2>1, <2>2, <2>3
  <2> HIDE DEF new
  <2> QED
    BY <2>2, <2>4 DEF Translation
<1> QED
  BY <1>5, <1>6, <1>7 DEF IInv

\* The second pass stops at the first EOP.
LEMMA ResolveEndInv == IInv /\ ResolveEnd => IInv'
<1> SUFFICES ASSUME IInv, ResolveEnd PROVE IInv'
  OBVIOUS
<1>1. /\ at = "resolve" /\ at' = "loaded"
      /\ UNCHANGED <<source, instr_memory, instruction_nr, labels, i>>
  BY DEF ResolveEnd
<1>2. Line(i).opcode = "EOP"
  <2>1. /\ instruction_nr = Len(source) /\ i \in Nat /\ i < Len(source)
        /\ source \in Sources /\ Len(source) \in 1 .. PROGRAM_SIZE
    BY <1>1, SourceLines DEF IInv, Progress
  <2>2. i \in Cells
    <3>1. \A m \in 1 .. PROGRAM_SIZE : \A k \in Nat : k < m => k \in Cells
      BY DEF Cells, PROGRAM_SIZE
    <3> QED
      BY <2>1, <3>1
  <2>3. instr_memory[i] = Fresh(i)
    BY <2>1, <2>2 DEF IInv, Translation, Translated
  <2> QED
    BY <2>1, <2>3, SourceLines DEF ResolveEnd, EndFound
<1>3. Progress'
  BY <1>1, <1>2 DEF IInv, Progress, Line
<1>4. Noted'
  BY <1>1 DEF IInv, Noted, Bearers, Line
<1>5. Translation'
  BY <1>1 DEF IInv, Translation, Translated, Fresh, Distance, Position, Label, Line
<1> QED
  BY <1>3, <1>4, <1>5 DEF IInv

(***************************************************************************)
(* After every step of the passes the memory is the translation of the     *)
(* lines read, with the jumps before i resolved, and the table of labels   *)
(* is that of the lines read, whatever was loaded before.                  *)
(***************************************************************************)
THEOREM Invariant == Spec => []IInv
<1>1. Init => IInv
  BY EmptyInv DEF Init
<1>2. IInv /\ [Next]_vars => IInv'
  <2> SUFFICES ASSUME IInv, [Next]_vars PROVE IInv'
    OBVIOUS
  <2>1. CASE Reset
    <3>1. /\ at' = "empty" /\ Len(source') = 0 /\ instruction_nr' = 0 /\ i' = 0
          /\ DOMAIN labels' = {} /\ instr_memory' = ClearedMemory
      BY <2>1 DEF Reset, Cleared
    <3>2. ClearedMemory' = ClearedMemory
      BY DEF ClearedMemory, Cells, Blank, UNDEFINED, WordSize, PROGRAM_SIZE
    <3>3. Progress'
      BY <3>1 DEF Progress
    <3>4. Noted'
      BY <3>1 DEF Noted, Bearers
    <3>5. Translation'
      BY <3>1 DEF Translation, ClearedMemory, Cells
    <3> QED
      BY <3>3, <3>4, <3>5 DEF IInv
  <2>2. CASE \E s \in Sources : Load(s)
    BY <2>2, LoadInv
  <2>3. CASE Pass
    BY <2>3, ReadLineInv, ReadEndInv, ResolveInv, ResolveEndInv DEF Pass
  <2>4. CASE UNCHANGED vars
    BY <2>4 DEF vars, IInv, Progress, Noted, Bearers, Translation, Translated, Fresh,
                Distance, Position, Label, Line
  <2> QED
    BY <2>1, <2>2, <2>3, <2>4 DEF Next
<1> QED
  BY <1>1, <1>2, PTL DEF Spec

-----------------------------------------------------------------------------
(* What the invariant is for *)

\* A cell below the end of a source is a cell of the memory.
LEMMA SourceCells ==
  ASSUME source \in Sources, NEW k \in Nat, k < Len(source)
  PROVE  k \in Cells
<1>1. \A m \in 1 .. PROGRAM_SIZE : \A n \in Nat : n < m => n \in Cells
  BY DEF Cells, PROGRAM_SIZE
<1> QED
  BY <1>1, SourceLines

(***************************************************************************)
(* Reading and resolving any source, the assembler leaves instructions in  *)
(* the memory only, and neither pass runs past the source or the memory.   *)
(***************************************************************************)
THEOREM TypeCorrect == Spec => []TypeOK
<1>1. IInv => TypeOK
  <2> SUFFICES ASSUME IInv PROVE TypeOK
    OBVIOUS
  <2>1. i \in 0 .. PROGRAM_SIZE - 1
    <3>1. CASE at \in {"empty", "read"}
      BY <3>1 DEF IInv, Progress, PROGRAM_SIZE
    <3>2. CASE at \in {"resolve", "loaded"}
      BY <3>2, SourceCells DEF IInv, Progress, Cells
    <3> QED
      BY <3>1, <3>2 DEF IInv, Progress
  <2>2. ASSUME NEW k \in Cells
        PROVE  instr_memory[k] \in Instruction
    <3>1. CASE k < instruction_nr
      <4>1. /\ source \in Sources /\ k \in 0 .. Len(source) - 1
        BY <3>1 DEF IInv, Progress, Cells
      <4>2. Fresh(k) \in Instruction
        BY <4>1, SourceLines
      <4>3. Distance(k) \in Word
        <5>1. Position(Label(k)) \in Int
          BY DEF Position, IInv, Noted, Bearers
        <5> QED
          BY <4>1, <5>1, WrapType DEF Distance
      <4>4. Translated(k) \in Instruction
        BY <4>2, <4>3 DEF Translated, Instruction
      <4> QED
        BY <3>1, <4>4 DEF IInv, Translation
    <3>2. CASE ~ (k < instruction_nr)
      BY <3>2, BlankType DEF IInv, Translation
    <3> QED
      BY <3>1, <3>2
  <2>3. \A l \in DOMAIN labels : labels[l] \in 0 .. Len(source) - 1
    BY DEF IInv, Noted, Bearers, Progress
  <2> QED
    BY <2>1, <2>2, <2>3 DEF TypeOK, IInv, Progress
<1> QED
  BY <1>1, Invariant, PTL

(***************************************************************************)
(* Once any source is loaded, each jump before its first EOP leads to the  *)
(* last line that bears its label, forward or backward, in the width of a  *)
(* register.                                                               *)
(***************************************************************************)
THEOREM JumpsCorrect == Spec => []JumpsReachLabels
<1>1. IInv => JumpsReachLabels
  <2> SUFFICES ASSUME IInv, at = "loaded", NEW k \in 0 .. Len(source) - 1, BeforeEnd(k),
                      Line(k).opcode \in Jumps
               PROVE  Wrap(4 * (k + 1) + instr_memory[k].immediate)
                        = Wrap(4 * Destination(Label(k)))
    BY DEF JumpsReachLabels
  <2> DEFINE l == Label(k)
  <2>1. source \in Sources /\ instruction_nr = Len(source)
    BY DEF IInv, Progress
  <2>2. k < i
    BY DEF IInv, Progress, BeforeEnd
  <2>3. instr_memory[k].immediate = Distance(k)
    <3>1. k \in Cells
      BY <2>1, SourceCells
    <3>2. instr_memory[k] = [Fresh(k) EXCEPT !.immediate = Distance(k)]
      BY <2>1, <2>2, <3>1 DEF IInv, Translation, Translated, Progress
    <3>3. Fresh(k) \in Instruction
      BY <2>1, SourceLines
    <3> QED
      BY <3>2, <3>3 DEF Instruction
  <2>4. l # NoLabel
    BY <2>1, SourceLines DEF Formed, Label, Line
  <2>5. Position(l) = Destination(l) /\ Destination(l) \in Int
    <3>1. Bearers(l) = {n \in 0 .. Len(source) - 1 : Line(n).label = l}
      BY <2>1 DEF Bearers
    <3>2. CASE Bearers(l) = {}
      BY <2>4, <3>1, <3>2 DEF IInv, Noted, Position, Destination
    <3>3. CASE Bearers(l) # {}
      <4>1. /\ l \in DOMAIN labels /\ labels[l] \in Bearers(l)
            /\ \A n \in Bearers(l) : n <= labels[l]
        BY <2>4, <3>3 DEF IInv, Noted
      <4>2. Destination(l) = CHOOSE n \in Bearers(l) : \A o \in Bearers(l) : o <= n
        BY <3>1, <3>3 DEF Destination
      <4>3. Destination(l) \in Bearers(l) /\ \A o \in Bearers(l) : o <= Destination(l)
        BY <4>1, <4>2
      <4>4. Bearers(l) \subseteq Int
        BY DEF Bearers
      <4>5. Destination(l) = labels[l]
        BY <4>1, <4>3, <4>4
      <4> QED
        BY <4>1, <4>3, <4>4, <4>5 DEF Position
    <3> QED
      BY <3>2, <3>3
  <2>6. instr_memory[k].immediate = Wrap(4 * (Destination(l) - k - 1))
    BY <2>3, <2>5 DEF Distance
  <2> HIDE DEF l
  <2>7. Wrap(4 * (k + 1) + Wrap(4 * (Destination(l) - k - 1)))
          = Wrap(4 * (k + 1) + 4 * (Destination(l) - k - 1))
    <3>1. 4 * (k + 1) \in Int /\ 4 * (Destination(l) - k - 1) \in Int
      BY <2>5
    <3> QED
      BY <3>1, AddWord
  <2>8. 4 * (k + 1) + 4 * (Destination(l) - k - 1) = 4 * Destination(l)
    BY <2>5
  <2> QED
    BY <2>6, <2>7, <2>8 DEF l
<1> QED
  BY <1>1, Invariant, PTL

(***************************************************************************)
(* Once any source is loaded, in any order of loads and resets, every cell *)
(* holds the operands of its own line and none of an earlier program.      *)
(***************************************************************************)
THEOREM OperandsCorrect == Spec => []OperandsOfSource
<1>1. IInv => OperandsOfSource
  <2> SUFFICES ASSUME IInv, at = "loaded", NEW k \in Cells
               PROVE  instr_memory[k] =
                        IF k >= Len(source) THEN Blank("EOP")
                        ELSE IF Line(k).opcode \notin Jumps THEN Fresh(k)
                        ELSE [Fresh(k) EXCEPT !.immediate = instr_memory[k].immediate]
    BY DEF OperandsOfSource
  <2>1. source \in Sources /\ instruction_nr = Len(source) /\ k \in Nat
    BY DEF IInv, Progress, Cells
  <2>2. CASE k >= Len(source)
    BY <2>1, <2>2, SourceLines DEF IInv, Translation
  <2>3. CASE k < Len(source)
    <3>1. instr_memory[k] = Translated(k)
      BY <2>1, <2>3 DEF IInv, Translation
    <3>2. Fresh(k) \in Instruction
      BY <2>1, <2>3, SourceLines
    <3>3. CASE Line(k).opcode \notin Jumps
      BY <2>1, <2>3, <3>1, <3>3, SourceLines DEF Translated
    <3>4. CASE Line(k).opcode \in Jumps
      <4>1. Translated(k) = [Fresh(k) EXCEPT !.immediate = Translated(k).immediate]
        BY <3>2 DEF Translated, Instruction
      <4> QED
        BY <2>1, <2>3, <3>1, <3>4, <4>1, SourceLines
    <3> QED
      BY <3>3, <3>4
  <2> QED
    BY <2>1, <2>2, <2>3, SourceLines
<1> QED
  BY <1>1, Invariant, PTL
=============================================================================
