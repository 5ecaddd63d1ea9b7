------------------------------ MODULE IsaProofs ------------------------------
(***************************************************************************)
(* Words: what the operators of Isa give.                                  *)
(***************************************************************************)
EXTENDS Isa, TLAPS

LEMMA SizeGiven == WordBits \in Nat \ {0} /\ WordSize \in Nat \ {0}
  BY WordBitsAssumption

LEMMA WrapWord == \A n \in Int : Wrap(n) \in Word
<1>1. \A m \in Nat \ {0}, n \in Int : n % m \in 0 .. m - 1
  OBVIOUS
<1> QED
  BY <1>1, SizeGiven DEF Wrap, Word

LEMMA SmallWraps == \A n \in Nat : n < WordSize => Wrap(n) = n
<1>1. \A m \in Nat \ {0}, n \in Nat : n < m => n % m = n
  OBVIOUS
<1> QED
  BY <1>1, SizeGiven DEF Wrap

LEMMA UndefinedWord == UNDEFINED \in Word
  BY SizeGiven DEF UNDEFINED, Word

LEMMA OneWord == 0 \in Word /\ 1 \in Word
  BY WordBitsAssumption DEF Word

LEMMA QuotientWord ==
  ASSUME NEW a \in Word, NEW b \in Word
  PROVE  Quotient(a, b) \in Word
<1>1. \A m \in Nat, n \in Nat \ {0} : m \div n \in Nat /\ m \div n <= m
  <2> SUFFICES ASSUME NEW m \in Nat, NEW n \in Nat \ {0}
               PROVE  m \div n \in Nat /\ m \div n <= m
    OBVIOUS
  <2>1. /\ m \div n \in Int /\ m % n \in 0 .. n - 1
        /\ m = n * (m \div n) + (m % n)
    OBVIOUS
  <2>2. \A q \in Int : \A r \in 0 .. n - 1 : m = n * q + r => q \in Nat /\ q <= m
    OBVIOUS
  <2> QED
    BY <2>1, <2>2
<1>2. CASE b = 0
  BY <1>2, UndefinedWord DEF Quotient
<1>3. CASE b # 0
  <2>1. a \in Nat /\ b \in Nat \ {0} /\ a <= WordSize - 1 /\ WordSize \in Nat
    BY <1>3, SizeGiven DEF Word
  <2>2. a \div b \in Nat /\ a \div b <= a
    BY <1>1, <2>1
  <2>3. \A q \in Nat : q <= a => q \in Word
    BY <2>1 DEF Word
  <2> QED
    BY <1>3, <2>2, <2>3 DEF Quotient
<1> QED
  BY <1>2, <1>3

\* The alu computes words from words.
LEMMA AluWord ==
  ASSUME BitwiseGivesWords,
         NEW op, NEW v1 \in Word, NEW v2 \in Word, NEW imm \in Word, NEW pc \in Word
  PROVE  Alu(op, v1, v2, imm, pc) \in Word
<1>1. v1 \in Nat /\ v2 \in Nat /\ imm \in Nat /\ pc \in Nat
  BY SizeGiven DEF Word
<1>2. /\ v1 + v2 \in Int /\ v1 - v2 \in Int /\ v1 * v2 \in Int
      /\ v1 + imm \in Int /\ v1 - imm \in Int
      /\ pc + 4 + (IF Taken(op, v1) THEN imm ELSE 0) \in Int
  BY <1>1
<1>3. /\ Wrap(v1 + v2) \in Word /\ Wrap(v1 - v2) \in Word /\ Wrap(v1 * v2) \in Word
      /\ Wrap(v1 + imm) \in Word /\ Wrap(v1 - imm) \in Word
      /\ Wrap(pc + 4 + (IF Taken(op, v1) THEN imm ELSE 0)) \in Word
  BY <1>2, WrapWord
<1>4. Quotient(v1, v2) \in Word
  BY QuotientWord
<1>5. Bitwise(XorBit, v1, v2) \in Word /\ Bitwise(AndBit, v1, v2) \in Word
  BY DEF BitwiseGivesWords
<1> QED
  BY <1>3, <1>4, <1>5, Zenon DEF Alu

\* A branch that reads UNDEFINED, the word of all ones, is taken if it asks for a
\* number other than 0, or for one that is negative or not positive.
LEMMA UntakenWord ==
  ASSUME NEW op, op \notin {"BNEZ", "BLTZ", "BLEZ"}, NEW x, op \in Branches => x = UNDEFINED
  PROVE  ~ Taken(op, x)
<1>1. \A m \in Nat \ {0, 1} : /\ m - 1 # 0 /\ m - 1 >= m \div 2
                             /\ ~ ((m - 1) - m >= 0) /\ ~ ((m - 1) - m > 0)
  OBVIOUS
<1>2. WordSize \in Nat \ {0, 1}
  BY WordBitsAssumption
<1>3. CASE op \in Branches
  <2>1. UNDEFINED # 0 /\ AsInt(UNDEFINED) = (WordSize - 1) - WordSize
    BY <1>1, <1>2 DEF UNDEFINED, AsInt
  <2>2. ~ (AsInt(UNDEFINED) >= 0) /\ ~ (AsInt(UNDEFINED) > 0)
    BY <1>1, <1>2, <2>1
  <2> QED
    BY <1>3, <2>1, <2>2 DEF Taken
<1>4. CASE op \notin Branches
  BY <1>4 DEF Taken, Branches
<1> QED
  BY <1>3, <1>4
=============================================================================
