---------------------------- MODULE CacheProofs ----------------------------
(***************************************************************************)
(* Proofs about the cache simulator for every geometry, trace and policy.  *)
(***************************************************************************)
EXTENDS CacheLRU, FiniteSetTheorems, WellFoundedInduction, TLAPS

(***************************************************************************)
(* The loops that look for a way take the first one.                       *)
(***************************************************************************)

\* Every set of naturals has a least element.
LEMMA LeastExists ==
  ASSUME NEW S \in SUBSET Nat, S # {}
  PROVE  \E m \in S : \A n \in S : m <= n
<1>1. PICK m \in S : \A n \in S : ~ (<<n, m>> \in OpToRel(<, Nat))
  BY NatLessThanWellFounded, WFMin, Zenon
<1>2. \A n \in S : ~ (n < m)
  BY <1>1 DEF OpToRel
<1> QED
  BY <1>2

LEMMA LowestIn ==
  ASSUME NEW S \in SUBSET Ways, S # {}
  PROVE  Lowest(S) \in S
<1>1. S \subseteq Nat
  BY CacheAssumption DEF Ways
<1> QED
  BY <1>1, LeastExists DEF Lowest

-----------------------------------------------------------------------------
(* Types *)

LEMMA AddressTypes ==
  ASSUME NEW a \in Addresses
  PROVE  IndexOf(a) \in Indices /\ TagOf(a) \in Tags
<1>1. a \in Nat /\ NumSets \in Nat \ {0} /\ NumTags \in Nat \ {0}
        /\ LineBytes \in Nat \ {0}
  BY CacheAssumption
<1>2. a \div LineBytes \in Nat
  BY <1>1
<1>3. LineBytes * NumSets \in Nat \ {0}
  BY <1>1
<1>4. a \div (LineBytes * NumSets) \in Nat
  BY <1>1, <1>3
<1> QED
  BY <1>1, <1>2, <1>4 DEF IndexOf, TagOf, Indices, Tags

\* The counters only grow, and the array keeps its shape.
LEMMA InitType == HInit => TypeOK
<1> SUFFICES ASSUME HInit PROVE TypeOK
  OBVIOUS
<1>1. 0 \in Tags /\ 0 \in 0 .. CtrMod - 1 /\ 0 \in 0 .. TraceLen
  BY CacheAssumption DEF Tags
<1> QED
  BY <1>1 DEF HInit, Init, TypeOK, Entry

Stats == [no_rd : Nat, no_rd_miss : Nat, num_write : Nat,
          no_wr_miss : Nat, no_evicts : Nat, no_mem_wr : Nat]

\* Whatever naturals an access stores in the counters, they stay counters.
LEMMA CountersType ==
  \A p, q, r, s \in Nat : stat \in Stats =>
    /\ [stat EXCEPT !.no_rd = p] \in Stats
    /\ [stat EXCEPT !.no_rd = p, !.no_rd_miss = q,
                    !.no_evicts = r, !.no_mem_wr = s] \in Stats
    /\ [stat EXCEPT !.num_write = p, !.no_mem_wr = q] \in Stats
    /\ [stat EXCEPT !.num_write = p, !.no_wr_miss = q, !.no_mem_wr = r] \in Stats
    /\ [stat EXCEPT !.num_write = p, !.no_wr_miss = q,
                    !.no_evicts = r, !.no_mem_wr = s] \in Stats
  BY DEF Stats

LEMMA StatType ==
  ASSUME stat \in Stats, NEW a, Read(a) \/ Write(a)
  PROVE  stat' \in Stats
<1>1. /\ stat.no_rd + 1 \in Nat
      /\ stat.no_rd_miss + 1 \in Nat
      /\ stat.num_write + 1 \in Nat
      /\ stat.no_wr_miss + 1 \in Nat
  BY DEF Stats
<1>2. stat.no_evicts + Bit(Evicts(IndexOf(a))) \in Nat
  BY DEF Stats, Bit
<1>3. /\ stat.no_mem_wr + Bit(WritesBack(IndexOf(a))) \in Nat
      /\ stat.no_mem_wr + Bit(~ WriteBack) \in Nat
      /\ stat.no_mem_wr + Bit(WritesBack(IndexOf(a))) + Bit(~ WriteBack) \in Nat
  BY DEF Stats, Bit
<1>4. CASE ReadHit(a)
  BY <1>1, <1>4, CountersType, Zenon DEF ReadHit
<1>5. CASE ReadMiss(a)
  BY <1>1, <1>2, <1>3, <1>5, CountersType, Zenon DEF ReadMiss
<1>6. CASE WriteHit(a)
  BY <1>1, <1>3, <1>6, CountersType, Zenon DEF WriteHit
<1>7. CASE WriteMissAllocate(a)
  BY <1>1, <1>2, <1>3, <1>7, CountersType, Zenon DEF WriteMissAllocate
<1>8. CASE WriteMissAround(a)
  BY <1>1, <1>3, <1>8, CountersType, Zenon DEF WriteMissAround
<1> QED
  BY <1>4, <1>5, <1>6, <1>7, <1>8 DEF Read, Write

\* A fill and a hit keep the shape of the arrays, whichever way they pick.
LEMMA ArrayType ==
  ASSUME TypeOK, NEW a \in Addresses, Read(a) \/ Write(a)
  PROVE  /\ tag_arr' \in [Ways -> [Indices -> Entry]]
         /\ tag_dist' \in [Ways -> [Indices -> 0 .. CtrMod - 1]]
<1> USE DEF TypeOK
<1>1. IndexOf(a) \in Indices /\ TagOf(a) \in Tags
  BY AddressTypes
<1>2. ASSUME NEW w, Touch(w, IndexOf(a))
      PROVE  tag_dist' \in [Ways -> [Indices -> 0 .. CtrMod - 1]]
  BY <1>1, <1>2 DEF Touch
<1>3. ASSUME NEW d \in BOOLEAN, Allocate(a, d)
      PROVE  /\ tag_arr' \in [Ways -> [Indices -> Entry]]
             /\ tag_dist' \in [Ways -> [Indices -> 0 .. CtrMod - 1]]
  <2>1. [vld |-> TRUE, dty |-> d, tag |-> TagOf(a)] \in Entry
    BY <1>1 DEF Entry
  <2> QED
    BY <1>1, <1>2, <1>3, <2>1 DEF Allocate
<1>4. ASSUME MarkDirty(a)
      PROVE  tag_arr' \in [Ways -> [Indices -> Entry]]
  <2>1. ASSUME NEW w \in Ways
        PROVE  [tag_arr[w] EXCEPT ![IndexOf(a)].dty = TRUE] \in [Indices -> Entry]
    <3>1. tag_arr[w] \in [Indices -> Entry]
      BY <2>1
    <3>2. [tag_arr[w][IndexOf(a)] EXCEPT !.dty = TRUE] \in Entry
      BY <1>1, <3>1 DEF Entry
    <3>3. [tag_arr[w] EXCEPT ![IndexOf(a)].dty = TRUE]
            = [tag_arr[w] EXCEPT ![IndexOf(a)] =
                 [tag_arr[w][IndexOf(a)] EXCEPT !.dty = TRUE]]
      OBVIOUS
    <3> QED
      BY <1>1, <3>1, <3>2, <3>3
  <2> QED
    BY <1>4, <2>1 DEF MarkDirty
<1>5. CASE ReadHit(a)
  BY <1>2, <1>5 DEF ReadHit
<1>6. CASE ReadMiss(a)
  BY <1>3, <1>6 DEF ReadMiss
<1>7. CASE WriteHit(a)
  BY <1>2, <1>4, <1>7 DEF WriteHit
<1>8. CASE WriteMissAllocate(a)
  <2>1. WriteBack \in BOOLEAN
    BY DEF WriteBack
  <2> QED
    BY <1>3, <1>8, <2>1 DEF WriteMissAllocate
<1>9. CASE WriteMissAround(a)
  BY <1>9 DEF WriteMissAround
<1> QED
  BY <1>5, <1>6, <1>7, <1>8, <1>9 DEF Read, Write

\* The end of a line: the counter wraps instead of leaving its range.
LEMMA EndOfLineType ==
  ASSUME TypeOK, run.active, line < TraceLen, EndOfLine
  PROVE  /\ policy' \in Policies
         /\ memory_accesses' \in 0 .. CtrMod - 1
         /\ run' \in [active : BOOLEAN, first : 0 .. CtrMod - 1,
                      quota : Quotas \cup {0}]
         /\ line' \in 0 .. TraceLen
<1>1. CtrMod \in Nat \ {0} /\ TraceLen \in Nat
  BY CacheAssumption
<1>2. (memory_accesses + 1) % CtrMod \in 0 .. CtrMod - 1
  BY <1>1 DEF TypeOK
<1>3. line + 1 \in 0 .. TraceLen
  BY <1>1 DEF TypeOK
<1>4. PICK b \in BOOLEAN : run' = [run EXCEPT !.active = b]
  BY Zenon DEF EndOfLine
<1> QED
  BY <1>1, <1>2, <1>3, <1>4 DEF TypeOK, EndOfLine

LEMMA StepType == TypeOK /\ [HNext]_hvars => TypeOK'
<1> SUFFICES ASSUME TypeOK, [HNext]_hvars PROVE TypeOK'
  OBVIOUS
<1>1. ASSUME NEW a \in Addresses, Read(a) \/ Write(a),
             run.active, line < TraceLen, EndOfLine
      PROVE  TypeOK'
  <2>1. stat' \in Stats
    BY <1>1, StatType DEF TypeOK, Stats
  <2> QED
    BY <1>1, <2>1, ArrayType, EndOfLineType DEF TypeOK, Stats
<1>2. ASSUME NEW n \in Quotas, StartRun(n)
      PROVE  TypeOK'
  BY <1>2 DEF StartRun, TypeOK
<1>3. CASE EndOfTrace
  BY <1>3 DEF EndOfTrace, TypeOK
<1>4. CASE UNCHANGED hvars
  BY <1>4 DEF hvars, vars, TypeOK
<1> QED
  BY <1>1, <1>2, <1>3, <1>4 DEF HNext, HRead, HWrite, ReadLine, WriteLine

(***************************************************************************)
(* The tag array, the stamps and the counters keep their types: no fill    *)
(* names a way or a tag out of range, and the stamps keep their width.     *)
(***************************************************************************)
THEOREM TypeCorrect == HSpec => []TypeOK
  BY InitType, StepType, PTL DEF HSpec

-----------------------------------------------------------------------------
(* What an access does to the tags and stamps of the lines *)

\* A full set has a line that is the oldest.
LEMMA OldestExists ==
  ASSUME TypeOK, NEW i \in Indices
  PROVE  Oldest(i) # {}
<1> DEFINE Stamps == {tag_dist[w][i] : w \in Ways}
<1>1. \A w \in Ways : tag_dist[w][i] \in Nat
  BY CacheAssumption DEF TypeOK
<1>2. 0 \in Ways
  BY CacheAssumption DEF Ways
<1>3. Stamps \in SUBSET Nat /\ Stamps # {}
  BY <1>1, <1>2
<1>4. PICK m \in Stamps : \A n \in Stamps : m <= n
  BY <1>3, LeastExists
<1>5. PICK w \in Ways : m = tag_dist[w][i]
  BY <1>4
<1>6. w \in Oldest(i)
  BY <1>4, <1>5 DEF Oldest
<1> QED
  BY <1>6

\* A hit renews one stamp, of a line that holds the address, and moves no line.
LEMMA HitStep ==
  ASSUME TypeOK, NEW a \in Addresses, IsHit(a), Read(a) \/ Write(a)
  PROVE  \E h \in Ways :
           /\ tag_arr[h][IndexOf(a)].vld
           /\ tag_arr[h][IndexOf(a)].tag = TagOf(a)
           /\ \A w \in Ways, i \in Indices :
                /\ tag_arr'[w][i].vld <=> tag_arr[w][i].vld
                /\ tag_arr'[w][i].tag = tag_arr[w][i].tag
                /\ tag_dist'[w][i] = IF w = h /\ i = IndexOf(a)
                                     THEN memory_accesses ELSE tag_dist[w][i]
<1> DEFINE h == Lowest(Matching(a))
<1>1. IndexOf(a) \in Indices /\ TagOf(a) \in Tags
  BY AddressTypes
<1>2. h \in Matching(a)
  BY LowestIn DEF IsHit, Matching
<1>3. h \in Ways /\ tag_arr[h][IndexOf(a)].vld
                 /\ tag_arr[h][IndexOf(a)].tag = TagOf(a)
  BY <1>2 DEF Matching
<1>4. ReadHit(a) \/ WriteHit(a)
  BY DEF Read, Write, ReadMiss, WriteMissAllocate, WriteMissAround
<1>5. tag_dist' = [tag_dist EXCEPT ![h][IndexOf(a)] = memory_accesses]
  BY <1>4 DEF ReadHit, WriteHit, Touch
<1>6. UNCHANGED tag_arr \/ MarkDirty(a)
  BY <1>4 DEF ReadHit, WriteHit
<1>7. ASSUME NEW w \in Ways, NEW i \in Indices
      PROVE  /\ tag_arr'[w][i].vld <=> tag_arr[w][i].vld
             /\ tag_arr'[w][i].tag = tag_arr[w][i].tag
  <2>1. tag_arr[w] \in [Indices -> Entry] /\ tag_arr[w][i] \in Entry
    BY DEF TypeOK
  <2>2. CASE UNCHANGED tag_arr
    BY <2>2
  <2>3. CASE MarkDirty(a)
    <3>1. tag_arr'[w][i] = tag_arr[w][i]
            \/ tag_arr'[w][i] = [tag_arr[w][i] EXCEPT !.dty = TRUE]
      BY <1>1, <2>1, <2>3 DEF MarkDirty
    <3> QED
      BY <2>1, <3>1 DEF Entry
  <2> QED
    BY <1>6, <2>2, <2>3
<1>8. ASSUME NEW w \in Ways, NEW i \in Indices
      PROVE  tag_dist'[w][i] = IF w = h /\ i = IndexOf(a)
                               THEN memory_accesses ELSE tag_dist[w][i]
  BY <1>1, <1>3, <1>5 DEF TypeOK
<1> HIDE DEF h
<1> QED
  BY <1>3, <1>7, <1>8

\* A fill takes a free way or, in a full set, the one with the oldest stamp.
LEMMA FillStep ==
  ASSUME TypeOK, NEW a \in Addresses, ReadMiss(a) \/ WriteMissAllocate(a)
  PROVE  \E h \in Ways :
           /\ \/ ~ tag_arr[h][IndexOf(a)].vld
              \/ \A v \in Ways : /\ tag_arr[v][IndexOf(a)].vld
                                 /\ tag_dist[h][IndexOf(a)] <= tag_dist[v][IndexOf(a)]
           /\ \A w \in Ways, i \in Indices :
                IF w = h /\ i = IndexOf(a)
                THEN /\ tag_arr'[w][i].vld
                     /\ tag_arr'[w][i].tag = TagOf(a)
                     /\ tag_dist'[w][i] = memory_accesses
                ELSE /\ tag_arr'[w][i] = tag_arr[w][i]
                     /\ tag_dist'[w][i] = tag_dist[w][i]
<1> DEFINE k == IndexOf(a)
           h == FillWay(k)
<1>1. k \in Indices
  BY AddressTypes
<1>2. /\ h \in Ways
      /\ \/ ~ tag_arr[h][k].vld
         \/ \A v \in Ways : tag_arr[v][k].vld /\ tag_dist[h][k] <= tag_dist[v][k]
  <2>1. CASE Evicts(k)
    <3>1. h \in Oldest(k)
      BY <1>1, <2>1, OldestExists, LowestIn DEF FillWay, Oldest
    <3> QED
      BY <2>1, <3>1 DEF Evicts, Invalid, Oldest
  <2>2. CASE ~ Evicts(k)
    <3>1. h \in Invalid(k)
      BY <2>2, LowestIn DEF FillWay, Evicts, Invalid
    <3> QED
      BY <3>1 DEF Invalid
  <2> QED
    BY <2>1, <2>2
<1>3. PICK e : /\ e.vld /\ e.tag = TagOf(a)
               /\ tag_arr' = [tag_arr EXCEPT ![h][k] = e]
  <2>1. \A d : /\ [vld |-> TRUE, dty |-> d, tag |-> TagOf(a)].vld
               /\ [vld |-> TRUE, dty |-> d, tag |-> TagOf(a)].tag = TagOf(a)
    OBVIOUS
  <2>2. CASE Allocate(a, FALSE)
    BY <2>1, <2>2, Zenon DEF Allocate
  <2>3. CASE Allocate(a, WriteBack)
    BY <2>1, <2>3, Zenon DEF Allocate
  <2> QED
    BY <2>2, <2>3 DEF ReadMiss, WriteMissAllocate
<1>4. tag_dist' = [tag_dist EXCEPT ![h][k] = memory_accesses]
  BY DEF ReadMiss, WriteMissAllocate, Allocate, Touch
<1> HIDE DEF h
<1>5. ASSUME NEW w \in Ways, NEW i \in Indices
      PROVE  IF w = h /\ i = k
             THEN /\ tag_arr'[w][i].vld
                  /\ tag_arr'[w][i].tag = TagOf(a)
                  /\ tag_dist'[w][i] = memory_accesses
             ELSE /\ tag_arr'[w][i] = tag_arr[w][i]
                  /\ tag_dist'[w][i] = tag_dist[w][i]
  BY <1>1, <1>2, <1>3, <1>4 DEF TypeOK
<1> QED
  BY <1>2, <1>5

-----------------------------------------------------------------------------
(* No block is in two ways of its set *)

LEMMA AccessKeepsUnique ==
  ASSUME TypeOK, UniqueTag, NEW a \in Addresses, Read(a) \/ Write(a)
  PROVE  UniqueTag'
<1>1. IndexOf(a) \in Indices
  BY AddressTypes
<1>2. CASE IsHit(a)
  <2>1. \A w \in Ways, i \in Indices :
          /\ tag_arr'[w][i].vld <=> tag_arr[w][i].vld
          /\ tag_arr'[w][i].tag = tag_arr[w][i].tag
    BY <1>2, HitStep
  <2> QED
    BY <2>1 DEF UniqueTag
<1>3. CASE ReadMiss(a) \/ WriteMissAllocate(a)
  <2>1. \A w \in Ways : ~ (/\ tag_arr[w][IndexOf(a)].vld
                           /\ tag_arr[w][IndexOf(a)].tag = TagOf(a))
    BY <1>3 DEF ReadMiss, WriteMissAllocate, IsHit, Matching
  <2>2. PICK h \in Ways : \A w \in Ways, i \in Indices :
          IF w = h /\ i = IndexOf(a)
          THEN tag_arr'[w][i].vld /\ tag_arr'[w][i].tag = TagOf(a)
          ELSE tag_arr'[w][i] = tag_arr[w][i]
    BY <1>3, FillStep
  <2> QED
    BY <2>1, <2>2 DEF UniqueTag
<1>4. CASE WriteMissAround(a)
  BY <1>4 DEF WriteMissAround, UniqueTag
<1> QED
  BY <1>2, <1>3, <1>4 DEF Read, Write, ReadHit, WriteHit

LEMMA StepUnique == TypeOK /\ UniqueTag /\ [HNext]_hvars => UniqueTag'
<1> SUFFICES ASSUME TypeOK, UniqueTag, [HNext]_hvars PROVE UniqueTag'
  OBVIOUS
<1>1. CASE \E a \in Addresses : HRead(a) \/ HWrite(a)
  BY <1>1, AccessKeepsUnique DEF HRead, HWrite, ReadLine, WriteLine
<1>2. CASE \E n \in Quotas : StartRun(n)
  BY <1>2 DEF StartRun, UniqueTag
<1>3. CASE EndOfTrace
  BY <1>3 DEF EndOfTrace, UniqueTag
<1>4. CASE UNCHANGED hvars
  BY <1>4 DEF hvars, vars, UniqueTag
<1> QED
  BY <1>1, <1>2, <1>3, <1>4 DEF HNext

(***************************************************************************)
(* Whatever the trace does and whether or not the access counter wraps,    *)
(* no set ever holds a block in two ways: query_tag_array and evict never  *)
(* have two lines to choose from.                                          *)
(***************************************************************************)
THEOREM OneCopy == HSpec => []UniqueTag
<1>1. HInit => UniqueTag
  BY DEF HInit, Init, UniqueTag
<1> QED
  BY <1>1, StepUnique, TypeCorrect, PTL DEF HSpec

-----------------------------------------------------------------------------
(***************************************************************************)
(* The set is an LRU stack.  LRUStack alone is not inductive: that the     *)
(* next victim is the least recently used block follows from what the time *)
(* stamps mean.  While the counter does not wrap, it is the clock, a valid *)
(* line is stamped with the last use of its block, no two blocks were last *)
(* used at the same time, and a block that was used and has left the cache *)
(* is older than everything in its set.                                    *)
(***************************************************************************)

Clocked == memory_accesses = line

PastUses == /\ lastUse \in [Blocks -> Int]
            /\ \A b \in Blocks : lastUse[b] # Never => lastUse[b] \in 0 .. line - 1

OneAtATime ==
  \A b, c \in Blocks : lastUse[b] # Never /\ lastUse[b] = lastUse[c] => b = c

Stamped ==
  \A w \in Ways, i \in Indices :
    tag_arr[w][i].vld =>
      /\ lastUse[<<i, tag_arr[w][i].tag>>] # Never
      /\ tag_dist[w][i] = lastUse[<<i, tag_arr[w][i].tag>>]

EvictedIsOlder ==
  \A b \in Blocks : lastUse[b] # Never /\ ~ Cached(b) =>
    \A w \in Ways : tag_arr[w][b[1]].vld /\ tag_dist[w][b[1]] > lastUse[b]

LRUInv == /\ TypeOK
          /\ UniqueTag
          /\ Clocked
          /\ PastUses
          /\ OneAtATime
          /\ Stamped
          /\ EvictedIsOlder

LEMMA InitLRU == HInit => LRUInv
<1> SUFFICES ASSUME HInit PROVE LRUInv
  OBVIOUS
<1>1. TypeOK
  BY InitType
<1>2. UniqueTag /\ Stamped
  BY DEF HInit, Init, UniqueTag, Stamped
<1>3. Clocked /\ PastUses /\ OneAtATime /\ EvictedIsOlder
  BY DEF HInit, Init, Clocked, PastUses, OneAtATime, EvictedIsOlder, Never
<1> QED
  BY <1>1, <1>2, <1>3 DEF LRUInv

\* A line that reaches the cache: its block becomes the newest of all.
LEMMA UsedNow ==
  ASSUME LRUInv, NEW a \in Addresses, Used(a), line' = line + 1
  PROVE  /\ BlockOf(a) \in Blocks
         /\ lastUse'[BlockOf(a)] = line
         /\ \A b \in Blocks : b # BlockOf(a) => lastUse'[b] = lastUse[b]
         /\ line # Never
         /\ \A b \in Blocks : lastUse[b] < line
         /\ PastUses' /\ OneAtATime'
<1>1. BlockOf(a) \in Blocks
  BY AddressTypes DEF BlockOf, Blocks
<1>2. line \in Nat /\ line # Never
  BY CacheAssumption DEF LRUInv, TypeOK, Never
<1>3. lastUse' = [lastUse EXCEPT ![BlockOf(a)] = line]
  BY DEF Used
<1>4. \A b \in Blocks : lastUse[b] < line
  BY <1>2 DEF LRUInv, PastUses, Never
<1>5. lastUse' \in [Blocks -> Int]
  BY <1>1, <1>2, <1>3 DEF LRUInv, PastUses
<1>6. /\ lastUse'[BlockOf(a)] = line
      /\ \A b \in Blocks : b # BlockOf(a) => lastUse'[b] = lastUse[b]
  BY <1>1, <1>3 DEF LRUInv, PastUses
<1>7. PastUses'
  <2>1. \A b \in Blocks : lastUse'[b] # Never => lastUse'[b] \in 0 .. line
    BY <1>2, <1>6 DEF LRUInv, PastUses
  <2> QED
    BY <1>2, <1>5, <2>1 DEF PastUses, Never
<1>8. OneAtATime'
  BY <1>1, <1>2, <1>4, <1>6 DEF LRUInv, PastUses, OneAtATime
<1> QED
  BY <1>1, <1>2, <1>4, <1>6, <1>7, <1>8

\* A hit moves its block to the top of the stack.
LEMMA HitKeepsLRU ==
  ASSUME LRUInv, NEW a \in Addresses, IsHit(a), Read(a) \/ Write(a),
         Used(a), line' = line + 1
  PROVE  Stamped' /\ EvictedIsOlder'
<1> DEFINE k == IndexOf(a)
<1> USE DEF LRUInv
<1>1. k \in Indices /\ TagOf(a) \in Tags
  BY AddressTypes
<1>2. PICK h \in Ways :
        /\ tag_arr[h][k].vld
        /\ tag_arr[h][k].tag = TagOf(a)
        /\ \A w \in Ways, i \in Indices :
             /\ tag_arr'[w][i].vld <=> tag_arr[w][i].vld
             /\ tag_arr'[w][i].tag = tag_arr[w][i].tag
             /\ tag_dist'[w][i] = IF w = h /\ i = k
                                  THEN memory_accesses ELSE tag_dist[w][i]
  BY HitStep
<1>3. memory_accesses = line
  BY DEF Clocked
<1>4. /\ lastUse'[BlockOf(a)] = line
      /\ \A b \in Blocks : b # BlockOf(a) => lastUse'[b] = lastUse[b]
      /\ line # Never
      /\ \A b \in Blocks : lastUse[b] < line
  BY UsedNow
<1>5. Stamped'
  <2> SUFFICES ASSUME NEW w \in Ways, NEW i \in Indices, tag_arr'[w][i].vld
               PROVE  /\ lastUse'[<<i, tag_arr'[w][i].tag>>] # Never
                      /\ tag_dist'[w][i] = lastUse'[<<i, tag_arr'[w][i].tag>>]
    BY DEF Stamped
  <2>1. /\ tag_arr[w][i].vld
        /\ tag_arr'[w][i].tag = tag_arr[w][i].tag
        /\ tag_arr[w][i].tag \in Tags
    BY <1>2 DEF TypeOK, Entry
  <2>2. <<i, tag_arr[w][i].tag>> \in Blocks
    BY <2>1 DEF Blocks
  <2>3. CASE w = h /\ i = k
    BY <1>2, <1>3, <1>4, <2>1, <2>3 DEF BlockOf
  <2>4. CASE ~ (w = h /\ i = k)
    <3>1. <<i, tag_arr[w][i].tag>> # BlockOf(a)
      BY <1>1, <1>2, <2>1, <2>4 DEF UniqueTag, BlockOf
    <3> QED
      BY <1>2, <1>4, <2>1, <2>2, <2>4, <3>1 DEF Stamped
  <2> QED
    BY <2>3, <2>4
<1>6. EvictedIsOlder'
  <2> SUFFICES ASSUME NEW b \in Blocks, lastUse'[b] # Never, ~ Cached(b)',
                      NEW w \in Ways
               PROVE  tag_arr'[w][b[1]].vld /\ tag_dist'[w][b[1]] > lastUse'[b]
    BY DEF EvictedIsOlder
  <2>1. b[1] \in Indices
    BY DEF Blocks
  <2>2. ~ Cached(b)
    BY <1>2, <2>1 DEF Cached
  <2>3. b # BlockOf(a)
    BY <1>2, <2>2 DEF Cached, BlockOf
  <2>4. lastUse'[b] = lastUse[b] /\ lastUse[b] < line
    BY <1>4, <2>3
  <2>5. tag_arr[w][b[1]].vld /\ tag_dist[w][b[1]] > lastUse[b]
    BY <2>2, <2>4 DEF EvictedIsOlder
  <2> QED
    BY <1>2, <1>3, <2>1, <2>4, <2>5 DEF TypeOK, PastUses
<1> QED
  BY <1>5, <1>6

\* A fill puts its block on top; the block it drops, if any, was the bottom.
LEMMA FillKeepsLRU ==
  ASSUME LRUInv, NEW a \in Addresses, ReadMiss(a) \/ WriteMissAllocate(a),
         Used(a), line' = line + 1
  PROVE  Stamped' /\ EvictedIsOlder'
<1> DEFINE k == IndexOf(a)
<1> USE DEF LRUInv
<1>1. k \in Indices /\ TagOf(a) \in Tags
  BY AddressTypes
<1>2. PICK h \in Ways :
        /\ \/ ~ tag_arr[h][k].vld
           \/ \A v \in Ways : tag_arr[v][k].vld /\ tag_dist[h][k] <= tag_dist[v][k]
        /\ \A w \in Ways, i \in Indices :
             IF w = h /\ i = k
             THEN /\ tag_arr'[w][i].vld
                  /\ tag_arr'[w][i].tag = TagOf(a)
                  /\ tag_dist'[w][i] = memory_accesses
             ELSE /\ tag_arr'[w][i] = tag_arr[w][i]
                  /\ tag_dist'[w][i] = tag_dist[w][i]
  BY FillStep
<1>3. memory_accesses = line
  BY DEF Clocked
<1>4. /\ lastUse'[BlockOf(a)] = line
      /\ \A b \in Blocks : b # BlockOf(a) => lastUse'[b] = lastUse[b]
      /\ line # Never
      /\ \A b \in Blocks : lastUse[b] < line
  BY UsedNow
<1>5. \A w \in Ways : ~ (tag_arr[w][k].vld /\ tag_arr[w][k].tag = TagOf(a))
  BY DEF ReadMiss, WriteMissAllocate, IsHit, Matching
<1>6. Stamped'
  <2> SUFFICES ASSUME NEW w \in Ways, NEW i \in Indices, tag_arr'[w][i].vld
               PROVE  /\ lastUse'[<<i, tag_arr'[w][i].tag>>] # Never
                      /\ tag_dist'[w][i] = lastUse'[<<i, tag_arr'[w][i].tag>>]
    BY DEF Stamped
  <2>1. CASE w = h /\ i = k
    BY <1>2, <1>3, <1>4, <2>1 DEF BlockOf
  <2>2. CASE ~ (w = h /\ i = k)
    <3>1. /\ tag_arr'[w][i] = tag_arr[w][i]
          /\ tag_dist'[w][i] = tag_dist[w][i]
          /\ tag_arr[w][i].tag \in Tags
      BY <1>2, <2>2 DEF TypeOK, Entry
    <3>2. <<i, tag_arr[w][i].tag>> \in Blocks
      BY <3>1 DEF Blocks
    <3>3. <<i, tag_arr[w][i].tag>> # BlockOf(a)
      BY <1>5, <3>1 DEF BlockOf
    <3> QED
      BY <1>4, <3>1, <3>2, <3>3 DEF Stamped
  <2> QED
    BY <2>1, <2>2
<1>7. EvictedIsOlder'
  <2> SUFFICES ASSUME NEW b \in Blocks, lastUse'[b] # Never, ~ Cached(b)',
                      NEW w \in Ways
               PROVE  tag_arr'[w][b[1]].vld /\ tag_dist'[w][b[1]] > lastUse'[b]
    BY DEF EvictedIsOlder
  <2>1. b[1] \in Indices /\ b[2] \in Tags /\ b = <<b[1], b[2]>>
    BY DEF Blocks
  <2>2. b # BlockOf(a)
    BY <1>1, <1>2 DEF Cached, BlockOf
  <2>3. lastUse'[b] = lastUse[b] /\ lastUse[b] # Never /\ lastUse[b] < line
    BY <1>4, <2>2
  <2>4. CASE ~ Cached(b)
    <3>1. \A v \in Ways : tag_arr[v][b[1]].vld /\ tag_dist[v][b[1]] > lastUse[b]
      BY <2>3, <2>4 DEF EvictedIsOlder
    <3> QED
      BY <1>2, <1>3, <2>1, <2>3, <3>1
  <2>5. CASE Cached(b)
    <3>1. /\ b[1] = k
          /\ tag_arr[h][k].vld
          /\ tag_arr[h][k].tag = b[2]
      BY <1>2, <2>1, <2>5 DEF Cached
    <3>2. \A v \in Ways : tag_arr[v][k].vld /\ tag_dist[h][k] <= tag_dist[v][k]
      BY <1>2, <3>1
    <3>3. tag_dist[h][k] = lastUse[b]
      BY <1>1, <2>1, <3>1 DEF Stamped
    <3>4. CASE w = h
      BY <1>1, <1>2, <1>3, <2>3, <3>1, <3>4
    <3>5. CASE w # h
      <4>1. tag_arr'[w][k] = tag_arr[w][k] /\ tag_dist'[w][k] = tag_dist[w][k]
        BY <1>1, <1>2, <3>5
      <4>2. tag_arr[w][k].tag \in Tags /\ tag_arr[w][k].tag # b[2]
        BY <1>1, <3>1, <3>2, <3>5 DEF UniqueTag, TypeOK, Entry
      <4>3. <<k, tag_arr[w][k].tag>> \in Blocks /\ <<k, tag_arr[w][k].tag>> # b
        BY <1>1, <2>1, <4>2 DEF Blocks
      <4>4. tag_dist[w][k] = lastUse[<<k, tag_arr[w][k].tag>>]
        BY <1>1, <3>2 DEF Stamped
      <4>5. tag_dist[w][k] # lastUse[b]
        BY <2>3, <4>3, <4>4 DEF OneAtATime
      <4>6. tag_dist[w][k] >= lastUse[b] /\ tag_dist[w][k] \in Int /\ lastUse[b] \in Int
        BY <1>1, <3>2, <3>3 DEF TypeOK, PastUses
      <4> QED
        BY <2>3, <3>1, <3>2, <4>1, <4>5, <4>6
    <3> QED
      BY <3>4, <3>5
  <2> QED
    BY <2>4, <2>5
<1> QED
  BY <1>6, <1>7

LEMMA StepLRU == NoWrap /\ LRUInv /\ [HNext]_hvars => LRUInv'
<1> SUFFICES ASSUME NoWrap, LRUInv, [HNext]_hvars PROVE LRUInv'
  OBVIOUS
<1>1. TypeOK' /\ UniqueTag'
  BY StepType, StepUnique DEF LRUInv
<1>2. ASSUME NEW a \in Addresses, line < TraceLen, EndOfLine
      PROVE  Clocked' /\ line' = line + 1
  <2>1. (line + 1) % CtrMod = line + 1
    BY <1>2, CacheAssumption DEF LRUInv, TypeOK, NoWrap
  <2> QED
    BY <1>2, <2>1 DEF LRUInv, Clocked, EndOfLine
<1>3. ASSUME NEW a \in Addresses, Read(a) \/ Write(a), line < TraceLen,
             EndOfLine, Used(a),
             IsHit(a) \/ ReadMiss(a) \/ WriteMissAllocate(a)
      PROVE  LRUInv'
  <2>1. Clocked' /\ PastUses' /\ OneAtATime'
    BY <1>2, <1>3, UsedNow
  <2>2. Stamped' /\ EvictedIsOlder'
    BY <1>2, <1>3, HitKeepsLRU, FillKeepsLRU
  <2> QED
    BY <1>1, <2>1, <2>2 DEF LRUInv
<1>4. ASSUME NEW a \in Addresses, line < TraceLen, EndOfLine,
             UNCHANGED <<tag_arr, tag_dist, lastUse>>
      PROVE  LRUInv'
  <2>1. PastUses'
    BY <1>2, <1>4, CacheAssumption DEF LRUInv, TypeOK, PastUses
  <2>2. OneAtATime' /\ Stamped' /\ EvictedIsOlder'
    BY <1>4 DEF LRUInv, OneAtATime, Stamped, EvictedIsOlder, Cached
  <2> QED
    BY <1>1, <1>2, <1>4, <2>1, <2>2 DEF LRUInv
<1>5. ASSUME UNCHANGED <<tag_arr, tag_dist, memory_accesses, line, lastUse>>
      PROVE  LRUInv'
  BY <1>1, <1>5 DEF LRUInv, Clocked, PastUses, OneAtATime, Stamped,
                    EvictedIsOlder, Cached
<1>6. ASSUME NEW a \in Addresses, HRead(a)
      PROVE  LRUInv'
  BY <1>3, <1>6 DEF HRead, ReadLine, Read, ReadHit
<1>7. ASSUME NEW a \in Addresses, HWrite(a)
      PROVE  LRUInv'
  <2>1. CASE WriteMissAround(a)
    <3>1. /\ line < TraceLen /\ EndOfLine
          /\ UNCHANGED <<tag_arr, tag_dist>>
          /\ ~ IsHit(a) /\ ~ WriteAllocate
      BY <1>7, <2>1 DEF HWrite, WriteLine, WriteMissAround
    <3>2. UNCHANGED lastUse
      BY <1>7, <3>1 DEF HWrite
    <3> QED
      BY <1>4, <3>1, <3>2
  <2>2. CASE WriteHit(a) \/ WriteMissAllocate(a)
    BY <1>3, <1>7, <2>2 DEF HWrite, WriteLine, Write, WriteHit, WriteMissAllocate
  <2> QED
    BY <1>7, <2>1, <2>2 DEF HWrite, WriteLine, Write
<1>8. CASE \E n \in Quotas : StartRun(n) /\ UNCHANGED <<lastUse, lost>>
  BY <1>5, <1>8 DEF StartRun
<1>9. CASE EndOfTrace /\ UNCHANGED <<lastUse, lost>>
  BY <1>5, <1>9 DEF EndOfTrace
<1>10. CASE UNCHANGED hvars
  BY <1>5, <1>10 DEF hvars, vars
<1> QED
  BY <1>6, <1>7, <1>8, <1>9, <1>10 DEF HNext

\* Every block used since b is in the cache, in a way of its own.
LEMMA CachedIsRecent ==
  ASSUME LRUInv, NEW b \in Blocks, Cached(b)
  PROVE  lastUse[b] # Never /\ Cardinality(Newer(b)) < Associativity
<1> USE DEF LRUInv
<1>1. b[1] \in Indices /\ b[2] \in Tags /\ b = <<b[1], b[2]>>
  BY DEF Blocks
<1>2. PICK h \in Ways : /\ tag_arr[h][b[1]].vld
                        /\ tag_arr[h][b[1]].tag = b[2]
  BY DEF Cached
<1>3. lastUse[b] # Never /\ tag_dist[h][b[1]] = lastUse[b]
  BY <1>1, <1>2 DEF Stamped
<1>4. ASSUME NEW c \in Newer(b)
      PROVE  \E w \in Ways \ {h} : /\ tag_arr[w][c[1]].vld
                                   /\ tag_arr[w][c[1]].tag = c[2]
  <2>1. c \in Blocks /\ c[1] = b[1] /\ lastUse[c] > lastUse[b]
    BY DEF Newer
  <2>2. lastUse[c] \in Int /\ lastUse[b] \in Int
    BY <2>1 DEF PastUses
  <2>3. lastUse[c] # Never
    BY <1>3, <2>1, <2>2 DEF PastUses, Never
  <2>4. Cached(c)
    BY <1>2, <1>3, <2>1, <2>2, <2>3 DEF EvictedIsOlder
  <2>5. c[2] # b[2]
    BY <1>1, <2>1, <2>2 DEF Blocks
  <2> QED
    BY <1>2, <2>1, <2>4, <2>5 DEF Cached
<1> DEFINE Way(c) == CHOOSE w \in Ways \ {h} : /\ tag_arr[w][c[1]].vld
                                               /\ tag_arr[w][c[1]].tag = c[2]
           f == [c \in Newer(b) |-> Way(c)]
<1>5. \A c \in Newer(b) : /\ f[c] \in Ways \ {h}
                          /\ tag_arr[f[c]][b[1]].tag = c[2]
  BY <1>4 DEF Newer
<1> HIDE DEF f, Way
<1>6. f \in [Newer(b) -> Ways \ {h}]
  BY <1>5 DEF f
<1>7. f \in Injection(Newer(b), Ways \ {h})
  <2>1. ASSUME NEW c \in Newer(b), NEW d \in Newer(b), f[c] = f[d]
        PROVE  c = d
    BY <1>5, <2>1 DEF Newer, Blocks
  <2> QED
    BY <1>6, <2>1 DEF Injection, IsInjective
<1>8. /\ IsFiniteSet(Ways) /\ Cardinality(Ways) = Associativity
  BY CacheAssumption, FS_Interval DEF Ways
<1>9. /\ IsFiniteSet(Ways \ {h})
      /\ Cardinality(Ways \ {h}) = Associativity - 1
  BY <1>2, <1>8, FS_RemoveElement
<1>10. /\ IsFiniteSet(Newer(b))
       /\ Cardinality(Newer(b)) <= Associativity - 1
  BY <1>7, <1>9, FS_Injection
<1>11. Cardinality(Newer(b)) \in Nat
  BY <1>10, FS_CardinalityType
<1> QED
  BY <1>3, <1>10, <1>11, CacheAssumption

\* A block that has left the cache is older than the block of every way.
LEMMA RecentIsCached ==
  ASSUME LRUInv, NEW b \in Blocks, lastUse[b] # Never, ~ Cached(b)
  PROVE  ~ (Cardinality(Newer(b)) < Associativity)
<1> USE DEF LRUInv
<1> DEFINE k == b[1]
           f == [w \in Ways |-> <<k, tag_arr[w][k].tag>>]
<1>1. k \in Indices
  BY DEF Blocks
<1>2. \A w \in Ways : /\ tag_arr[w][k].vld
                      /\ tag_arr[w][k].tag \in Tags
                      /\ tag_dist[w][k] > lastUse[b]
  BY <1>1 DEF EvictedIsOlder, TypeOK, Entry
<1>3. \A w \in Ways : f[w] \in Newer(b)
  <2> TAKE w \in Ways
  <2>1. <<k, tag_arr[w][k].tag>> \in Blocks
    BY <1>1, <1>2 DEF Blocks
  <2>2. lastUse[<<k, tag_arr[w][k].tag>>] > lastUse[b]
    BY <1>1, <1>2 DEF Stamped
  <2> QED
    BY <2>1, <2>2 DEF Newer
<1>4. \A v, w \in Ways : f[v] = f[w] => v = w
  BY <1>1, <1>2 DEF UniqueTag
<1>5. f \in Injection(Ways, Newer(b))
  BY <1>3, <1>4 DEF Injection, IsInjective
<1> HIDE DEF f
<1>6. IsFiniteSet(Newer(b))
  <2>1. IsFiniteSet(Indices) /\ IsFiniteSet(Tags)
    BY CacheAssumption, FS_Interval DEF Indices, Tags
  <2>2. IsFiniteSet(Blocks)
    BY <2>1, FS_Product DEF Blocks
  <2> QED
    BY <2>2, FS_Subset DEF Newer
<1>7. Cardinality(Ways) = Associativity
  BY CacheAssumption, FS_Interval DEF Ways
<1>8. Associativity <= Cardinality(Newer(b))
  BY <1>5, <1>6, <1>7, FS_Injection
<1>9. Cardinality(Newer(b)) \in Nat /\ Associativity \in Nat
  BY <1>6, FS_CardinalityType, CacheAssumption
<1> QED
  BY <1>8, <1>9

(***************************************************************************)
(* For every geometry, policy and trace shorter than the range of the      *)
(* access counter, the tag array holds exactly the blocks of an LRU stack  *)
(* of each set.  That the trace is shorter is needed: a run of the model   *)
(* in which the counter wraps breaks it.                                   *)
(***************************************************************************)
THEOREM LRUCorrect == NoWrap => (HSpec => []LRUStack)
<1> SUFFICES ASSUME NoWrap PROVE HSpec => []LRUStack
  OBVIOUS
<1>1. LRUInv => LRUStack
  BY CachedIsRecent, RecentIsCached DEF LRUStack
<1>2. LRUInv /\ [HNext]_hvars => LRUInv'
  BY StepLRU
<1> QED
  BY <1>1, <1>2, InitLRU, PTL DEF HSpec

-----------------------------------------------------------------------------
(***************************************************************************)
(* What a user of the cache simulator relies on: run stops in time and no  *)
(* write is lost.                                                          *)
(***************************************************************************)

-----------------------------------------------------------------------------
(* run(n) and the counter that wraps *)

\* The difference of two readings of a counter that wraps.
LEMMA Difference ==
  ASSUME NEW M \in Nat \ {0}, NEW m \in 0 .. M - 1, NEW f \in 0 .. M - 1
  PROVE  (m - f) % M = IF m >= f THEN m - f ELSE m - f + M
  OBVIOUS

\* The counter after one more line.
LEMMA NextReading ==
  ASSUME NEW M \in Nat \ {0}, NEW m \in 0 .. M - 1
  PROVE  (m + 1) % M = IF m + 1 = M THEN 0 ELSE m + 1
  OBVIOUS

\* The end of a line moves the call one line nearer to its quota, or ends it.
LEMMA LineWithinQuota ==
  ASSUME TypeOK, RunWithinQuota, run.active, EndOfLine
  PROVE  RunWithinQuota'
<1> DEFINE next == (memory_accesses + 1) % CtrMod
<1>1. CtrMod \in Nat \ {0} /\ memory_accesses \in 0 .. CtrMod - 1
        /\ run.first \in 0 .. CtrMod - 1 /\ run.quota \in Nat
  <2>1. /\ memory_accesses \in 0 .. CtrMod - 1
        /\ run.first \in 0 .. CtrMod - 1
        /\ run.quota \in Quotas \cup {0}
    BY DEF TypeOK
  <2>2. CtrMod \in Nat \ {0} /\ Quotas \cup {0} \subseteq Nat
    BY CacheAssumption
  <2> QED
    BY <2>1, <2>2, Zenon
<1>2. /\ memory_accesses' = next
      /\ run'.first = run.first /\ run'.quota = run.quota
      /\ run'.active <=> \/ run.quota = 0
                         \/ (next - run.first) % CtrMod # run.quota
  BY DEF EndOfLine, TypeOK
<1>3. SUFFICES ASSUME run.quota # 0, (next - run.first) % CtrMod # run.quota
               PROVE  (next - run.first) % CtrMod < run.quota
  BY <1>2 DEF RunWithinQuota
<1>4. next = IF memory_accesses + 1 = CtrMod THEN 0 ELSE memory_accesses + 1
  BY <1>1, NextReading
<1>5. next \in 0 .. CtrMod - 1
  BY <1>1, <1>4
<1>6. (memory_accesses - run.first) % CtrMod < run.quota
  BY <1>3 DEF RunWithinQuota
<1>7. (memory_accesses - run.first) % CtrMod
        = IF memory_accesses >= run.first THEN memory_accesses - run.first
          ELSE memory_accesses - run.first + CtrMod
  BY <1>1, Difference
<1> HIDE DEF next
<1>8. (next - run.first) % CtrMod
        = IF next >= run.first THEN next - run.first ELSE next - run.first + CtrMod
  BY <1>1, <1>5, Difference
<1> QED
  BY <1>1, <1>3, <1>4, <1>6, <1>7, <1>8

\* No step passes the quota of the call.
LEMMA StepQuota == TypeOK /\ RunWithinQuota /\ [HNext]_hvars => RunWithinQuota'
<1> SUFFICES ASSUME TypeOK, RunWithinQuota, [HNext]_hvars PROVE RunWithinQuota'
  OBVIOUS
<1>1. CASE \E a \in Addresses : HRead(a) \/ HWrite(a)
  BY <1>1, LineWithinQuota DEF HRead, HWrite, ReadLine, WriteLine
<1>2. ASSUME NEW n \in Quotas, StartRun(n)
      PROVE  RunWithinQuota'
  <2>1. memory_accesses' = memory_accesses /\ run'.first = memory_accesses
          /\ run'.quota = n /\ n \in Nat
    BY <1>2, CacheAssumption DEF StartRun
  <2>2. (memory_accesses - memory_accesses) % CtrMod = 0
    BY CacheAssumption, Difference DEF TypeOK
  <2> QED
    BY <2>1, <2>2 DEF RunWithinQuota
<1>3. CASE EndOfTrace
  BY <1>3 DEF EndOfTrace, RunWithinQuota, TypeOK
<1>4. CASE UNCHANGED hvars
  BY <1>4 DEF hvars, vars, RunWithinQuota
<1> QED
  BY <1>1, <1>2, <1>3, <1>4 DEF HNext

(***************************************************************************)
(* A call run(n) that goes on has read fewer than n lines, although it     *)
(* compares two readings of a counter that may wrap between them.          *)
(***************************************************************************)
THEOREM QuotaRespected == HSpec => []RunWithinQuota
<1>1. HInit => RunWithinQuota
  BY DEF HInit, Init, RunWithinQuota
<1> QED
  BY <1>1, StepQuota, TypeCorrect, PTL DEF HSpec

-----------------------------------------------------------------------------
(* No write is lost *)

\* A fill takes one of the ways.
LEMMA FillWayType ==
  ASSUME TypeOK, NEW i \in Indices
  PROVE  FillWay(i) \in Ways
<1>1. Oldest(i) \in SUBSET Ways /\ Oldest(i) # {}
  BY OldestExists DEF Oldest
<1>2. Invalid(i) \in SUBSET Ways
  BY DEF Invalid
<1> QED
  BY <1>1, <1>2, LowestIn DEF FillWay, Evicts

\* A line that is filled when no block is written back was not dirty.
LEMMA FilledWasClean ==
  ASSUME TypeOK, NEW i \in Indices, ~ WritesBack(i)
  PROVE  /\ FillWay(i) \in Ways
         /\ ~ (tag_arr[FillWay(i)][i].vld /\ tag_arr[FillWay(i)][i].dty)
<1>1. CASE Evicts(i)
  <2>1. FillWay(i) \in Oldest(i)
    BY <1>1, OldestExists, LowestIn DEF FillWay, Oldest
  <2> QED
    BY <1>1, <2>1 DEF WritesBack, Oldest
<1>2. CASE ~ Evicts(i)
  <2>1. FillWay(i) \in Invalid(i)
    BY <1>2, LowestIn DEF FillWay, Evicts, Invalid
  <2> QED
    BY <2>1 DEF Invalid
<1> QED
  BY <1>1, <1>2

\* The block that a fill drops, if its way holds one.
Dropped(i) == {b \in Blocks : /\ b[1] = i
                              /\ tag_arr[FillWay(i)][i].vld
                              /\ tag_arr[FillWay(i)][i].tag = b[2]}

\* A fill takes the bit of the dropped block away and gives its own block one if
\* it was written.
LEMMA FillDirty ==
  ASSUME TypeOK, UniqueTag, NEW a \in Addresses, NEW d \in BOOLEAN, Allocate(a, d),
         ~ IsHit(a)
  PROVE  DirtyBlocks' = (DirtyBlocks \ Dropped(IndexOf(a)))
                          \cup (IF d THEN {BlockOf(a)} ELSE {})
<1> DEFINE k == IndexOf(a)
           h == FillWay(k)
           e == [vld |-> TRUE, dty |-> d, tag |-> TagOf(a)]
           D(b) == [vld |-> TRUE, dty |-> TRUE, tag |-> b[2]]
<1>1. k \in Indices /\ TagOf(a) \in Tags
  BY AddressTypes
<1>2. h \in Ways
  BY <1>1, FillWayType
<1>3. tag_arr' = [tag_arr EXCEPT ![h][k] = e]
  BY DEF Allocate
<1>4. \A b : b \in Dropped(k) <=> /\ b \in Blocks /\ b[1] = k
                                /\ tag_arr[h][k].vld /\ tag_arr[h][k].tag = b[2]
  BY DEF Dropped
<1> HIDE DEF h, e
<1>5. /\ tag_arr'[h][k] = e
      /\ \A w \in Ways, i \in Indices :
           ~ (w = h /\ i = k) => tag_arr'[w][i] = tag_arr[w][i]
  BY <1>1, <1>2, <1>3 DEF TypeOK
<1>6. BlockOf(a) \in Blocks /\ BlockOf(a)[1] = k /\ BlockOf(a)[2] = TagOf(a)
  BY <1>1 DEF BlockOf, Blocks
<1>7. e.vld /\ e.dty = d /\ e.tag = TagOf(a)
  BY DEF e
<1>8. ASSUME NEW b \in DirtyBlocks, b \notin Dropped(k)
      PROVE  b \in DirtyBlocks'
  <2>1. PICK w \in Ways : tag_arr[w][b[1]] = D(b)
    BY DEF DirtyBlocks
  <2>2. b \in Blocks /\ b[1] \in Indices
    BY DEF DirtyBlocks, Blocks
  <2>3. ~ (w = h /\ b[1] = k)
    BY <1>4, <1>8, <2>1, <2>2
  <2>4. tag_arr'[w][b[1]] = D(b)
    BY <1>5, <2>1, <2>2, <2>3
  <2> QED
    BY <2>2, <2>4 DEF DirtyBlocks
<1>9. d => BlockOf(a) \in DirtyBlocks'
  <2>1. d => e = D(BlockOf(a))
    BY <1>6 DEF e
  <2> QED
    BY <1>2, <1>5, <1>6, <2>1 DEF DirtyBlocks
<1>10. ASSUME NEW b \in DirtyBlocks'
       PROVE  \/ b \in DirtyBlocks /\ b \notin Dropped(k)
              \/ d /\ b = BlockOf(a)
  <2>1. PICK w \in Ways : tag_arr'[w][b[1]] = D(b)
    BY DEF DirtyBlocks
  <2>2. b \in Blocks /\ b[1] \in Indices /\ b = <<b[1], b[2]>>
    BY DEF DirtyBlocks, Blocks
  <2>3. CASE w = h /\ b[1] = k
    <3>1. e = D(b)
      BY <1>5, <2>1, <2>3
    <3>2. e.dty = TRUE /\ e.tag = b[2]
      BY <3>1
    <3> QED
      BY <1>7, <2>2, <2>3, <3>2 DEF BlockOf
  <2>4. CASE ~ (w = h /\ b[1] = k)
    <3>1. tag_arr[w][b[1]] = D(b)
      BY <1>5, <2>1, <2>2, <2>4
    <3>2. tag_arr[w][b[1]].vld /\ tag_arr[w][b[1]].tag = b[2]
      BY <3>1
    <3>3. b \notin Dropped(k)
      BY <1>2, <1>4, <2>2, <2>4, <3>2 DEF UniqueTag
    <3> QED
      BY <2>2, <3>1, <3>3 DEF DirtyBlocks
  <2> QED
    BY <2>3, <2>4
<1> QED
  BY <1>8, <1>9, <1>10

\* A fill that writes no block back drops no dirty one.
LEMMA DroppedWasClean ==
  ASSUME TypeOK, UniqueTag, NEW i \in Indices, ~ WritesBack(i)
  PROVE  Dropped(i) \cap DirtyBlocks = {}
<1> SUFFICES ASSUME NEW b \in Dropped(i), b \in DirtyBlocks
             PROVE  FALSE
  OBVIOUS
<1>1. /\ b[1] = i
      /\ FillWay(i) \in Ways
      /\ tag_arr[FillWay(i)][i].vld
      /\ tag_arr[FillWay(i)][i].tag = b[2]
      /\ ~ tag_arr[FillWay(i)][i].dty
  BY FilledWasClean DEF Dropped
<1>2. PICK w \in Ways : tag_arr[w][i] = [vld |-> TRUE, dty |-> TRUE, tag |-> b[2]]
  BY <1>1 DEF DirtyBlocks
<1>3. tag_arr[w][i].vld /\ tag_arr[w][i].dty /\ tag_arr[w][i].tag = b[2]
  BY <1>2
<1>4. w = FillWay(i)
  BY <1>1, <1>3 DEF UniqueTag
<1> QED
  BY <1>1, <1>3, <1>4

\* A write hit leaves the dirty blocks dirty and makes its own block dirty.
LEMMA MarkKeepsDirty ==
  ASSUME TypeOK, NEW a \in Addresses, IsHit(a), MarkDirty(a)
  PROVE  DirtyBlocks' = DirtyBlocks \cup {BlockOf(a)}
<1> DEFINE k == IndexOf(a)
           e == [vld |-> TRUE, dty |-> TRUE, tag |-> TagOf(a)]
<1>1. k \in Indices /\ TagOf(a) \in Tags
  BY AddressTypes
<1>2. ASSUME NEW w \in Ways, NEW i \in Indices
      PROVE  /\ tag_arr[w][i] \in Entry
             /\ tag_arr'[w][i] = IF i = k /\ tag_arr[w][k].tag = TagOf(a)
                                 THEN [tag_arr[w][i] EXCEPT !.dty = TRUE]
                                 ELSE tag_arr[w][i]
  <2>1. tag_arr[w] \in [Indices -> Entry] /\ tag_arr[w][i] \in Entry
    BY DEF TypeOK
  <2>2. tag_arr'[w] = IF tag_arr[w][k].tag = TagOf(a)
                      THEN [tag_arr[w] EXCEPT ![k].dty = TRUE] ELSE tag_arr[w]
    BY DEF MarkDirty
  <2> QED
    BY <1>1, <2>1, <2>2
<1>3. PICK h \in Ways : tag_arr[h][k].vld /\ tag_arr[h][k].tag = TagOf(a)
  BY DEF IsHit, Matching
<1>4. BlockOf(a) \in Blocks /\ BlockOf(a)[1] = k /\ BlockOf(a)[2] = TagOf(a)
  BY <1>1 DEF BlockOf, Blocks
<1>5. BlockOf(a) \in DirtyBlocks'
  <2>1. tag_arr[h][k] \in Entry
          /\ tag_arr'[h][k] = [tag_arr[h][k] EXCEPT !.dty = TRUE]
    BY <1>1, <1>2, <1>3
  <2>2. tag_arr'[h][k] = e
    BY <1>3, <2>1 DEF Entry
  <2> QED
    BY <1>4, <2>2 DEF DirtyBlocks
<1>6. ASSUME NEW b \in DirtyBlocks
      PROVE  b \in DirtyBlocks'
  <2>1. PICK w \in Ways : tag_arr[w][b[1]] = [vld |-> TRUE, dty |-> TRUE, tag |-> b[2]]
    BY DEF DirtyBlocks
  <2>2. b \in Blocks /\ b[1] \in Indices
    BY DEF DirtyBlocks, Blocks
  <2>3. tag_arr'[w][b[1]] = tag_arr[w][b[1]]
    BY <1>2, <2>1, <2>2
  <2> QED
    BY <2>1, <2>2, <2>3 DEF DirtyBlocks
<1>7. ASSUME NEW b \in DirtyBlocks', b # BlockOf(a)
      PROVE  b \in DirtyBlocks
  <2>1. PICK w \in Ways : tag_arr'[w][b[1]] = [vld |-> TRUE, dty |-> TRUE, tag |-> b[2]]
    BY DEF DirtyBlocks
  <2>2. b \in Blocks /\ b[1] \in Indices /\ b = <<b[1], b[2]>>
    BY DEF DirtyBlocks, Blocks
  <2>3. tag_arr'[w][b[1]].tag = tag_arr[w][b[1]].tag
    BY <1>2, <2>2 DEF Entry
  <2>4. ~ (b[1] = k /\ tag_arr[w][k].tag = TagOf(a))
    BY <1>7, <2>1, <2>2, <2>3 DEF BlockOf
  <2>5. tag_arr'[w][b[1]] = tag_arr[w][b[1]]
    BY <1>2, <2>2, <2>4
  <2> QED
    BY <2>1, <2>2, <2>5 DEF DirtyBlocks
<1> QED
  BY <1>5, <1>6, <1>7

\* What the accesses store in the counter of memory writes.
LEMMA StatFields ==
  \A p, q, r, s \in Nat : stat \in Stats =>
    /\ [stat EXCEPT !.no_rd = p, !.no_rd_miss = q,
                    !.no_evicts = r, !.no_mem_wr = s].no_mem_wr = s
    /\ [stat EXCEPT !.num_write = p, !.no_mem_wr = q].no_mem_wr = q
    /\ [stat EXCEPT !.num_write = p, !.no_wr_miss = q, !.no_mem_wr = r].no_mem_wr = r
    /\ [stat EXCEPT !.num_write = p, !.no_wr_miss = q,
                    !.no_evicts = r, !.no_mem_wr = s].no_mem_wr = s
  BY DEF Stats

\* A fill that counts no memory write leaves every unsaved block, and the one it
\* writes, in a dirty line.
LEMMA FillLosesNothing ==
  ASSUME TypeOK, UniqueTag, NEW a \in Addresses, NEW d \in BOOLEAN, Allocate(a, d),
         ~ IsHit(a), ~ WritesBack(IndexOf(a))
  PROVE  DirtyBlocks \subseteq DirtyBlocks' /\ (d => BlockOf(a) \in DirtyBlocks')
<1>1. IndexOf(a) \in Indices
  BY AddressTypes
<1>2. DirtyBlocks' = (DirtyBlocks \ Dropped(IndexOf(a)))
                       \cup (IF d THEN {BlockOf(a)} ELSE {})
  BY FillDirty
<1>3. Dropped(IndexOf(a)) \cap DirtyBlocks = {}
  BY <1>1, DroppedWasClean
<1> QED
  BY <1>2, <1>3

\* A read that counts no memory write leaves every unsaved block in a dirty line.
LEMMA ReadLosesNothing ==
  ASSUME TypeOK, UniqueTag, NEW a \in Addresses, Read(a),
         ~ (stat'.no_mem_wr > stat.no_mem_wr)
  PROVE  DirtyBlocks \subseteq DirtyBlocks'
<1>1. CASE ReadHit(a)
  BY <1>1 DEF ReadHit, DirtyBlocks
<1>2. CASE ReadMiss(a)
  <2>1. stat'.no_mem_wr = stat.no_mem_wr + Bit(WritesBack(IndexOf(a)))
    BY <1>2, StatFields DEF ReadMiss, TypeOK
  <2>2. ~ WritesBack(IndexOf(a))
    BY <2>1 DEF TypeOK, Bit
  <2> QED
    BY <1>2, <2>2, FillLosesNothing DEF ReadMiss
<1> QED
  BY <1>1, <1>2 DEF Read

\* So does a write, the block it writes included, except under write-back without
\* allocation.
LEMMA WriteLosesNothing ==
  ASSUME TypeOK, UniqueTag, NEW a \in Addresses, Write(a),
         policy # <<"WRITE_BACK", "NO_WRITE_ALLOCATE">>,
         ~ (stat'.no_mem_wr > stat.no_mem_wr)
  PROVE  DirtyBlocks \cup {BlockOf(a)} \subseteq DirtyBlocks'
<1>1. policy \in {"WRITE_BACK", "WRITE_THROUGH"}
                   \X {"WRITE_ALLOCATE", "NO_WRITE_ALLOCATE"}
  <2>1. policy \in Policies
    BY DEF TypeOK
  <2> QED
    BY <2>1, CacheAssumption, Zenon
<1>2. WriteBack => WriteAllocate
  <2>1. PICK h \in {"WRITE_BACK", "WRITE_THROUGH"},
             m \in {"WRITE_ALLOCATE", "NO_WRITE_ALLOCATE"} : policy = <<h, m>>
    BY <1>1
  <2>2. policy[1] = h /\ policy[2] = m
    BY <2>1
  <2>3. h = "WRITE_BACK" => m = "WRITE_ALLOCATE"
    BY <2>1
  <2> QED
    BY <2>2, <2>3, Zenon DEF WriteBack, WriteAllocate
<1>3. CASE WriteHit(a)
  <2>1. stat'.no_mem_wr = stat.no_mem_wr + Bit(~ WriteBack)
    BY <1>3, StatFields DEF WriteHit, TypeOK
  <2>2. WriteBack
    BY <2>1 DEF TypeOK, Bit
  <2> QED
    BY <1>3, <2>2, MarkKeepsDirty DEF WriteHit
<1>4. CASE WriteMissAllocate(a)
  <2>1. stat'.no_mem_wr = stat.no_mem_wr + Bit(WritesBack(IndexOf(a)))
                                         + Bit(~ WriteBack)
    BY <1>4, StatFields DEF WriteMissAllocate, TypeOK
  <2>2. ~ WritesBack(IndexOf(a)) /\ WriteBack
    BY <2>1 DEF TypeOK, Bit
  <2>3. ~ IsHit(a) /\ Allocate(a, TRUE)
    BY <1>4, <2>2 DEF WriteMissAllocate
  <2> QED
    BY <2>2, <2>3, FillLosesNothing
<1>5. CASE WriteMissAround(a)
  <2>1. stat'.no_mem_wr = stat.no_mem_wr + Bit(~ WriteBack)
    BY <1>5, StatFields DEF WriteMissAround, TypeOK
  <2>2. ~ WriteBack => stat'.no_mem_wr > stat.no_mem_wr
    BY <2>1 DEF TypeOK, Bit
  <2> QED
    BY <1>2, <1>5, <2>2 DEF WriteMissAround
<1> QED
  BY <1>3, <1>4, <1>5 DEF Write

\* Every step keeps the unsaved blocks in dirty lines.
LEMMA StepLost ==
  TypeOK /\ UniqueTag /\ NoLostWrite /\ [HNext]_hvars => NoLostWrite'
<1> SUFFICES ASSUME TypeOK, UniqueTag, NoLostWrite, [HNext]_hvars PROVE NoLostWrite'
  OBVIOUS
<1>1. policy' = policy
  BY DEF HNext, hvars, vars, HRead, HWrite, ReadLine, WriteLine, EndOfLine, StartRun,
         EndOfTrace
<1>2. SUFFICES ASSUME policy # <<"WRITE_BACK", "NO_WRITE_ALLOCATE">>, lost = {}
               PROVE  lost' = {}
  BY <1>1 DEF NoLostWrite
<1>3. ASSUME NEW a \in Addresses, HRead(a)
      PROVE  lost' = {}
  BY <1>2, <1>3, ReadLosesNothing DEF HRead, ReadLine, Loses
<1>4. ASSUME NEW a \in Addresses, HWrite(a)
      PROVE  lost' = {}
  BY <1>2, <1>4, WriteLosesNothing DEF HWrite, WriteLine, Loses
<1> QED
  BY <1>2, <1>3, <1>4 DEF HNext, hvars

(***************************************************************************)
(* Under every policy that keeps or sends on what it is told to write, no  *)
(* write disappears: while memory lacks the newest data of a block, the    *)
(* block stays in a line whose dirty bit is set, through hits, refills of  *)
(* its way and wraps of the counter.                                       *)
(***************************************************************************)
THEOREM NothingLost == HSpec => []NoLostWrite
<1>1. HInit => NoLostWrite
  BY DEF HInit, NoLostWrite
<1> QED
  BY <1>1, StepLost, TypeCorrect, OneCopy, PTL DEF HSpec

-----------------------------------------------------------------------------
(***************************************************************************)
(* The cache simulator implements LRUCache: each access hits, evicts and   *)
(* writes to memory exactly when an LRU cache with the same history does.  *)
(***************************************************************************)

-----------------------------------------------------------------------------
(* Hits *)

\* LRUCache counts with the same operator.
LEMMA SameCount == \A S : Abs!Cardinality(S) = Cardinality(S)
  BY Zenon DEF Abs!Cardinality, Cardinality

\* The ways cache the blocks the ranking says are resident.
LEMMA ResidentIsCached ==
  ASSUME LRUInv, NEW b \in Blocks
  PROVE  Abs!Resident(b) <=> Cached(b)
<1>1. Abs!Newer(b) = Newer(b)
  BY DEF Abs!Newer, Abs!SameSet, Abs!Blocks, Newer, Blocks
<1>2. Abs!Resident(b) <=> lastUse[b] # Never /\ Cardinality(Newer(b)) < Associativity
  <2>1. Abs!Never = Never
    BY DEF Abs!Never, Never
  <2>2. Abs!Cardinality(Abs!Newer(b)) = Cardinality(Newer(b))
    BY <1>1, SameCount
  <2> QED
    BY <2>1, <2>2, Zenon DEF Abs!Resident
<1> QED
  BY <1>2, CachedIsRecent, RecentIsCached

\* An access hits when its block is in one of the ways.
LEMMA HitIsCached ==
  ASSUME TypeOK, NEW a \in Addresses
  PROVE  /\ BlockOf(a) \in Blocks
         /\ IsHit(a) <=> Cached(BlockOf(a))
<1>1. BlockOf(a) \in Blocks /\ BlockOf(a)[1] = IndexOf(a) /\ BlockOf(a)[2] = TagOf(a)
  BY AddressTypes DEF BlockOf, Blocks
<1> QED
  BY <1>1 DEF IsHit, Matching, Cached

-----------------------------------------------------------------------------
(* Victims *)

\* There are Associativity ways.
LEMMA CountWays ==
  /\ IsFiniteSet(Ways) /\ Cardinality(Ways) = Associativity
  /\ Associativity \in Nat
<1>1. Associativity \in Nat \ {0}
  BY CacheAssumption
<1> QED
  BY <1>1, FS_Interval DEF Ways

\* A block is not the oldest of its set when another way is free or older.
LEMMA NotLast ==
  ASSUME LRUInv, NEW b \in Blocks, NEW h \in Ways, NEW g \in Ways, g # h,
         tag_arr[h][b[1]].vld, tag_arr[h][b[1]].tag = b[2],
         tag_arr[g][b[1]].vld => tag_dist[g][b[1]] <= tag_dist[h][b[1]]
  PROVE  Cardinality(Newer(b)) # Associativity - 1
<1> USE DEF LRUInv
<1>1. b[1] \in Indices /\ b[2] \in Tags /\ b = <<b[1], b[2]>>
  BY DEF Blocks
<1>2. lastUse[b] # Never /\ tag_dist[h][b[1]] = lastUse[b]
  BY <1>1 DEF Stamped
<1>3. Cached(b)
  BY DEF Cached
<1> DEFINE Others == Ways \ {h, g}
<1>4. ASSUME NEW c \in Newer(b)
      PROVE  \E w \in Others : /\ tag_arr[w][c[1]].vld
                               /\ tag_arr[w][c[1]].tag = c[2]
  <2>1. c \in Blocks /\ c[1] = b[1] /\ lastUse[c] > lastUse[b] /\ c = <<c[1], c[2]>>
    BY DEF Newer, Blocks
  <2>2. lastUse[c] \in Int /\ lastUse[b] \in Int
    BY <2>1 DEF PastUses
  <2>3. lastUse[c] # Never
    BY <1>2, <2>1, <2>2 DEF PastUses, Never
  <2>4. Cached(c)
    BY <1>2, <2>1, <2>2, <2>3 DEF EvictedIsOlder
  <2>5. PICK w \in Ways : tag_arr[w][c[1]].vld /\ tag_arr[w][c[1]].tag = c[2]
    BY <2>4 DEF Cached
  <2>6. tag_dist[w][b[1]] = lastUse[c]
    BY <1>1, <2>1, <2>5 DEF Stamped
  <2>7. w # h
    BY <1>2, <2>1, <2>2, <2>6
  <2>8. w # g
    BY <1>2, <2>1, <2>2, <2>5, <2>6
  <2> QED
    BY <2>5, <2>7, <2>8
<1> DEFINE Way(c) == CHOOSE w \in Others : /\ tag_arr[w][c[1]].vld
                                           /\ tag_arr[w][c[1]].tag = c[2]
           f == [c \in Newer(b) |-> Way(c)]
<1>5. \A c \in Newer(b) : f[c] \in Others /\ tag_arr[f[c]][b[1]].tag = c[2]
  BY <1>4 DEF Newer
<1> HIDE DEF f, Way
<1>6. f \in [Newer(b) -> Others]
  BY <1>5 DEF f
<1>7. f \in Injection(Newer(b), Others)
  <2>1. ASSUME NEW c \in Newer(b), NEW d \in Newer(b), f[c] = f[d]
        PROVE  c = d
    BY <1>5, <2>1 DEF Newer, Blocks
  <2> QED
    BY <1>6, <2>1 DEF Injection, IsInjective
<1>8. /\ IsFiniteSet(Ways) /\ Cardinality(Ways) = Associativity
      /\ Associativity \in Nat
  BY CountWays
<1>9. IsFiniteSet(Ways \ {h}) /\ Cardinality(Ways \ {h}) = Associativity - 1
  BY <1>8, FS_RemoveElement
<1>10. Others = (Ways \ {h}) \ {g} /\ g \in Ways \ {h}
  OBVIOUS
<1>11. IsFiniteSet(Others) /\ Cardinality(Others) = Associativity - 1 - 1
  BY <1>9, <1>10, FS_RemoveElement
<1> HIDE DEF Others
<1>12. IsFiniteSet(Newer(b)) /\ Cardinality(Newer(b)) <= Associativity - 1 - 1
  BY <1>7, <1>11, FS_Injection
<1>13. Cardinality(Newer(b)) \in Nat
  BY <1>12, FS_CardinalityType
<1> QED
  BY <1>8, <1>12, <1>13

\* A fill takes a free way or, in a full set, the one with the oldest stamp.
LEMMA FillWayChoice ==
  ASSUME TypeOK, NEW k \in Indices
  PROVE  /\ FillWay(k) \in Ways
         /\ tag_arr[FillWay(k)][k].vld <=> Evicts(k)
         /\ \/ ~ tag_arr[FillWay(k)][k].vld
            \/ \A v \in Ways : /\ tag_arr[v][k].vld
                              /\ tag_dist[FillWay(k)][k] <= tag_dist[v][k]
<1>1. CASE Evicts(k)
  <2>1. FillWay(k) \in Oldest(k)
    BY <1>1, OldestExists, LowestIn DEF FillWay, Oldest
  <2> QED
    BY <1>1, <2>1 DEF Evicts, Invalid, Oldest
<1>2. CASE ~ Evicts(k)
  <2>1. FillWay(k) \in Invalid(k)
    BY <1>2, LowestIn DEF FillWay, Evicts, Invalid
  <2> QED
    BY <1>2, <2>1 DEF Invalid
<1> QED
  BY <1>1, <1>2

\* The block of a way of a full set that is as old as any is newer than none.
LEMMA OldestIsLast ==
  ASSUME LRUInv, NEW b \in Blocks, NEW h \in Ways,
         tag_arr[h][b[1]].vld, tag_arr[h][b[1]].tag = b[2],
         \A w \in Ways : /\ tag_arr[w][b[1]].vld
                        /\ tag_dist[h][b[1]] <= tag_dist[w][b[1]]
  PROVE  Cardinality(Newer(b)) = Associativity - 1
<1> USE DEF LRUInv
<1> DEFINE k == b[1]
           f == [w \in Ways \ {h} |-> <<k, tag_arr[w][k].tag>>]
<1>1. k \in Indices /\ b[2] \in Tags /\ b = <<k, b[2]>>
  BY DEF Blocks
<1>2. Cached(b) /\ lastUse[b] # Never /\ tag_dist[h][k] = lastUse[b]
  BY <1>1 DEF Stamped, Cached
<1>3. \A w \in Ways \ {h} : f[w] \in Newer(b)
  <2> TAKE w \in Ways \ {h}
  <2>1. tag_arr[w][k].tag \in Tags /\ tag_arr[w][k].tag # b[2]
    BY <1>1 DEF UniqueTag, TypeOK, Entry
  <2>2. <<k, tag_arr[w][k].tag>> \in Blocks /\ <<k, tag_arr[w][k].tag>> # b
    BY <1>1, <2>1 DEF Blocks
  <2>3. tag_dist[w][k] = lastUse[<<k, tag_arr[w][k].tag>>]
    BY <1>1 DEF Stamped
  <2>4. lastUse[<<k, tag_arr[w][k].tag>>] # lastUse[b]
    BY <1>2, <2>2 DEF OneAtATime
  <2>5. lastUse[<<k, tag_arr[w][k].tag>>] \in Int /\ lastUse[b] \in Int
    BY <2>2 DEF PastUses
  <2>6. lastUse[<<k, tag_arr[w][k].tag>>] > lastUse[b]
    BY <1>2, <2>3, <2>4, <2>5
  <2> QED
    BY <2>2, <2>6 DEF Newer
<1>4. \A v, w \in Ways \ {h} : f[v] = f[w] => v = w
  BY <1>1 DEF UniqueTag
<1>5. f \in Injection(Ways \ {h}, Newer(b))
  BY <1>3, <1>4 DEF Injection, IsInjective
<1> HIDE DEF f
<1>6. IsFiniteSet(Newer(b))
  <2>1. IsFiniteSet(Indices) /\ IsFiniteSet(Tags)
    BY CacheAssumption, FS_Interval DEF Indices, Tags
  <2>2. IsFiniteSet(Blocks)
    BY <2>1, FS_Product DEF Blocks
  <2> QED
    BY <2>2, FS_Subset DEF Newer
<1>7. Cardinality(Ways \ {h}) = Associativity - 1
  BY CountWays, FS_RemoveElement
<1>8. Associativity - 1 <= Cardinality(Newer(b))
  BY <1>5, <1>6, <1>7, FS_Injection
<1>9. Cardinality(Newer(b)) \in Nat
  BY <1>6, FS_CardinalityType
<1>10. Cardinality(Newer(b)) < Associativity
  BY <1>2, CachedIsRecent
<1> QED
  BY <1>8, <1>9, <1>10, CountWays

\* The block that a fill drops is the one LRUCache drops.
LEMMA DroppedIsVictim ==
  ASSUME LRUInv, NEW b \in Blocks
  PROVE  Abs!Victims(b) = Dropped(b[1])
<1> USE DEF LRUInv
<1> DEFINE k == b[1]
           g == FillWay(k)
<1>1. k \in Indices
  BY DEF Blocks
<1>2. /\ g \in Ways
      /\ \/ ~ tag_arr[g][k].vld
         \/ \A v \in Ways : tag_arr[v][k].vld /\ tag_dist[g][k] <= tag_dist[v][k]
  BY <1>1, FillWayChoice
<1>3. \A v : v \in Dropped(k) <=> /\ v \in Blocks /\ v[1] = k
                                /\ tag_arr[g][k].vld /\ tag_arr[g][k].tag = v[2]
  BY DEF Dropped
<1> HIDE DEF g
<1>4. \A v : v \in Abs!Victims(b) <=> /\ v \in Blocks /\ v[1] = k /\ Cached(v)
                                    /\ Cardinality(Newer(v)) = Associativity - 1
  <2>1. \A v \in Blocks : Abs!Newer(v) = Newer(v)
    BY DEF Abs!Newer, Abs!SameSet, Abs!Blocks, Newer, Blocks
  <2>2. \A v \in Blocks : Abs!Cardinality(Abs!Newer(v)) = Cardinality(Newer(v))
    BY <2>1, SameCount
  <2>3. Abs!Blocks = Blocks
    BY DEF Abs!Blocks, Blocks
  <2>4. \A v \in Blocks : Abs!Resident(v) <=> Cached(v)
    BY ResidentIsCached
  <2> QED
    BY <2>2, <2>3, <2>4 DEF Abs!Victims, Abs!Residents, Abs!SameSet
<1>5. ASSUME NEW v \in Abs!Victims(b)
      PROVE  v \in Dropped(k)
  <2>1. v \in Blocks /\ v[1] = k /\ Cached(v) /\ Cardinality(Newer(v)) = Associativity - 1
    BY <1>4
  <2>2. PICK h \in Ways : tag_arr[h][k].vld /\ tag_arr[h][k].tag = v[2]
    BY <2>1 DEF Cached
  <2>3. tag_arr[g][k].vld => tag_dist[g][k] <= tag_dist[h][k]
    BY <1>2
  <2>4. h = g
    BY <1>2, <2>1, <2>2, <2>3, NotLast
  <2> QED
    BY <1>3, <2>1, <2>2, <2>4
<1>6. ASSUME NEW v \in Dropped(k)
      PROVE  v \in Abs!Victims(b)
  <2>1. v \in Blocks /\ v[1] = k /\ tag_arr[g][k].vld /\ tag_arr[g][k].tag = v[2]
    BY <1>3
  <2>2. Cached(v)
    BY <1>2, <2>1 DEF Cached
  <2>3. Cardinality(Newer(v)) = Associativity - 1
    BY <1>2, <2>1, OldestIsLast
  <2> QED
    BY <1>4, <2>1, <2>2, <2>3
<1> QED
  BY <1>5, <1>6

\* A miss counts an eviction, and a write-back, when LRUCache counts one.
LEMMA SameEvictions ==
  ASSUME LRUInv, NEW a \in Addresses
  PROVE  /\ Abs!Victims(BlockOf(a)) = Dropped(IndexOf(a))
         /\ Abs!Count(Abs!Victims(BlockOf(a))) = Bit(Evicts(IndexOf(a)))
         /\ Abs!Count(Abs!Victims(BlockOf(a)) \cap DirtyBlocks)
              = Bit(WritesBack(IndexOf(a)))
<1> USE DEF LRUInv
<1> DEFINE k == IndexOf(a)
           g == FillWay(k)
           v == <<k, tag_arr[g][k].tag>>
<1>1. k \in Indices /\ BlockOf(a) \in Blocks /\ BlockOf(a)[1] = k
  BY AddressTypes DEF BlockOf, Blocks
<1>2. Abs!Victims(BlockOf(a)) = Dropped(k)
  BY <1>1, DroppedIsVictim
<1>3. g \in Ways /\ (tag_arr[g][k].vld <=> Evicts(k))
  BY <1>1, FillWayChoice
<1>4. tag_arr[g][k] \in Entry /\ v \in Blocks /\ v[1] = k /\ v[2] = tag_arr[g][k].tag
  BY <1>1, <1>3 DEF TypeOK, Entry, Blocks
<1>5. Evicts(k) => v \in Dropped(k)
  BY <1>3, <1>4 DEF Dropped
<1>6. ~ Evicts(k) => Dropped(k) = {}
  BY <1>3 DEF Dropped
<1>7. Dropped(k) = {} <=> ~ Evicts(k)
  BY <1>5, <1>6
<1>8. WritesBack(k) => v \in Dropped(k) \cap DirtyBlocks
  <2> SUFFICES ASSUME WritesBack(k) PROVE v \in Dropped(k) \cap DirtyBlocks
    OBVIOUS
  <2>1. Evicts(k) /\ tag_arr[g][k].vld /\ tag_arr[g][k].dty
    BY <1>3 DEF WritesBack
  <2>2. tag_arr[g][k] = [vld |-> TRUE, dty |-> TRUE, tag |-> v[2]]
    BY <1>4, <2>1 DEF Entry
  <2> QED
    BY <1>3, <1>4, <1>5, <2>1, <2>2 DEF DirtyBlocks
<1>9. Dropped(k) \cap DirtyBlocks = {} <=> ~ WritesBack(k)
  BY <1>1, <1>8, DroppedWasClean
<1> QED
  BY <1>2, <1>7, <1>9 DEF Abs!Count, Bit

-----------------------------------------------------------------------------
(* The refinement *)

\* Lines that stay in place keep the dirty blocks.
LEMMA SameDirty == UNCHANGED tag_arr => DirtyBlocks' = DirtyBlocks
  BY DEF DirtyBlocks

\* A read is a read of LRUCache.
LEMMA ReadRefines ==
  ASSUME LRUInv, NEW a \in Addresses, Read(a), Used(a)
  PROVE  Abs!ReadHit(BlockOf(a)) \/ Abs!ReadMiss(BlockOf(a))
<1> DEFINE b == BlockOf(a)
<1>1. /\ b \in Blocks
      /\ IsHit(a) <=> Abs!Resident(b)
  BY HitIsCached, ResidentIsCached DEF LRUInv
<1>2. Abs!Use(b)
  BY DEF Abs!Use, Used
<1>3. CASE ReadHit(a)
  BY <1>1, <1>2, <1>3, SameDirty, Zenon DEF ReadHit, Abs!ReadHit
<1>4. CASE ReadMiss(a)
  <2>1. stat' = [stat EXCEPT !.no_rd = @ + 1, !.no_rd_miss = @ + 1,
                   !.no_evicts = @ + Abs!Count(Abs!Victims(b)),
                   !.no_mem_wr = @ + Abs!Count(Abs!Victims(b) \cap DirtyBlocks)]
    BY <1>4, SameEvictions, Zenon DEF ReadMiss
  <2>2. DirtyBlocks' = DirtyBlocks \ Abs!Victims(b)
    <3>1. DirtyBlocks' = (DirtyBlocks \ Dropped(IndexOf(a)))
                           \cup (IF FALSE THEN {BlockOf(a)} ELSE {})
      BY <1>4, FillDirty DEF ReadMiss, LRUInv
    <3> QED
      BY <3>1, SameEvictions
  <2> QED
    BY <1>1, <1>2, <1>4, <2>1, <2>2, Zenon DEF ReadMiss, Abs!ReadMiss
<1> QED
  BY <1>3, <1>4 DEF Read

\* A write is a write of LRUCache.
LEMMA WriteRefines ==
  ASSUME LRUInv, NEW a \in Addresses, Write(a),
         IF IsHit(a) \/ WriteAllocate THEN Used(a) ELSE UNCHANGED lastUse
  PROVE  Abs!WriteHit(BlockOf(a)) \/ Abs!WriteMiss(BlockOf(a)) \/ Abs!WriteAround(BlockOf(a))
<1> DEFINE b == BlockOf(a)
<1>1. /\ b \in Blocks
      /\ IsHit(a) <=> Abs!Resident(b)
  BY HitIsCached, ResidentIsCached DEF LRUInv
<1>2. Used(a) => Abs!Use(b)
  BY DEF Abs!Use, Used
<1>3. /\ Abs!WriteBack <=> WriteBack
      /\ Abs!WriteAllocate <=> WriteAllocate
      /\ Bit(~ WriteBack) = IF Abs!WriteBack THEN 0 ELSE 1
  BY DEF Abs!WriteBack, WriteBack, Abs!WriteAllocate, WriteAllocate, Bit
<1>4. CASE WriteHit(a)
  <2>1. stat' = [stat EXCEPT !.num_write = @ + 1,
                   !.no_mem_wr = @ + (IF Abs!WriteBack THEN 0 ELSE 1)]
    BY <1>3, <1>4, Zenon DEF WriteHit
  <2>2. DirtyBlocks' = IF Abs!WriteBack THEN DirtyBlocks \cup {b} ELSE DirtyBlocks
    BY <1>3, <1>4, SameDirty, MarkKeepsDirty DEF WriteHit, LRUInv
  <2>3. Abs!Use(b) /\ Abs!Resident(b)
    BY <1>1, <1>2, <1>4 DEF WriteHit
  <2> QED
    BY <2>1, <2>2, <2>3, Zenon DEF Abs!WriteHit
<1>5. CASE WriteMissAllocate(a)
  <2>1. stat' = [stat EXCEPT !.num_write = @ + 1, !.no_wr_miss = @ + 1,
                   !.no_evicts = @ + Abs!Count(Abs!Victims(b)),
                   !.no_mem_wr = @ + Abs!Count(Abs!Victims(b) \cap DirtyBlocks)
                                   + (IF Abs!WriteBack THEN 0 ELSE 1)]
    BY <1>3, <1>5, SameEvictions, Zenon DEF WriteMissAllocate
  <2>2. DirtyBlocks' = (DirtyBlocks \ Abs!Victims(b))
                         \cup (IF Abs!WriteBack THEN {b} ELSE {})
    <3>1. WriteBack \in BOOLEAN
      BY DEF WriteBack
    <3>2. DirtyBlocks' = (DirtyBlocks \ Dropped(IndexOf(a)))
                           \cup (IF WriteBack THEN {BlockOf(a)} ELSE {})
      BY <1>5, <3>1, FillDirty DEF WriteMissAllocate, LRUInv
    <3> QED
      BY <1>3, <3>2, SameEvictions
  <2>3. Abs!Use(b) /\ ~ Abs!Resident(b) /\ Abs!WriteAllocate
    BY <1>1, <1>2, <1>3, <1>5 DEF WriteMissAllocate
  <2> QED
    BY <2>1, <2>2, <2>3, Zenon DEF Abs!WriteMiss
<1>6. CASE WriteMissAround(a)
  <2>1. stat' = [stat EXCEPT !.num_write = @ + 1, !.no_wr_miss = @ + 1,
                   !.no_mem_wr = @ + (IF Abs!WriteBack THEN 0 ELSE 1)]
    BY <1>3, <1>6, Zenon DEF WriteMissAround
  <2>2. ~ Abs!Resident(b) /\ ~ Abs!WriteAllocate /\ UNCHANGED lastUse
    BY <1>1, <1>3, <1>6 DEF WriteMissAround
  <2>3. DirtyBlocks' = DirtyBlocks
    BY <1>6, SameDirty DEF WriteMissAround
  <2> QED
    BY <2>1, <2>2, <2>3, Zenon DEF Abs!WriteAround
<1> QED
  BY <1>4, <1>5, <1>6 DEF Write

\* Each step is a step of LRUCache or changes nothing it shows.
LEMMA StepRefines == LRUInv /\ [HNext]_hvars => [Abs!Next]_(Abs!vars)
<1> SUFFICES ASSUME LRUInv, [HNext]_hvars
             PROVE  Abs!Next \/ UNCHANGED Abs!vars
  OBVIOUS
<1>1. Abs!Blocks = Blocks
  BY DEF Abs!Blocks, Blocks
<1>2. ASSUME NEW a \in Addresses, HRead(a)
      PROVE  Abs!Next
  <2>1. Abs!ReadHit(BlockOf(a)) \/ Abs!ReadMiss(BlockOf(a))
    BY <1>2, ReadRefines DEF HRead, ReadLine
  <2>2. line' = line + 1 /\ policy' = policy
    BY <1>2 DEF HRead, ReadLine, EndOfLine
  <2>3. BlockOf(a) \in Abs!Blocks
    BY <1>1, HitIsCached DEF LRUInv
  <2> QED
    BY <2>1, <2>2, <2>3 DEF Abs!Next, Abs!Access
<1>3. ASSUME NEW a \in Addresses, HWrite(a)
      PROVE  Abs!Next
  <2>1. Abs!WriteHit(BlockOf(a)) \/ Abs!WriteMiss(BlockOf(a))
          \/ Abs!WriteAround(BlockOf(a))
    BY <1>3, WriteRefines DEF HWrite, WriteLine
  <2>2. line' = line + 1 /\ policy' = policy
    BY <1>3 DEF HWrite, WriteLine, EndOfLine
  <2>3. BlockOf(a) \in Abs!Blocks
    BY <1>1, HitIsCached DEF LRUInv
  <2> QED
    BY <2>1, <2>2, <2>3 DEF Abs!Next, Abs!Access
<1>4. ASSUME UNCHANGED <<policy, tag_arr, stat, line, lastUse>>
      PROVE  UNCHANGED Abs!vars
  BY <1>4, SameDirty DEF Abs!vars
<1>5. CASE \E n \in Quotas : StartRun(n) /\ UNCHANGED <<lastUse, lost>>
  BY <1>4, <1>5 DEF StartRun
<1>6. CASE EndOfTrace /\ UNCHANGED <<lastUse, lost>>
  BY <1>4, <1>6 DEF EndOfTrace
<1>7. CASE UNCHANGED hvars
  BY <1>4, <1>7 DEF hvars, vars
<1> QED
  BY <1>2, <1>3, <1>5, <1>6, <1>7 DEF HNext

\* An empty array shows an empty LRUCache.
LEMMA InitRefines == HInit => Abs!Init
<1> SUFFICES ASSUME HInit PROVE Abs!Init
  OBVIOUS
<1>1. DirtyBlocks = {}
  BY DEF HInit, Init, DirtyBlocks, Blocks
<1>2. policy \in {"WRITE_BACK", "WRITE_THROUGH"}
                   \X {"WRITE_ALLOCATE", "NO_WRITE_ALLOCATE"}
  BY CacheAssumption, Zenon DEF HInit, Init
<1>3. lastUse = [b \in Abs!Blocks |-> Abs!Never]
  BY DEF HInit, Abs!Blocks, Blocks, Abs!Never, Never
<1> QED
  BY <1>1, <1>2, <1>3, Zenon DEF HInit, Init, Abs!Init

(***************************************************************************)
(* While the access counter does not wrap, the simulator implements        *)
(* LRUCache, for every geometry, policy and trace: whatever way it picks,  *)
(* each hit, miss, eviction and memory write it counts is one that an LRU  *)
(* cache without ways or time stamps would count.                          *)
(***************************************************************************)
THEOREM LRUImplemented == NoWrap => (HSpec => ImplementsLRU)
<1> SUFFICES ASSUME NoWrap PROVE HSpec => ImplementsLRU
  OBVIOUS
<1>1. LRUInv /\ [HNext]_hvars => LRUInv'
  BY StepLRU
<1> QED
  BY <1>1, InitLRU, InitRefines, StepRefines, PTL DEF HSpec, ImplementsLRU, Abs!Spec
=============================================================================
