------------------------------ MODULE LRUCache ------------------------------
(***************************************************************************)
(* What the cache simulator promises, without ways or time stamps: the     *)
(* blocks of a set are ranked by their last use, the first Associativity   *)
(* of them are cached, and a miss into a full set drops the last of those, *)
(* which is written to memory when memory lacks its newest data.           *)
(***************************************************************************)
EXTENDS Integers, FiniteSets

CONSTANTS
  Associativity,  \* the blocks a set can hold
  Indices,        \* the sets
  Tags            \* the blocks of a set

Blocks == Indices \X Tags
Never  == -1

VARIABLES
  policy,   \* <<write hit, write miss>>
  clock,    \* the accesses so far
  lastUse,  \* when each block was last brought or found in the cache
  unsaved,  \* the blocks whose newest data memory does not have
  stat      \* the statistics

vars == <<policy, clock, lastUse, unsaved, stat>>

SameSet(b)   == {c \in Blocks : c[1] = b[1]}
Newer(b)     == {c \in SameSet(b) : lastUse[c] > lastUse[b]}
Resident(b)  == lastUse[b] # Never /\ Cardinality(Newer(b)) < Associativity
Residents(b) == {c \in SameSet(b) : Resident(c)}

\* The block a miss on b drops, if its set is full.
Victims(b) ==
  {v \in Residents(b) : Cardinality(Newer(v)) = Associativity - 1}

Count(S) == IF S = {} THEN 0 ELSE 1

WriteBack     == policy[1] = "WRITE_BACK"
WriteAllocate == policy[2] = "WRITE_ALLOCATE"

Use(b) == lastUse' = [lastUse EXCEPT ![b] = clock]

ReadHit(b) ==
  /\ Resident(b)
  /\ Use(b)
  /\ stat' = [stat EXCEPT !.no_rd = @ + 1]
  /\ UNCHANGED unsaved

ReadMiss(b) ==
  /\ ~ Resident(b)
  /\ Use(b)
  /\ stat' = [stat EXCEPT !.no_rd = @ + 1, !.no_rd_miss = @ + 1,
                          !.no_evicts = @ + Count(Victims(b)),
                          !.no_mem_wr = @ + Count(Victims(b) \cap unsaved)]
  /\ unsaved' = unsaved \ Victims(b)

WriteHit(b) ==
  /\ Resident(b)
  /\ Use(b)
  /\ stat' = [stat EXCEPT !.num_write = @ + 1,
                          !.no_mem_wr = @ + (IF WriteBack THEN 0 ELSE 1)]
  /\ unsaved' = IF WriteBack THEN unsaved \cup {b} ELSE unsaved

WriteMiss(b) ==
  /\ ~ Resident(b)
  /\ WriteAllocate
  /\ Use(b)
  /\ stat' = [stat EXCEPT !.num_write = @ + 1, !.no_wr_miss = @ + 1,
                          !.no_evicts = @ + Count(Victims(b)),
                          !.no_mem_wr = @ + Count(Victims(b) \cap unsaved)
                                          + (IF WriteBack THEN 0 ELSE 1)]
  /\ unsaved' = (unsaved \ Victims(b)) \cup (IF WriteBack THEN {b} ELSE {})

\* A write that misses and does not allocate passes the cache by.
WriteAround(b) ==
  /\ ~ Resident(b)
  /\ ~ WriteAllocate
  /\ stat' = [stat EXCEPT !.num_write = @ + 1, !.no_wr_miss = @ + 1,
                          !.no_mem_wr = @ + (IF WriteBack THEN 0 ELSE 1)]
  /\ UNCHANGED <<lastUse, unsaved>>

Access(b) ==
  /\ ReadHit(b) \/ ReadMiss(b) \/ WriteHit(b) \/ WriteMiss(b) \/ WriteAround(b)
  /\ clock' = clock + 1
  /\ UNCHANGED policy

Init ==
  /\ policy \in {"WRITE_BACK", "WRITE_THROUGH"}
                  \X {"WRITE_ALLOCATE", "NO_WRITE_ALLOCATE"}
  /\ clock = 0
  /\ lastUse = [b \in Blocks |-> Never]
  /\ unsaved = {}
  /\ stat = [no_rd |-> 0, no_rd_miss |-> 0, num_write |-> 0,
             no_wr_miss |-> 0, no_evicts |-> 0, no_mem_wr |-> 0]

Next == \E b \in Blocks : Access(b)

Spec == Init /\ [][Next]_vars
=============================================================================
