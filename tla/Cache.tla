------------------------------- MODULE Cache -------------------------------
(***************************************************************************)
(* The level-1 cache simulator of cache-simulator_l1: a set-associative    *)
(* tag array driven by the lines of a trace file.  The simulator keeps no  *)
(* data, only the tag, valid and dirty bits of each line, the time of its  *)
(* last use and the counters print_statistics reports.                     *)
(*                                                                         *)
(* One step of the model is one line of the trace: the loop body of        *)
(* cache::run with the whole of the read or write it calls.                *)
(***************************************************************************)
EXTENDS Integers, FiniteSets

CONSTANTS
  Associativity,  \* cache_associativity
  LineBytes,      \* 2^blk_width, the bytes of a line
  NumSets,        \* 2^idx_width, the sets an index can name
  NumTags,        \* 2^tag_width, the tags kept after masking
  CtrMod,         \* 2^32: memory_accesses is an unsigned
  Addresses,      \* the addresses a trace may hold
  Policies,       \* the <<write hit, write miss>> policies considered
  Quotas,         \* the arguments run may be called with
  TraceLen        \* the lines of the trace file

ASSUME CacheAssumption ==
  /\ Associativity \in Nat \ {0}
  /\ LineBytes \in Nat \ {0}
  /\ NumSets \in Nat \ {0}
  /\ NumTags \in Nat \ {0}
  /\ CtrMod \in Nat \ {0}
  /\ Addresses \subseteq Nat
  /\ Policies \subseteq {"WRITE_BACK", "WRITE_THROUGH"}
                        \X {"WRITE_ALLOCATE", "NO_WRITE_ALLOCATE"}
  /\ Quotas \subseteq Nat
  /\ TraceLen \in Nat

Ways    == 0 .. Associativity - 1
Indices == 0 .. NumSets - 1
Tags    == 0 .. NumTags - 1
Blocks  == Indices \X Tags

VARIABLES
  policy,           \* <<cache_wr_hit_policy, cache_wr_miss_policy>>
  tag_arr,          \* [way][index]: the valid bit, dirty bit and tag of a line
  tag_dist,         \* [way][index]: memory_accesses at its last use
  memory_accesses,  \* the clock (number_memory_accesses moves with it)
  stat,             \* the counters of print_statistics
  run,              \* the current call of run: [active, first, quota]
  line              \* lines read from the trace stream so far

vars == <<policy, tag_arr, tag_dist, memory_accesses, stat, run, line>>

Entry == [vld : BOOLEAN, dty : BOOLEAN, tag : Tags]

IndexOf(a) == (a \div LineBytes) % NumSets
TagOf(a)   == (a \div (LineBytes * NumSets)) % NumTags

(***************************************************************************)
(* query_tag_array, evict and the search for a way to fill                 *)
(***************************************************************************)

Lowest(S) == CHOOSE w \in S : \A v \in S : w <= v

\* Mutant: the search skips the last way.
MatchingSkipsLast(a) ==
  {w \in Ways \ {Associativity - 1} : /\ tag_arr[w][IndexOf(a)].vld
                                      /\ tag_arr[w][IndexOf(a)].tag = TagOf(a)}

\* The ways that hold address a.
Matching(a) ==
  {w \in Ways : /\ tag_arr[w][IndexOf(a)].vld
                /\ tag_arr[w][IndexOf(a)].tag = TagOf(a)}

IsHit(a) == Matching(a) # {}

Invalid(i) == {w \in Ways : ~ tag_arr[w][i].vld}

Oldest(i) == {w \in Ways : \A v \in Ways : tag_dist[w][i] <= tag_dist[v][i]}

Evicts(i) == Invalid(i) = {}

FillWay(i) == Lowest(IF Evicts(i) THEN Oldest(i) ELSE Invalid(i))

\* Mutant: the dirty bit of way 0 decides.
WritesBackWayZero(i) == Evicts(i) /\ tag_arr[0][i].dty

WritesBack(i) == Evicts(i) /\ tag_arr[FillWay(i)][i].dty

Bit(b) == IF b THEN 1 ELSE 0

(***************************************************************************)
(* read and write                                                          *)
(***************************************************************************)

Touch(w, i) == tag_dist' = [tag_dist EXCEPT ![w][i] = memory_accesses]

\* A miss that brings the line of a into its set.
Allocate(a, dirty) ==
  LET i == IndexOf(a)  w == FillWay(i)
  IN /\ tag_arr' = [tag_arr EXCEPT ![w][i] =
                      [vld |-> TRUE, dty |-> dirty, tag |-> TagOf(a)]]
     /\ Touch(w, i)

\* Mutant: a read that hits does not renew the stamp (FIFO).
ReadHitFIFO(a) ==
  /\ IsHit(a)
  /\ stat' = [stat EXCEPT !.no_rd = @ + 1]
  /\ UNCHANGED <<tag_arr, tag_dist>>

ReadHit(a) ==
  /\ IsHit(a)
  /\ Touch(Lowest(Matching(a)), IndexOf(a))
  /\ stat' = [stat EXCEPT !.no_rd = @ + 1]
  /\ UNCHANGED tag_arr

ReadMiss(a) ==
  /\ ~ IsHit(a)
  /\ Allocate(a, FALSE)
  /\ stat' = [stat EXCEPT !.no_rd = @ + 1,
                          !.no_rd_miss = @ + 1,
                          !.no_evicts = @ + Bit(Evicts(IndexOf(a))),
                          !.no_mem_wr = @ + Bit(WritesBack(IndexOf(a)))]

\* Mutant: the dirty bit of a written line is not set.
MarkDirtyNot(a) == UNCHANGED tag_arr

\* Every way whose tag bits match is marked dirty, valid or not.
MarkDirty(a) ==
  tag_arr' = [w \in Ways |->
                IF tag_arr[w][IndexOf(a)].tag = TagOf(a)
                THEN [tag_arr[w] EXCEPT ![IndexOf(a)].dty = TRUE]
                ELSE tag_arr[w]]

WriteBack     == policy[1] = "WRITE_BACK"
WriteAllocate == policy[2] = "WRITE_ALLOCATE"

WriteHit(a) ==
  /\ IsHit(a)
  /\ Touch(Lowest(Matching(a)), IndexOf(a))
  /\ stat' = [stat EXCEPT !.num_write = @ + 1,
                          !.no_mem_wr = @ + Bit(~ WriteBack)]
  /\ IF WriteBack THEN MarkDirty(a) ELSE UNCHANGED tag_arr

WriteMissAllocate(a) ==
  /\ ~ IsHit(a)
  /\ WriteAllocate
  /\ Allocate(a, WriteBack)
  /\ stat' = [stat EXCEPT !.num_write = @ + 1,
                          !.no_wr_miss = @ + 1,
                          !.no_evicts = @ + Bit(Evicts(IndexOf(a))),
                          !.no_mem_wr = @ + Bit(WritesBack(IndexOf(a)))
                                          + Bit(~ WriteBack)]

WriteMissAround(a) ==
  /\ ~ IsHit(a)
  /\ ~ WriteAllocate
  /\ stat' = [stat EXCEPT !.num_write = @ + 1,
                          !.no_wr_miss = @ + 1,
                          !.no_mem_wr = @ + Bit(~ WriteBack)]
  /\ UNCHANGED <<tag_arr, tag_dist>>

Read(a)  == ReadHit(a) \/ ReadMiss(a)
Write(a) == WriteHit(a) \/ WriteMissAllocate(a) \/ WriteMissAround(a)

(***************************************************************************)
(* run                                                                     *)
(***************************************************************************)

\* run(n) is called; n = 0 asks for the rest of the trace.
StartRun(n) ==
  /\ ~ run.active
  /\ run' = [active |-> TRUE, first |-> memory_accesses, quota |-> n]
  /\ UNCHANGED <<policy, tag_arr, tag_dist, memory_accesses, stat, line>>

\* Mutant: the quota is compared before the counter moves.
EndOfLineLate ==
  LET next == (memory_accesses + 1) % CtrMod
  IN /\ memory_accesses' = next
     /\ line' = line + 1
     /\ run' = [run EXCEPT !.active = run.quota = 0 \/
                  (memory_accesses - run.first) % CtrMod # run.quota]
     /\ UNCHANGED policy

\* Mutant: the counter is wider than its stamps.
EndOfLineWide ==
  LET next == memory_accesses + 1
  IN /\ memory_accesses' = next
     /\ line' = line + 1
     /\ run' = [run EXCEPT !.active =
                  run.quota = 0 \/ (next - run.first) % CtrMod # run.quota]
     /\ UNCHANGED policy

\* The end of the loop body: the counters move and run may return.
EndOfLine ==
  LET next == (memory_accesses + 1) % CtrMod
  IN /\ memory_accesses' = next
     /\ line' = line + 1
     /\ run' = [run EXCEPT !.active =
                  run.quota = 0 \/ (next - run.first) % CtrMod # run.quota]
     /\ UNCHANGED policy

ReadLine(a)  == run.active /\ line < TraceLen /\ Read(a) /\ EndOfLine
WriteLine(a) == run.active /\ line < TraceLen /\ Write(a) /\ EndOfLine

\* getline fails: the trace is exhausted, for this call and for later ones.
EndOfTrace ==
  /\ run.active
  /\ line = TraceLen
  /\ run' = [run EXCEPT !.active = FALSE]
  /\ UNCHANGED <<policy, tag_arr, tag_dist, memory_accesses, stat, line>>

(***************************************************************************)
(* The constructor clears the counters; the tag array it only clears for   *)
(* way 0 (its inner index is never reset), and the other ways are zero     *)
(* because an object of 384 MB is always mapped from fresh pages.          *)
(***************************************************************************)
Init ==
  /\ policy \in Policies
  /\ tag_arr = [w \in Ways |-> [i \in Indices |->
                  [vld |-> FALSE, dty |-> FALSE, tag |-> 0]]]
  /\ tag_dist = [w \in Ways |-> [i \in Indices |-> 0]]
  /\ memory_accesses = 0
  /\ stat = [no_rd |-> 0, no_rd_miss |-> 0, num_write |-> 0,
             no_wr_miss |-> 0, no_evicts |-> 0, no_mem_wr |-> 0]
  /\ run = [active |-> FALSE, first |-> 0, quota |-> 0]
  /\ line = 0

Next ==
  \/ \E n \in Quotas : StartRun(n)
  \/ \E a \in Addresses : ReadLine(a)
  \/ \E a \in Addresses : WriteLine(a)
  \/ EndOfTrace

Spec == Init /\ [][Next]_vars
=============================================================================
