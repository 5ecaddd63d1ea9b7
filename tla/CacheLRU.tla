------------------------------ MODULE CacheLRU ------------------------------
(***************************************************************************)
(* Correctness of the cache simulator.  A history variable records when    *)
(* each block was last used; the properties, and the refinement of         *)
(* LRUCache, say what the tag array has to do with that history.           *)
(***************************************************************************)
EXTENDS Cache

VARIABLES
  lastUse,  \* history: the trace line of the last use of each block
  lost      \* history: blocks with a write that no copy and no memory holds

hvars == <<vars, lastUse, lost>>

Never == -1

BlockOf(a) == <<IndexOf(a), TagOf(a)>>

Used(a) == lastUse' = [lastUse EXCEPT ![BlockOf(a)] = line]

\* The blocks with data that only the cache has.
DirtyBlocks ==
  {b \in Blocks : \E w \in Ways : tag_arr[w][b[1]] =
                    [vld |-> TRUE, dty |-> TRUE, tag |-> b[2]]}

\* A block is lost when the step counts no memory write and leaves the newest
\* data of the block in no dirty line.
Loses(written) ==
  lost' = IF stat'.no_mem_wr > stat.no_mem_wr THEN lost
          ELSE lost \cup ((DirtyBlocks \cup written) \ DirtyBlocks')

HInit == Init /\ lastUse = [b \in Blocks |-> Never] /\ lost = {}

HRead(a) == ReadLine(a) /\ Used(a) /\ Loses({})

HWrite(a) ==
  /\ WriteLine(a)
  /\ IF IsHit(a) \/ WriteAllocate THEN Used(a) ELSE UNCHANGED lastUse
  /\ Loses({BlockOf(a)})

HNext ==
  \/ \E n \in Quotas : StartRun(n) /\ UNCHANGED <<lastUse, lost>>
  \/ \E a \in Addresses : HRead(a)
  \/ \E a \in Addresses : HWrite(a)
  \/ EndOfTrace /\ UNCHANGED <<lastUse, lost>>

HSpec == HInit /\ [][HNext]_hvars

-----------------------------------------------------------------------------

TypeOK ==
  /\ policy \in Policies
  /\ tag_arr \in [Ways -> [Indices -> Entry]]
  /\ tag_dist \in [Ways -> [Indices -> 0 .. CtrMod - 1]]
  /\ memory_accesses \in 0 .. CtrMod - 1
  /\ stat \in [no_rd : Nat, no_rd_miss : Nat, num_write : Nat,
               no_wr_miss : Nat, no_evicts : Nat, no_mem_wr : Nat]
  /\ run \in [active : BOOLEAN, first : 0 .. CtrMod - 1, quota : Quotas \cup {0}]
  /\ line \in 0 .. TraceLen

Cached(b) == \E w \in Ways : /\ tag_arr[w][b[1]].vld
                             /\ tag_arr[w][b[1]].tag = b[2]

Newer(b) == {c \in Blocks : c[1] = b[1] /\ lastUse[c] > lastUse[b]}

(***************************************************************************)
(* The tag array after any number of hits, fills and evictions holds       *)
(* exactly the blocks an LRU stack of each set would: those used after     *)
(* fewer than Associativity others of their set (read, write,              *)
(* query_tag_array and evict together).                                    *)
(***************************************************************************)
LRUStack ==
  \A b \in Blocks : Cached(b) <=> /\ lastUse[b] # Never
                                  /\ Cardinality(Newer(b)) < Associativity

\* No set holds a block twice: a hit is one line, so the stamp it renews and
\* the dirty bit it sets are those of the line that will be evicted.
UniqueTag ==
  \A i \in Indices : \A v, w \in Ways :
    (/\ tag_arr[v][i].vld
     /\ tag_arr[w][i].vld
     /\ tag_arr[v][i].tag = tag_arr[w][i].tag) => v = w

\* Except under write-back without allocation, whose write misses read and
\* write drop uncounted, no write disappears: it is in memory or in a dirty line.
NoLostWrite == policy # <<"WRITE_BACK", "NO_WRITE_ALLOCATE">> => lost = {}

\* run(n) stops after n lines even when the access counter wraps meanwhile.
RunWithinQuota ==
  (run.active /\ run.quota # 0) =>
     (memory_accesses - run.first) % CtrMod < run.quota

-----------------------------------------------------------------------------

Abs == INSTANCE LRUCache WITH clock <- line, unsaved <- DirtyBlocks

(***************************************************************************)
(* The simulator implements LRUCache: every hit, miss, eviction and memory *)
(* write it counts is the one an LRU cache with that history would count.  *)
(***************************************************************************)
ImplementsLRU == Abs!Spec

\* While the counter cannot wrap, time stamps order the uses.
NoWrap == TraceLen < CtrMod
=============================================================================
