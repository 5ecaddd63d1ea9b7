# TLA+ models of the three simulators

The repository holds three architecture simulators written in C++:

* `cache-simulator_l1`: a level-1 cache driven by a trace of reads and writes,
  with a generator of matrix-multiplication traces;
* `mips_pipeline`: a five-stage in-order MIPS pipeline, integer (`sim_pipe.cc`)
  and with floating-point units (`sim_pipe_fp.cc`);
* `tomasulo_with_rob`: an out-of-order processor, Tomasulo's algorithm with a
  reorder buffer (`sim_ooo.cc`).

They do not call each other; the three processors share an assembler
(`load_program`), copied into each. What they share otherwise is a promise: a
simulator must count and compute what the machine it stands for would. A model
here is therefore a detailed machine, translated from the code, next to an
abstract one that says what the component promises: `LRUCache` for the cache,
`MatrixProduct` for the trace generator, `SeqMachine` for the processors.

## Inventory

| component | state | operations | what is hard |
|---|---|---|---|
| cache (`cache.cc`) | tag array with valid and dirty bits, time stamps, access counter, statistics, position in the trace | constructor, `run`, `read`, `write`, `query_tag_array`, `evict`, `print_*` | which line a miss evicts depends on the whole history; the dirty bit must survive until the eviction; the counter that makes the stamps wraps; `run(n)` counts by differences of that counter |
| trace generator (`matrix.cc`) | the variables of a plain and a blocked loop nest, the product | `main`, `multiply`, `block_multiply` | six nested loops must visit every product once, in the order of `k`; block sizes at the limits, or that do not divide the matrix |
| integer pipeline (`sim_pipe.cc`) | registers between the stages, one stall a stage, memory, registers, the latency counter, statistics | `run` = five stages and `checking_Stall`, `reset`, `load_program` | who waits for whom; two waits at once; the bookkeeping of stalls; fetch behind branches; termination |
| floating-point pipeline (`sim_pipe_fp.cc`) | the same with execution units | the same and `init_exec_unit` | instructions leave the units out of order; an instruction in a unit is in no latch; the same memory latch for all units |
| Tomasulo (`sim_ooo.cc`) | registers with tags, memory, reorder buffer, reservation stations, execution units, bypass arrays, marks for the end of the cycle | `init_exec_unit`, `run` = `commit`, `write_result`, `execution`, `issue` and the flush, `reset`, `load_program` | speculation, renaming in a buffer that wraps, load and store bypassing, several instructions finishing at once, marks set in one phase and used in another, termination |
| assembler (`load_program`) | instruction memory, labels, position in the source | two passes, and the clearing by `reset` | labels in front of and behind their jumps, duplicate and unknown; distances below zero in an unsigned; what an earlier program leaves |
| parser of cache traces, reports, drivers | text | | none that a state machine shows |

Nothing runs concurrently in the sense of threads; what interleaves is
instructions in flight. A cycle of a processor is a sequence of phases or stages
over shared structures, and their order, the order of the iterations inside
them, and what is marked now and cleared later decide whether the result is
right.

What makes each component correct:

* cache: the resident blocks of a set are the most recently used ones; no block is
  resident twice; every hit, miss, eviction and memory write counted is the one a
  true LRU cache would count; no written datum disappears; `run(n)` stops after
  `n` lines.
* trace generator: every element of the product takes its `n` products in order,
  each with the right four addresses, and the trace is complete.
* processors: the committed registers and memory are those of executing the
  program one instruction at a time; no instruction is lost or run twice; operands
  come from their producers; buffers, stations and units are neither lost nor
  shared; statistics add up; `run` returns, and where it should.
* assembler: jumps lead to their labels, and the operands are those of the source.

## Modules

| module | models | relation |
|---|---|---|
| `LRUCache` | what the cache promises: blocks ranked by last use, no ways, no stamps | abstract specification |
| `Cache` | `cache.cc` | |
| `CacheLRU` | history variables, properties and the refinement of `LRUCache` | extends `Cache` |
| `CacheProofs` | theorems about `CacheLRU` and their proofs | extends `CacheLRU` |
| `MCCache` | the four policies, for TLC | extends `CacheLRU` |
| `MatrixProduct` | the products of a matrix multiplication and their accesses | abstract specification |
| `MatrixTrace` | `matrix.cc`, properties and the refinement of `MatrixProduct` | |
| `MatrixProofs` | theorems about `MatrixTrace` | extends `MatrixTrace` |
| `MCMatrix` | command lines for TLC | extends `MatrixTrace` |
| `Isa` | words, opcode classes, `alu` | |
| `IsaProofs` | facts about words and `alu` that the proofs share | extends `Isa` |
| `SeqMachine` | what a program means: one instruction a step | abstract specification, extends `Isa` |
| `Tomasulo` | `sim_ooo.cc` | extends `Isa` |
| `TomasuloProps` | properties and the refinement of `SeqMachine` | extends `Tomasulo` |
| `TomasuloProofs` | the reorder buffer is the program order | extends `TomasuloProps` |
| `TomasuloInvariants` | stations, units, tags, the end, types | extends `TomasuloProofs` |
| `MCTomasulo` | programs and machines for TLC | extends `TomasuloProps` |
| `PipeLatch` | latches and stalls of both pipelines | extends `Isa` |
| `IntPipe`, `FpPipe` | `sim_pipe.cc`, `sim_pipe_fp.cc` | extend `PipeLatch` |
| `IntPipeProps`, `FpPipeProps` | properties and the refinements of `SeqMachine` | |
| `IntPipeProofs`, `FpPipeProofs` | theorems about both pipelines | extend `IntPipeProps`, `FpPipeProps` |
| `MCIntPipe`, `MCFpPipe` | set-ups for TLC | extend `IntPipeProps`, `FpPipeProps` |
| `Loader` | `load_program` of the three processors, its properties | extends `PipeLatch` |
| `LoaderProofs`, `MCLoader` | theorems about it; sources for TLC | extend `Loader` |

### The cache

A step is one line of the trace: the loop body of `cache::run` with the `read` or
`write` it calls (`ReadLine`, `WriteLine`), a call of `run` (`StartRun`) or the end
of the file (`EndOfTrace`). `tag_arr` and `tag_dist` are the two arrays of the
class; the bits of a line are a record. An address is cut into index and tag with
division and remainder where the code shifts and masks. `memory_accesses` is
kept modulo `CtrMod` (2^32 in the code). `number_memory_accesses` always equals
it and has no variable of its own. The constructor clears only way 0, because
its inner index is never set back; the object has 384 MB and comes from
fresh zero pages, so `Init` has all ways zero.

`CacheLRU` adds `lastUse`, the trace line at which each block was last brought or
found, and `lost`, the blocks whose newest datum is in no dirty line and was not
counted as a memory write.

### The trace generator

`Main` checks the command line; `Multiply` is an iteration of the plain nest;
`InBlock` and `NextBlock` are one of the blocked nest, inside a block or at its
end. The three share `Body`, the innermost statement. An element of `C` is the
sequence of the `k` it was computed from, so that the order shows; the sums
themselves are left out. `last` is what the latest iteration wrote to the trace.
Blocks that do not divide the matrix are modelled as they are: they reach
`n + block_size - 1` rows, inside the larger array of the program.

### The Tomasulo processor

A cycle of `run` goes through the phases `commit`, `store`, `reclaim`,
`write_result`, `execute`, `issue` and `end`, in the order of the code; where a
loop body reads what an earlier iteration wrote (units when a store commits,
entries in `execution`, the issue width) an iteration is a step, counted by `at`.
Names are those of the code. `SkipCommit` is the test of `count` before `commit`;
`commit` is `CommitNothing`, `CommitStoreStart`, `CommitStoreContinue` with
`StoreUnit` and `StoreUnitOther`, `CommitBranch`, `CommitFp`, `CommitInt`, and
ends with `Reclaim`. `write_result` is `WriteResult`. `execution` is one `Exec...` action for each
branch an entry can take; `Scan` is `load_store_bp`. `issue` is `Issue` or
`IssueStall`, with `Operand1`, `Operand2` for `init_res_stat` and `Captured` for
`tag_updt`. `Flush` and `EndCycle` end the cycle. `Reset` is `reset`, called
between two cycles by a driver that loads another program; `ResetSpec` allows it.

Abstractions: a float is the whole number it holds, so bit casts copy the word and
the rounding of results is left out; words have `WordBits` bits; memory is a function on the
word addresses of interest; a read elsewhere yields `UNDEFINED`. The clock, the
log and the instruction window do not influence the rest and are left out.
`Garbage` stands for what `rb_pick` makes the code read behind the end of the
entries, and is a nondeterministic choice.

The model was compared with the compiled simulator, cycle by cycle, on a hundred
random programs: registers, buffer and stations agreed in 96 of them, and in the
other four the difference came from the way the comparison read the simulator's
output, not from the model. The counterexample of `ooo_stale_bypass`, and those of
`TwoBaseWriters`, `LowAddress`, `OneStore` and the unit order described below, were also reproduced on the compiled simulator.

### The pipelines

Both clocks call the stages from the last to the first (`writeback`, `memory`,
`execute`, `decode`, `fetch`), and a call of a stage is a step with one action for
each way through it: a stage that works, waits, passes a NOP on, or finds EOP.
`checking_Stall` and what the stages assign to the stalls of other stages are part
of these actions. `latch[s]` is what stage `s` works on: the instruction register
and the special-purpose registers that the code keeps in two parallel arrays. The
driver is the environment: it chooses a set-up, calls `run(n)` for an `n` of
`Calls` (a call may stop in the middle of a program and another go on), and
may reset the simulator between two calls.

`FpPipe` adds the units: EXE hands an instruction to a unit, and a unit that is
done hands it to MEM in the last phase of a cycle. The delay counter of MEM and
the hazard type are not initialised by the code; the set-ups range over what they
may hold. `FloatBits` is the precision of a float, 24 in the code: `SWS` and what it
moves to memory take the bit pattern of a register for an integer and convert it
to a float (`sim_pipe_fp.cc:143` and `505`), so that `Narrowed` rounds the pattern to
that many bits. Of the floating-point operations the code
gives operands to some and lets others read none; the model says which, as
the code does, and so do the values that operations leave in the registers.

Both models were compared with the compiled simulators, cycle by cycle: `IntPipe`
on the repository's tests and random programs, `FpPipe` on 700 random programs. The
counterexamples of `TwoProducers`, `FloatStore` and `SameCycle` were reproduced on them.

### The assembler

A step is an iteration of one of the two passes. A source is a sequence of lines
`[label, opcode, par]`: cutting text into words is abstracted to the words it yields.
`Stored` keeps the fields that an opcode does not name, as the code does; `Position`
is `operator[]` of the map of labels, which enters an unknown label with 0.
The three copies of `load_program` differ only in the records around them.

## Runs

| run | question | bounds |
|---|---|---|
| `cache_lru` | `LRUStack`, `ImplementsLRU`: is it LRU, and are the statistics right? | 2 ways, 2 sets, 4 tags, traces of 5 accesses to 4 addresses, all policies, `run(0)` and `run(2)`; the counter does not wrap |
| `cache_wrap` | `UniqueTag`, `NoLostWrite`, `RunWithinQuota`, `TypeOK`: what survives the wrap of the counter? | as above with the counter modulo 3, so that it wraps during a trace and during a call of `run` |
| `matrix` | `ImplementsProduct`, `AccessesInMatrices`, `TraceComplete`, `TypeOK`: do blocks only change the order? | all command lines with `n` up to 4 and block sizes from -1 to 5, and `n` = 6 with blocks of 2 and 3 |
| `ooo_straight` | `TagsPending`, `RegisterTags`, `StationsMatch`, `UnitsHeld`, `ImplementsProgramOrder`, `TypeOK` | 4 entries, 2 stations of a kind; all programs of 5 operations over 4 operations on 2 registers, and all of 4 loads, stores and operations over 7, addresses that alias or not, memory latencies 2 and 3 |
| `ooo_branch` | `RingInOrder`, `RegisterTags`, `NoEarlyEnd`, `ImplementsProgramOrder`, `Terminates` | all programs of 4 instructions over skips and operations, and loops with branches in the body; 2 issued a cycle, 2 latencies of the integer unit |
| `pipe_int` | `PipeInOrder`, `StallsAccounted`, `ImplementsProgramOrder`, `RunReturns`, `TypeOK` | all programs of 4 over 7 instructions within the limits below, memory latencies 0 and 2, `run(0)` and `run(1)` mixed, resets between calls |
| `pipe_fp` | `NoneLost`, `OperandsReady`, `ImplementsRoundedOrder`, `RunReturns`, `TypeOK` | all programs of 4 over 9 instructions, and of 3 with a branch, within the limits below; latencies 0 and 2, resets; registers whose patterns fit `FloatBits` = 4 and one that does not |
| `load` | `JumpsReachLabels`, `OperandsOfSource`, `LoadEnds`, `TypeOK` | all sources of up to 3 lines before EOP over 18 lines, each loaded after a reset that follows any other |
| `ooo_stale_bypass`, `ooo_reset`, `pipe_lost`, `fp_self_update` | disagreements between the code and what its documents say, each violated | the smallest program that shows it |

Why the bounds are enough. A set of two ways with four blocks has every order of
hits, fills, refills and dirty evictions that a history of five accesses can have,
and evictions begin at the third. Five operations in a buffer of four entries wrap
the buffer, fill it, and have two writers in flight for one reader; two stations
of a kind run out; two addresses alias in every combination with the store ready,
written, committing or without its address. A loop that runs twice refills a
buffer that a flush has emptied. Four instructions fill the stages between
fetch and write-back of the integer pipeline, so that every pair of them meets at every distance a
stall can see. The bound of calls that begin (`MaxCycles`) is past the end of every
program of `pipe_int`; in `pipe_fp` it only stops the driver from calling `run`
again at the end. Three lines put a label in front of, on or behind its jump, twice,
or nowhere. `WordBits` = 8 is enough for addresses and register numbers to be
distinct from `UNDEFINED`; the negative distances of backward jumps wrap in it.

What the passing runs leave out, because the simulators depart from
`SeqMachine` there (the next section says how):

* `ooo_straight`: programs in which a store follows two writers of its base
  register (`OneBaseWriter`); `MULT` and `DIV`; all passing runs of this processor
  have more than one instruction, a memory latency above 1, stores at addresses that are
  no register numbers, and the memory unit last.
* `pipe_int`: an instruction with two producers in flight (`OneProducer`), an
  instruction that reads its destination with another writer of it right behind
  (`NoOverwrite`), and a wait in ID while a memory access with latency holds MEM
  (`QuietAccess`). Conditional branches never see their register, so the branch
  of the alphabet is one that is not taken.
* `pipe_fp`: units that are done in one cycle; operations that wait for an
  instruction deep in a unit (`SeenProducer`); operands that the code does not
  wait for (`NoNearOperands`); memory accesses with latency behind operations in units
  (`NoAccessBehind`); a garbage counter with one unit used twice (`OwnUnits`).
  `ImplementsRoundedOrder` is about programs without floating-point operations,
  most of which do not write their result. It is program order but for what `SWS`
  stores: the float nearest to the pattern of the register (`RoundedStore`), which
  is not the pattern itself when that needs more than `FloatBits` bits. That moved
  floats end as in `SeqMachine`, unchanged (`ImplementsProgramOrder`), is false of the
  code: `FloatStore` of `MCFpPipe` shows it. Registers without a value are not stored.

Every property of a passing run is paired with a mutant: an altered definition
(comments `Mutant:` in the modules) under which the run fails.

Fairness is weak fairness of a step the code takes without waiting for anything:
of `Next` in `Tomasulo` (`run(0)` repeats the cycle until `end_of_program`), of the
stages in the pipelines and of the passes in the assembler, of the loops in
`matrix.cc`. The calls of the driver (`run`, `reset`, another source) have no
fairness: it may stop. For the same reason the runs of the pipelines, of the assembler
and of `matrix.cc` do not check deadlock: those systems do stop. The cache has
no liveness property: its caller decides whether to go on.

### Where the code and its documents differ

Runs that find a violation:

* `ooo_stale_bypass`: a value announced to a load that a branch then drops goes
  to the next load in that buffer.
* `ooo_reset`: `reset` of the Tomasulo simulator leaves `count`, `eop`,
  `end_of_program`, the buffer indices, the branch, the units and the bypass arrays;
  the next program is fetched from where the last one was left, and if that one had
  ended, `run(n)` stops after a cycle.
* `pipe_lost`: with memory latency, an instruction that waits in EXE for MEM is
  overwritten by a NOP when the one behind it waits for an operand in ID; if it is
  the producer of that operand, `run` never returns.
* `fp_self_update`: an operation that reads its destination waits for itself.
  `testcase_fp4` does not end.

Others met in the models, with what to try in a configuration to see them:

* Cache: after the counter wraps the newest line has the smallest stamp
  (`cache_lru.cfg` with `CtrMod` = 3). A write hit sets the dirty bit of every way
  with matching tag bits, valid or not, and `print_tag_array` then prints an
  invalid way.
* Trace generator: comments say that the trace goes to standard output; it goes to
  files. Blocks that do not divide `n` run outside the matrices.
* Tomasulo (`MCTomasulo`): `TwoBaseWriters`, the base of a store with two writers in
  flight is looked up by the number of the register that is stored; `LowAddress`, the
  address of a store is taken for a register, and a reader of the register of that
  number waits for the store; `OneStore` with `StoreLatencyOne`, on a memory of latency 1
  the unit that a store takes is freed in the same cycle, the store never commits and
  `run(0)` never returns; `IntMultiply`, `MULT` and `DIV` use the floating-point
  registers. A program of one instruction never ends, since `commit` waits until two
  were fetched. If the memory unit is declared before another one, `StoreUnit`
  and the iterations after it can retire the instruction behind a store as
  if it were the store.
* Integer pipeline (`MCIntPipe`): `TwoProducers`, a RAW stall remembers one register and
  ends with the first of two producers. Conditional branches read no register:
  `BEQZ`, `BGTZ` and `BGEZ` are never taken, `BNEZ`, `BLTZ` and `BLEZ` always.
  Fetch stops only behind `BEQZ`, `BNEZ` and `JUMP`.
* Floating-point pipeline (`MCFpPipe`): `FloatStore`, a stored float is rounded as
  described above (3.14159, the pattern 0x40490FD0, is stored as 0x40491000);
  `SameCycle`, two units done in one cycle overwrite the latch of MEM, and an
  instruction is lost; `UnitReused`, the uninitialised delay counter of MEM
  lets a unit be taken while it works; `AccessBehind`, units count on while MEM waits.
  `reset` leaves instructions in the units. Of the floating-point operations only
  `MULTS` and `LWS` write a register.
* Assembler: a jump to a label that no line bears goes to the start of the program.

Of the recorded outputs of the pipelines, tests 1 to 3 of the integer one are what the
code prints today, and so are the counts of `fp1` and `fp3`; tests 4 to 6 and `fp0`, `fp2`,
`fp4` and `fp5` differ, and `fp0` and `fp4` do not end. The models agree with the code.

## Proofs

Each theorem holds for every value of the constants that the named assumptions
allow (`CacheAssumption`, `ArgumentsAssumption`, `WordBitsAssumption`,
`TomasuloAssumption`, `SourcesAssumption`, `IntPipeAssumption`, `FpPipeAssumption`;
TLC evaluates them on every run of the component). `WordBitsAssumption` also says that
`WordSize` is a number above 1, since the provers know no power of a constant.
What a theorem asks beyond that is written as its hypothesis, by operators of the `...Props`
modules; `TheoremsApply` in `MCTomasulo`, `MCIntPipe` and `MCFpPipe` makes TLC check that the
programs and machines of the runs satisfy those on constants. TLC checked each inductive
invariant on a small instance, with the infinite quantifiers of `Multiple` and `Noted` cut to
finite ones.

Cache, in `CacheProofs`:

* `TypeCorrect`: `HSpec => []TypeOK`. `TypeOK` is inductive. The lemmas: the index and
  tag of an address are in range (`AddressTypes`), a non-empty set of ways has a first
  one (`LowestIn`, from the well-foundedness of the naturals), the statistics stay
  numbers (`StatType`), the arrays keep their shape (`ArrayType`).
* `OneCopy`: `HSpec => []UniqueTag`, even when the counter wraps. `HitStep` and `FillStep`
  say what an access does to the tags and stamps, line by line; a fill happens only
  when no way holds the tag.
* `LRUCorrect`: `NoWrap => (HSpec => []LRUStack)`. `LRUStack` is not inductive: that the
  next eviction is right depends on the stamps. `LRUInv` adds that the counter is
  the clock (`Clocked`), uses are in the past (`PastUses`), no two blocks were used at
  once (`OneAtATime`), a valid line carries the last use of its block (`Stamped`), and
  a block that was used and has left its set is older than every line in it
  (`EvictedIsOlder`). A fill keeps the last part because the oldest stamp is then the
  oldest block, strictly, by `OneAtATime` and `UniqueTag`. `LRUInv` implies
  `LRUStack` by counting: the blocks newer than a resident one inject into the other ways
  (`CachedIsRecent`), and the ways inject into the blocks newer than one that has left
  (`RecentIsCached`). `NoWrap` (`TraceLen < CtrMod`) is necessary: with `CtrMod` = 3 TLC
  finds a counterexample.

Also there, with or without the wrap of the counter:

* `QuotaRespected`: `HSpec => []RunWithinQuota`. The difference of two readings of a
  counter modulo `CtrMod` grows by one a line (`NextReading`, `Difference`).
* `NothingLost`: `HSpec => []NoLostWrite`. A fill takes the place of a clean line, or of a dirty
  one that `evict` has counted (`FilledWasClean`, `DroppedWasClean`).

And the abstract specification:

* `LRUImplemented`: `NoWrap => (HSpec => ImplementsLRU)`: each line of the trace is a step of
  `LRUCache`, statistics included. On top of `LRUInv`: a hit here is a hit there
  (`HitIsCached`), and the block a fill drops is the one with the most newer ones
  (`OldestIsLast`, `DroppedIsVictim`), so that it is counted there if and only if it is here
  (`SameEvictions`).

Trace generator, in `MatrixProofs`, for all command lines:

* `TypeCorrect`, `AccessesCorrect` (`AccessesInMatrices`) and `ProductImplemented`
  (`ImplementsProduct`). `Iteration` is one iteration of either nest, the plain one being
  a blocked one with a single tile (`MultiplyIterates`, `BlockIterates`). `IInv` says
  where the loops stand (`Tiling`: block indices are multiples of the tile and less than `n`,
  the others inside their block) and how many products each element has taken then,
  as a function of the six indices (`Counted`). `Counted` is what the refinement needs: the
  `k` of the next iteration is the number of products taken. It uses that the tiles
  divide `n` (`Even`); an unsigned `n * n * 4` does not wrap for arrays a program can have.

Assembler, in `LoaderProofs`, for all sources whose lines are well formed and fit:

* `TypeCorrect`, `JumpsCorrect` (`JumpsReachLabels`), `OperandsCorrect` (`OperandsOfSource`).
  `IInv` is `Progress` (where the passes stand), `Noted` (each label noted so far is the last line that
  bears it) and `Translation` (every cell is blank, or the translation of its line, with the distance if
  the second pass was there). The distance takes arithmetic modulo the size of a word:
  `AddRemainder` from the uniqueness of remainders.

Tomasulo, in `TomasuloProofs`, for every machine and program whose addresses are below `UNDEFINED`:

* `RingCorrect`: `MemoryUnitLast => (Spec => []RingInOrder)`. `RingInOrder` counts the
  live entries, which is not inductive; `Ring(n)` says that the `n` slots from the head hold the
  `n` instructions before `count`, and that the entry retired in this cycle lies in front of the head.
  `RingKept`, `RingRetire`, `RingIssue`, `RingCleared` are the things that may happen to it; `LiveCount`
  maps the ring to the live entries by a bijection. Three facts about the rest are needed:
  a result is never ready in an empty entry (`NothingReady`), so that commit retires an instruction; a branch
  computes an address (`BranchResults`), where fetch goes on after a flush; and a store takes a
  memory unit only (`StoresInMemoryUnit`), so that with no unit behind the memory units
  (`MemoryUnitLast`, which all drivers respect) the loop that commits a store ends with its unit. The assumption is
  necessary, as said above. From the commit of a taken branch to its flush only
  what the flush keeps is claimed. Each action has a lemma; those of `execution` share `WorkKeeps`,
  `BypassKeeps` and `NextSlotKeeps`.

Tomasulo, in `TomasuloInvariants`, on top of the same invariant. All are about machines
with `MemoryUnitLast`; each adds a layer and proves only what its actions disturb:

* `StationsCorrect` (`StationsMatch`). `StationsInv`: an entry that has yet to execute has a station
  (`WaitsInStation`), a station holds a live entry (`StationHoldsLive`), no instruction has two (`NoneTwice`),
  the entry retired in this cycle is older than all that live (`RetiredOlder`), and no station is marked to be
  cleared before results are written (`ClearedLater`), so that the marks of one cycle never
  clear what the next one has issued.
* `RegisterTagsCorrect` (`RegisterTags`). `RegistersInv`: a tag names the youngest live writer of its register, counted
  back from the head. Commit removes the oldest writer, issue adds a youngest one, a flush removes all.
* `UnitsCorrect` (`UnitsHeld`). `UnitsInv`: no two units serve one instruction (`UnitsApart`), a unit in
  use serves a live instruction or the one just retired (`UnitsServe`), it has no work left once that
  has its result (`UnitsDone`), and the unit of the last store is released by the commit of the next cycle and
  not taken before (`LastStore`).
* `EndCorrect` (`NoEarlyEnd`), if the program's operations have stations and the buffer has two entries
  (`CanIssue`). With one entry the property is false: after a flush `eop` is still set, and
  the retired branch still fills the buffer. `EndInv` says for each phase when an empty buffer means the end.
* `TagsCorrect` (`TagsPending`), if operations name registers (`SourcesNamed`) and in the behaviours in which
  issue finds the base of a store (`[]BaseFound`): when two entries write that base, issue looks it up
  by the number of the other source (`sim_ooo.cc:1158`), and without a writer of that one it reads
  behind the end of the entries. `TagsInv`: a station that waits names an older live entry that has not announced.
* `TypesCorrect` (`TypeOK`), if registers and memory start with words and latencies are at least 1 (`WordsGiven`):
  with 0, the cycles a unit is busy wrap below zero (`sim_ooo.cc:1387`).

Integer pipeline, in `IntPipeProofs`, for programs (`ProgramsGiven`) whose addresses fit a register
(`AddressesFit`):

* `OrderCorrect` (`PipeInOrder`), under `KeepOrder`: no branch is taken (`StraightLine`; conditional branches read
  `UNDEFINED`, `sim_pipe.cc:467`), and if memory has latency, nothing waits for an operand in ID while an
  access is in MEM (`QuietAccess`, `:434`) and no instruction that reads its destination has another writer of
  it among the next two (`NoOverwrite`, `:643`). Without the latter two, instructions are lost (`pipe_lost`).
  `PipeInOrder` is about the time between cycles. `Ordered` says it at every stage call: what is `Live` in
  WB, MEM, EXE and ID, a stage counting only until the stage behind has taken its instruction over, is a
  run of consecutive instructions that ends at `pc`. It needs who waits (`Waits`: MEM for an access only, EXE for MEM),
  that no branch is taken (`NotTaken`), where EOP is (`EndSeen`), that ID waits for an instruction in flight (`IdStall`), and that ID and EXE
  never wait at once over an instruction (`NoClash`).
* `CyclesAccounted` (`StallsAccounted`), if moreover `NoOverwrite` holds for all, in behaviours whose counters are
  below the model's bound (`Uncapped`) and whose driver does not run past the end (`StopsAtEnd`; `run(n)` would go on
  counting). `CountInv` follows the cycles through the stages: every NOP in a latch is a counted stall or part of the
  filling (`Accounted`), a stall is counted once though several stages see it (`Put`), and behind EOP there is only EOP (`Tail`).
* `TypesCorrect` (`TypeOK`), if registers and memory start with words.
* `OrderImplemented` (`ImplementsProgramOrder`): the registers and the memory change as in `SeqMachine`, resets
  included, under `KeepValues`, which adds to `KeepOrder` and `NoOverwrite` that an instruction waits for one
  other at most (`OneProducer`, `sim_pipe.cc:612`), and `RegistersRead` (programs of the instructions this
  pipeline has, naming registers there are). It is about behaviours in which the conditional branches, which the code
  does not take, are not to be taken by what their register holds in WB (`NoneTaken`).
  `ValuesInv` is proved on top of `FlowInv`: ID waits, with the register it waits for, while what it
  depends on is in flight (`Awaiting`); nothing that has left ID depends on anything before it (`Ready`); so the operands in
  EXE, the result in MEM and the result or the loaded word in WB are those that the register file and the memory of this moment
  give (`OperandsRead`, `Computed`, `Obtained`), and stay so when an older instruction writes. A store takes effect in
  MEM and everything else in WB: `Retired` in the refinement counts a store one stage early, which is in order
  since WB is called before MEM in each cycle.

Floating-point pipeline, in `FpPipeProofs`, for tables of units as `init_exec_unit` builds them
(`UnitsGiven`):

* `TypesCorrect` (`TypeOK`): for every program and table. `Table` bounds the time a unit is busy by its delay.
* `NothingLost` (`NoneLost`), under `KeepInstructions`: the uninitialised counter and hazard type of MEM do not look like
  an access or a `WAW` stall and no branch is taken (`CleanStart`), and there is one unit of each type:
  `get_free_unit` (`sim_pipe_fp.cc:183`) takes the first that is not busy, even if its result has yet to leave, so that two
  units of a type can be needed for what the code gives to one. It is about behaviours in which no two units are done
  at once (`OneDone`) and resets come at the end (`ResetsAtEnd`); `SameCycle` and `AccessBehind` in `MCFpPipe` violate
  `OneDone`, and lose an instruction. The invariant counts (`CountInv`): what fetch has passed is what has
  retired, what is in a latch, and what is in a unit. That a step moves one instruction from one of these to another
  needs that the instruction in EXE finds an empty unit (`Place`, from `Gone` and `NoTwins`: nothing done is left in a
  unit when ID looks for one), and that accesses, branches and EOP keep their places (`Calm`).
* `OperandsCorrect` (`OperandsReady`), under `KeepOperands`, for any number of units of a type. `SeenOperands` is what
  `checking_Stall` can see: an operation waits for one register, written by a load or by the operation
  right before it, and does not read its own destination. It also says that a later writer of what an
  instruction in WB read is not what another one waits for, because the code checks WB too and takes that writer
  for a producer. Integer units must be done at once, since a load in a unit is seen by nobody. The
  invariant: ID and EXE hold the last instructions fetched (`Front`), the other places hold different
  earlier ones, none awaiting an earlier one (`Apart`, instructions leave the units in any order but not
  past what they wait for), loads are not in units (`NoLoads`), ID waits for whatever it awaits (`Waits`), and
  EXE awaits nothing (`Ready`). `IfStall` and `Last` say where fetch finds the instruction before: what ID will wait for
  is decided when an instruction is fetched.

Only model-checked: the refinements of `SeqMachine` by Tomasulo (`ImplementsProgramOrder`) and,
up to rounded stores, by the floating-point pipeline (`ImplementsRoundedOrder`), whose values need invariants of their own; liveness (`Terminates`, `RunReturns`, `TraceComplete`, `LoadEnds`), which is
out of the prover's reach, as is that the recursive `Bitwise` of `Isa` computes the bits
(`BitwiseGivesWords` is a hypothesis of the theorems on types, which TLC evaluates).

## Not modelled

* All processors: `JUMP`, and `SW` of the Tomasulo simulator, index the register file
  with `UNDEFINED`; fractions, and the rounding of the results of operations (that of stores
  is in `FpPipe`).
* Tomasulo: machines with more than ten entries or stations, which overrun
  the bypass arrays; integer division by zero, which stops the simulator; members the
  constructor does not set are taken as zero, as in every driver, which creates
  its simulator first.
* Pipelines: programs of more than `PROGRAM_SIZE` instructions, behind which fetch reads out of bounds
  by one; a `hazard_type` that is `WAW` from the start, which would block the units.
* Assembler: blank lines and unknown opcodes, on which the code has undefined behaviour.
* Trace generator: the stack that its arrays overflow for large `n`.
* The parsing of trace lines, the reports and the drivers: conversions between
  text and the state above, or one configuration each.

## Plan

What is left, in order of importance:

1. The refinements of `SeqMachine` that are left: `FpPipe` without floating-point operations
   (`ImplementsRoundedOrder`), along the lines of `ValuesInv` with the units as places of their own, then Tomasulo on top of `Ring` and
   `TagsInv`, where a tag stands for the value its instruction will announce.
2. Larger machines for `pipe_fp`, with several units of a kind.
