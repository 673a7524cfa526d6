# TLA+ verification of the nilpotent-butterfly kernels

The repository benchmarks one layer of a structured linear map on GPUs: a
strided block-diagonal matrix product (BDMM), followed by a set of plane
(Givens) rotations along the cycles of a butterfly permutation, twice. The
program is a set of CUDA kernels, the host functions that launch them, the
Python that builds the rotation tables, and the scripts that time it all.

This directory holds TLA+ models of the parts that carry logic, TLC
configurations that check them on small instances, and TLAPS proofs of the
parts the rest builds on. Paths below are relative to `src/`.

Contents: [1 Inventory](#1-inventory) · [2 Modules](#2-modules-and-the-code) ·
[3 Runs](#3-runs-bounds-and-what-they-show) · [4 Fairness](#4-fairness) ·
[5 Proofs](#5-proofs) · [6 Disagreements](#6-where-code-and-documentation-disagree) ·
[7 Not modelled](#7-what-is-not-modelled) · [8 Plan](#8-plan)

## 1 Inventory

### Data that the parts share

* `data`, `Yt`: a feature-major fp16 matrix (features, M). Column m of feature
  f is element `f*M + m`. Every rotation kernel works on it in place, except
  `rot_cycle_fixed_io`, which writes a slab of another matrix.
* `cyc_feat`, and the coefficient tables: per cycle of 11 features, the
  features by position, and 5 tau and 5 rho rotations.
* `X`, `W`, `Y`: input, block weights and output of BDMM.

### Parts

| part | state it keeps | operations | hard behaviour | what makes it correct |
|---|---|---|---|---|
| `givens_perm.py`: `perm1`, `cycles_of`, `two_matchings` | `seen`, the list being walked, the cycles; `tau`, `sig` | walk all cycles; reflect each twice | a walk stops at *any* seen coordinate; index arithmetic modulo the length, for lengths 1 and 2 too | lists are exactly the cycles; tau and sig are involutions; sig after tau is the permutation |
| `givens_perm.py`: `solve_orientations` | a union-find forest with parities and a ground node | `find` with path compression, `union`, one demand per coordinate | compression must recompute parities; roots change; contradictions | the forest says what was demanded, no more and no less; raises iff impossible; no sign is left |
| `colmajor_setup.py`: `build_planes`, `build_stage` | planes, angles, tables in three forms (row, swap, fixed) | build planes of odd cycles; tables of 11-cycles | literal position pairs in two Python lists and in two kernels; direction of a rotation held in pair order or in a sign | the three forms are the same linear map; a table look-up never raises |
| `parallel_stage/kernel.cu`: `rot_persist` | global `data`; per CTA cached tables; per thread `t`, `cur_c`, lane in registers | grid-stride loop over (cycle, tile), reload of tables between two barriers, load, rotate, store | threads not in lockstep; barriers inside a branch in a loop with `continue`; in-place update without any synchronisation between CTAs | no divergent barrier, tables never change under a working thread, lanes disjoint, everything rotated exactly once |
| `givens_colmajor/kernel.cu`: the per-tile kernels | global memory; per CTA tables; a lane per thread | fill tables, barrier, return if no lane, load, rotate, store | early return before or after the barrier; lanes of 1 to 8 columns; separate input and output strides | as above, plus: nothing beside the slab is touched |
| `bdmm_only`, `readonce_swizzle`: BDMM on CUTLASS | launch sequence, error codes, the runtime's last error, the stream, `Y` | main GEMM over nb-1 blocks, tail GEMM over what is left; custom CTA swizzle | partial failure; sticky errors; misaligned operands that trap later; a grid laid out by one function and decoded by another; a batch count reduced modulo 2^16; a tail of other depth | complete product in the promised layout, or an error |
| CUTLASS main loops (`cutlass/gemm/threadblock/mma_pipelined.h`, `mma_multistage.h`), which all GEMMs here and the fused kernel instantiate | slots of shared memory, groups of copies in flight, fragments in registers, masks, stage indices | prologue, unrolled turns, tile barrier, drain; one block after another in the same storage | copies land in any order and are waited for by number; blocks shorter than the storage; warps a barrier apart | no slot filled while it is read; nothing beyond the block fetched; every fragment multiplied once and in order |
| `fused_stage_gemm_rot`: whole stage in one kernel | strip of rows in shared memory, `Y` | per block: multiply, store; rotate rows; write out | roles of threads change between phases; last CTA not full; refusal of shared memory | phases stay apart; each element of Y written once, final |
| `profile_parallel_stage.py`, `profile_two_stage_swz.py`, `profile_fused_stage.py` | three streams, seven events, buffers used again by every turn | enqueue an arm, wait between streams, synchronise, read times | host runs ahead; re-recorded events; streams joined by `wait_stream` only; memory of temporaries handed out again | kernels that share a buffer run in order; times final and of exactly their arm |

### How they interact

```
givens_perm.cycles_of --> colmajor_setup.build_stage --> tables (cyc_feat, swap, fx)
                                                            |
X, W --> bdmm / swz_s1 --> Yt (feature-major) --> rot_fixed, rot_persist, ... (in place)
                                                            |
                              swz_s2 --> second stage ------+--> Y
X, W, planes --> fused_stage (both steps in one kernel, row-major) --> Y
profile_parallel_stage: bdmm_cfg_into on one stream, rot_persist on another, independent buffers
profile_two_stage_swz: swz_s1, rotation, swz_s2, rotation, on one stream
```

Kernels of one stream run in order. Kernels share no memory but the matrices.
The extensions do share, without meaning to, the CUDA runtime's *last error*.

## 2 Modules and the code

```
GivensLayout --- GivensPass (abstract)     PermCycles --+-- Orientations
      |              ^ refinement                       +-- ColmajorSetup
      +--------- RotPersist                BlockProduct (abstract)
                                               ^ refinement
RotGrid    BlockDiagGemm    FusedStage     MmaMainloop             ProfileScripts
```

A module `X_proofs` extends X and holds its theorems. `GivensPerm_proofs` is on
PermCycles and on the two modules that extend it. `DivisionLemmas` has the facts about quotients, remainders and least
elements that the others share.

The `MC*` modules give constants their values. Operators introduced by a
comment `Slip:` are plausible mistakes in the definition that follows them.
They are not used by the specifications; they are there to substitute for the
definition, to see that a property notices.

* **GivensLayout**: the matrix, the tables, and `IsRotated`, what one complete
  pass is. The arithmetic of a column of a cycle, fp16 rounding included, is
  the uninterpreted operator `Rot(vec, cs, k)`. In the checks its values are
  tuples that record their origin, so equal values were computed in the same
  way from the same elements.
* **GivensPass**: the abstract specification of a rotation kernel. One action,
  `RotateCells`: adjacent columns of one position of one cycle go from original
  to rotated, all at once, and nothing else ever changes.
* **RotPersist** (`parallel_stage/kernel.cu:36-100`). Per thread: `Exit`,
  `NewCycle`, `SameCycle` (the head of the grid-stride loop), `Fill`,
  `SkipLane` (`continue`), `TakeLane`, `Load` (one feature), `Rotate`, `Store`
  (one feature, reading `sfeat` again); per CTA: `Barrier`, a hardware barrier
  that joins whatever call sites the threads wait at and does not count threads
  that have exited. `sfeat` and `scs` start with garbage. cos and sin tables
  are one table `scs`, as they are filled and read together.
* **RotGrid** (`givens_colmajor/kernel.cu`). Nine kernels with one course; a
  launch is a record: columns per thread, where tables are read, strides and
  offset of input and output, whether column 0 is read by all
  (`rot_cycle_fixed_fr`). The launch functions compute the grid, as in the code.
  As all addresses are explicit, `mem` is one address space. A call is a sequence
  of launches, and `NextLaunch` is the stream, which starts the second when all
  threads of the first have returned. Only `launch_rot_colmajor` has two; its
  kernel `rot_layer_cm` rotates a plane per `blockIdx.y`, which is a cycle of two
  features. Planes of one layer are disjoint, those of the other layer overlap
  them, so disjointness is assumed of the cycles of one launch. `before` is memory
  as the running launch found it.
* **PermCycles** (`givens_perm.py:20-73`). `SkipSeen`, `StartCycle`, `Walk`,
  `Close`, `EndScan` are the turns of the loops of `cycles_of`; `MatchCycle` is
  one cycle of `two_matchings`.
* **Orientations** (`givens_perm.py:101-157`) extends PermCycles, whose
  `matched` state it takes over; its specification is `SolveSpec`. One demand per step, `Find` with path
  compression and `Union` as in the code.
* **ColmajorSetup** (`colmajor_setup.py`) extends PermCycles, whose walk is
  `cycles_of`, and whose `sig` is the layer rho; its specification is
  `BuildSpec`. Planes have symbolic cosines and sines; applying a form of the
  tables yields symbolic linear combinations, which the properties compare.
* **BlockDiagGemm** (`bdmm_only`, `readonce_swizzle`). The host code with every
  exit; `fault` says which CUTLASS step fails, `error` what the runtime's last
  error is: none, one that an earlier launch left behind, or a trap, which stays.
  Operands are base, batch step, leading dimension and layout; a product is the
  set of pairs of addresses multiplied. `access` is the number of elements that
  one load or store moves: a kernel whose operands are not multiples of it
  traps (`Trap`), whatever `can_implement` said of the extents. `Issue`,
  `Finish`, `Retire` are the device: CTAs issued by linear block index, ending
  in any order, kernels of the stream one after another (external). `GridLimit` is
  the `1 << 16` by which the custom swizzle reduces a batch count (`Tiles`), and
  which the device does not take along y and z (`Oversized`); the launch of such a
  grid, or of an empty one, fails (`Launchable`). `Covered` are the blocks that the
  two grids reach. `Rows` is what the binding allocates, for `swz_s2` the rows of its input:
  a CTA whose rows lie beyond stores to `stray` addresses or traps.
* **BlockProduct**: what the multiplications of a CTA promise the kernel around
  them. `Multiply(w)`: a warp gets the whole product of its rows with the block.
  `NextBlock`: all go to the next block when all have this one's.
* **MmaMainloop** (`cutlass/.../threadblock/mma_pipelined.h:243-431`,
  `mma_multistage.h:213-731`, and the loop over blocks of the fused kernel). One
  module for both main loops, which differ in the way a share of a tile comes to
  shared memory: through registers (`PrologueStore`, the first turn of
  `TurnPipelined`, `Store`) or by asynchronous copies (`PrologueCopy`,
  `TurnMultistage`, `Land`). `First` loads the first fragment, a turn loads the
  next fragment and multiplies the one before. `PrologueBarrier`, `TileBarrier`,
  `Drain`, `BlockBarrier` are the points where all warps meet. `flying[w]` are the
  groups of w in the order of their commits, and the one not yet committed;
  `cp_async_wait<n>` (`Waited`, `Remaining`) looks at their number only. A value
  is the pair of its block and tile, what is masked is `Zero`.
* **FusedStage** (`fused_stage_gemm_rot`). Warps while multiplying, threads
  while rotating and writing, three barriers. The multiplication of a block is
  one step of a warp: that is the promise of BlockProduct, which MmaMainloop is
  shown to keep over the same sequence of blocks and barriers, in one storage.
* **ProfileScripts** (the three `profile_*.py`). A script is the list of commands
  that the host gives out, from its warm-up to its last timed turn; streams,
  waits and events are as CUDA documents them (external): `wait_stream` waits for
  what the stream had been given so far, an event that is recorded again forgets
  its former record. A kernel is the buffers that it reads and the one that it
  writes. A temporary tensor is the same buffer in every turn, as the caching
  allocator returns its memory while the kernels that use it are still queued.

## 3 Runs, bounds and what they show

| run | instance | properties |
|---|---|---|
| `rot_persist` | 2 CTAs of 2 threads, 2 cycles of 2 features, 3 tiles per cycle, M = 10 | `TypeOK`, `BarrierUniform`, `TablesCurrent`, `LanesDisjoint`, `ResultRotated`, `Termination`, `PassSpec` (refinement) |
| `perm_cycles` | all 720 permutations of 6 | `TypeOK`, `CyclesClosed`, `Factorised`, `Termination` |
| `orientations` | all 5040 permutations of 7 | `ForestRepresents`, `RaisesIfImpossible`, `SignsUniform` |
| `colmajor_setup` | 24 features: butterflies, inverses, mixed cycle lengths | `NoKeyError`, `FormsAgree`, `OthersUntouched`, `SwapsFollowPerm` |
| `rot_grid` | 11 calls of 9 kernels, CTAs of 3 threads, one call of two overlapping layers | `TypeOK`, `TablesFilled`, `LanesOwned`, `ResultRotated` |
| `block_diag_gemm` | 7 functions, several shapes, 6 faults, pending error or not | `ProductComplete`, `NothingWrong`, `SuccessIsComplete`, `BatchFastest`, `WrittenOnce` |
| `mma_mainloop` | 2 to 4 stages, 2 and 4 groups per tile, blocks of 5, 1 and 2 tiles, 2 warps | `TypeOK`, `SlotsRaceFree`, `NoOverread`, `PromiseSpec` (refinement), `Termination` |
| `fused_stage` | 3 rows, 3 blocks, 2 planes, 4 tilings | `PhasesApart`, `ReturnsStage`, `WrittenOnce`, `Termination` |
| `profile_scripts` | the 3 scripts, 2 turns of every warm-up, 2 timed turns | `ConflictsInOrder`, `TimesAreFinal`, `ArmTimedWhole` |

Three more runs (`orientations_signs`, `bdmm_alignment`, `fused_stage_baseline`)
end in a violation; see [section 6](#6-where-code-and-documentation-disagree).

Why these bounds are enough for the interesting cases to happen:

* `rot_persist`: with three tiles per cycle and two CTAs, a CTA stays on a
  cycle for one tile and for two before it changes, and reloads its tables once
  more while peers may still store. M = 10 leaves one of the two threads
  without a lane in the last tile, so `continue` is taken by some threads of a
  CTA and not by others. Feature 0 belongs to no cycle. Two threads suffice for
  one to be ahead of the other; the proofs cover all other sizes.
* `rot_grid`: every launch leaves at least one thread of the last tile without
  a lane. M is a multiple of the columns per thread, as in the scripts. The ten
  calls of one launch are eight different records: the `cols = 4` instance, `h2`
  and `fixed` differ in how registers are named and in nothing that is modelled.
  The eleventh call has two layers; the plane of the second shares a feature with
  each plane of the first, so a second layer that began early would read columns
  that are not rotated yet.
* `block_diag_gemm`: blocks that overlap by half, as in the scripts; blocks
  side by side; one block only (empty main GEMM); blocks that leave the last no
  columns, with more outputs than `swz_s2` allocates rows for; with `GridLimit = 4`
  as many blocks before the tail as the limit (reduced to none) and two more
  (reduced to two); a grid too large along y; an X whose rows are not a multiple of one
  access. Tiles of 2x2 on a 3 by 2 output give full and partial tiles.
  `ProductComplete` says for every block whether it is there: the blocks in
  `Covered` are complete, the others as `torch::empty` returned them. Not covered
  is a block without columns in the functions that test `Ktail > 0`, and one that
  the reduced batch count leaves out. `SuccessIsComplete` speaks of blocks that
  have columns, and excepts misaligned operands, which `bdmm_alignment` is about,
  and batch counts from the limit on, for which it is not true of the code (section 6).
  `NothingWrong` looks at all of the buffer and all that is stored outside it; only
  where the buffer cannot hold the product (`~Fits`) may anything be. `WrittenOnce`
  looks at what a CTA stores and not at what changes, so that a second
  computation with the same result would be seen.
* `mma_mainloop`: the kernels here have 2 to 5 stages and 2 or 4 groups. A block
  of 5 tiles goes around a storage of 2, 3 and 4 slots; blocks of 1 and 2 tiles
  are shorter than the prologue is long, so that masks are cleared in the
  prologue, at its end and in the loop. Three blocks reuse the storage twice, once
  for a shorter and once for a longer block. Two warps suffice for one to be ahead
  of the other. The theorems cover all other sizes. A block has at least one
  tile: the kernels are not launched on a tail without columns, or have none.
* `fused_stage`: tilings with one and two warps per CTA, fewer, as many and more
  rows than threads, a last CTA whose rows are partly beyond the end.
* `profile_scripts`: two turns of every warm-up, because only there kernels of
  successive turns can be on the device together; two timed turns, because
  `race()` uses the same events again, and the others reuse the names.
* `colmajor_setup`: cycles of the kernels' length 11 beside cycles of length 1,
  2, 3 and 4. `OthersUntouched` holds under its condition only: an odd cycle of
  another length has planes but no table, and then the row form rotates
  features that the column forms leave alone. The dimensions of the scripts
  have cycles of 1 and 11 only.

`CHECK_DEADLOCK FALSE` is set where the system is a function that returns and
the model has no step to stutter in (the three Python parts and the harness).
The kernels' models have a `Done` step instead and are checked for deadlock,
so that a barrier that never opens would be found.

## 4 Fairness

* `RotPersist`: weak fairness of each thread's step and of each barrier. A CTA
  that is resident has all its threads scheduled until they exit, and a barrier
  whose participants have all arrived opens. Nothing is assumed of the order of
  CTAs; the kernel does not need them to be resident together. `Termination`
  does not depend on threads outrunning each other.
* `FusedStage`: weak fairness of the launch and of each CTA as a whole. All
  work of a CTA is finite, so that suffices.
* `PermCycles`: weak fairness of the program's steps; it is sequential.
* `MmaMainloop`: weak fairness of each warp, of each warp's copies (a `cp.async`
  completes) and of the barriers, on the same grounds. No order of warps or of
  copies is assumed.

`RotGrid`, `BlockDiagGemm`, `Orientations`, `ColmajorSetup` and `ProfileScripts`
state safety only. Their loops are bounded by construction, and the deadlock check
(in the first two) covers what could hang. That the streams of a script run empty
is no property of the scripts: a wait is only ever for what a stream was given
before.

## 5 Proofs

TLAPS proves, for every value of the constants that satisfies the assumptions:

**RotPersist** (`RotPersist_proofs`), assuming `SizeAssumption` and
`TableAssumption` (sizes are positive, tables are tables, cycles are disjoint)
and `LaunchAssumption` (`M % (2*VEC) = 0`, which the binding checks; `LMAX` and
`NPAIR` at most the block size, which all instantiations satisfy with 128 or
256 threads; uninitialised words of `sfeat` hold some feature number, so that
the type invariant can say what `sfeat` is):

| theorem | statement |
|---|---|
| `TypeCorrect` | `Spec => []TypeOK` |
| `BarrierSafety` | `Spec => []BarrierUniform`: no `__syncthreads()` is divergent |
| `TableSafety` | `Spec => []TablesCurrent` |
| `RaceFreedom` | `Spec => []LanesDisjoint` |
| `Correctness` | `Spec => []ResultRotated` |
| `Refinement` | `Spec => PassSpec`: the kernel implements `GivensPass` |

None of these properties is inductive. The inductive invariant is
`IInv == CtaInv /\ RegisterInv /\ DataInv`.

* `CtaInv` is about control. `ControlInv`: what each thread's branches tell it
  (its `t` is its CTA's index modulo the grid, its cycle is or is not
  `cur_c`). `PreviousInv`: between tiles, `cur_c` is the cycle of the tile one
  grid stride back. `UniformInv`: threads of a CTA agree on `cur_c`, and if one
  reloads all do, for the same tile. `TableInv`: while nobody reloads, the
  tables are those of `cur_c`; who has filled its words has them right.
  The key step is that a thread waiting at a barrier cannot have been
  overtaken: a peer further on has an equal `cur_c`, hence by `PreviousInv` and
  the monotonicity of `CycleOf` works on a tile of an earlier or the same cycle
  and must come to the same barrier before it can exit (`NobodyAhead`).
* `RegisterInv`: before `Rotate` the registers hold original elements, after it
  rotated ones.
* `DataInv`: each element belongs to one tile and one thread (`Owner`, from the
  arithmetic of tiles and lanes); it is rotated if its owner's progress says it
  has been stored, and original otherwise. From this follow `Correctness` and,
  with `RegisterInv`, that a `Store` is a step of `GivensPass`.

The arithmetic rests on `DivisionLemmas` (quotient and remainder, written with
nonlinear products that the solver is given one at a time) and on
`CellInjective` (addresses of different elements differ).

**PermCycles** (`GivensPerm_proofs`), assuming `InputAssumption` (`n` is a
natural number, inputs are permutations): `TypeCorrect`, `CyclesOf`
(`[]CyclesClosed`), `Matchings` (`[]Factorised`), and `ButterflyIsPermutation`:
`perm1` of any grid satisfies the assumption. The invariant says that the list
being walked is a chain from `s` to `x` that meets no finished cycle
(`PathInv`), that finished lists are closed chains and no coordinate occurs
twice (`CycleInv`), that `seen` is exactly what is on a list (`SeenInv`), and
which cycles have been reflected (`MatchInv`). That a walk ends at its own
first coordinate follows from injectivity: any other seen coordinate would have
two predecessors (`WalkEnds`). The bound on a list's length is the pigeonhole
principle for finite sets (`ShortList`).

**MmaMainloop** (`MmaMainloop_proofs`), assuming `LoopAssumption` (there are
warps and blocks, a block has tiles, at least two stages, an even number of
groups, as the kernels' `static_assert`s and double-buffered fragments demand):

| theorem | statement |
|---|---|
| `TypeCorrect` | `Spec => []TypeOK` |
| `NoSlotRaces` | `Spec => []SlotsRaceFree` |
| `NeverOverreads` | `Spec => []NoOverread` |
| `Refinement` | `Spec => PromiseSpec`: both main loops implement `BlockProduct` |

The invariant `IInv` counts tiles by `T`, those whose barrier has been passed,
and slots from the one that is read (`At(j)`; `Ring`: the places are different
slots). `PhaseInv`: all warps are before, in or after the loop together, and the
slot that is read holds tile T, every warp's share of it. `ControlInv(w)` ties the
iterators and the masks to T: what a warp fetches next is `next[w]`, and the mask
is off exactly from the block's end on. `AccInv(w)`: a warp has multiplied all
fragments before the one that it is at, and has that one in its registers; with
`AppendFragment` a turn adds the next one. `PipelinedInv(w)` says where the next
tile is between registers and slot. `MultistageInv(w)` is what makes waiting by
number right: the j-th group in the air brings tile T + j to the j-th slot from
here or has done so, an empty group standing for a tile that is beyond the end, so
that dropping the first group at a tile's barrier (`AfterWait`) shifts groups,
tiles and slots alike. A group may be for a slot read one tile ago; why it is not
too early is that all warps have passed the barrier since. `OneWarp` and `Frame`
reduce a step of a warp to what it does to its own state and to the slot that is
read. The promise follows: a warp that is through holds `Product(blk)`.

**RotGrid** (`RotGrid_proofs`), assuming `TableAssumption` (cycles of features
of the matrix, at least as many threads as table words) and `LaunchAssumption`:
the cycles of one launch are disjoint, a row is a whole number of lanes and fits
into the rows of input and slab, the grid has at least the tiles that `Tiles`
computes, the slab is the input itself or lies behind it, and a call is one
launch or two. None of the extension's bindings
checks these; the benchmark's calls satisfy them. `rot_cycle_vec_n` with more
than 8 columns would not: its grid is computed for `cols`, its kernel takes 8.

| theorem | statement |
|---|---|
| `TypeCorrect` | `Spec => []TypeOK` |
| `TablesCorrect` | `Spec => []TablesFilled` |
| `LanesCorrect` | `Spec => []LanesOwned` |
| `Correctness` | `Spec => []ResultRotated` |

They hold for all nine kernels at once, as a launch is only a record to them.
`FilledInv` says that a thread past `Fill` has put its words in place, and a
thread past the barrier has no peer that is still filling; the threads that
return early have filled too, which is why it may not be done the other way
round. `Owner(c, m)` is the one thread of the grid whose lane holds column m
(`OwnerOfLane`, and `OwnerHasLane`, which needs the rounding up in `Tiles`).
`SlabInv`: an element of the slab is rotated once its owner has stored it, and
as it was before. `InputApart` covers both kinds of launch: what a loading thread
reads is an element of the slab that only itself will write, or nothing that
anyone writes. `rot_cycle_fixed_fr`, which reads others' lanes, keeps only
`OutsideInv`: even it writes nothing beside the slab.
These invariants are about the kernel that runs, whatever memory it was started
on: they hold when one is started (`Fresh`), and through its steps
(`KernelStep`). At the end of the first kernel they are its result, which
`SecondLaunch` hands to the second as `JobInv`.

**FusedStage** (`FusedStage_proofs`), assuming `FusedAssumption`: sizes are
positive, the warps of a tiling partition the rows of a CTA (`TBM % WM = 0`), a
plane joins two different features. Planes need not be disjoint.

| theorem | statement |
|---|---|
| `PhasesStayApart` | `Spec => []PhasesApart`, if `Unset` is no value that a kernel stores |
| `StripsAreWrittenOnce` | `Spec => WrittenOnce`: an element of `Y` is stored once, and is final |
| `StageIsReturned` | `Spec => []ReturnsStage`, for tilings whose launch is checked |

The restriction of the last one is what separates `kernel_cfg.cu` from
`kernel.cu`, which finding 3 is about. The invariant says who is responsible for
what: the leader of a warp for the product in its rows (`MultiplyInv`), thread
`r % Threads` for rotating row r (`RotateInv`), thread `i % Threads` for storing element i
of the strip (`WriteInv`). Each part is about one phase, in which the strip is what
the finished phase left and what the responsible thread has done since;
`TogetherInv` says that all threads of a CTA are in one phase, so that the barriers
hand over a whole strip. `IsAfter` describes the recursive function `After` by its
recursion; `AfterExists` shows that there is one such function, by taking the
least number of planes for which there is none.

**BlockDiagGemm** (`BlockDiagGemm_proofs`), assuming `GemmAssumption`: tiles and
extents are positive, the grid limit is more than one, and all windows but the last
lie in a row of X.

| theorem | statement |
|---|---|
| `ProductIsComplete` | `Spec => []ProductComplete` |
| `NothingIsWrong` | `Spec => []NothingWrong` |
| `SuccessMeansComplete` | `Spec => []SuccessIsComplete` |
| `BatchIsFastest` | `Spec => []BatchFastest` |
| `EachWrittenOnce` | `Spec => WrittenOnce` |

The invariant is `IInv == ShapeInv /\ QueueInv /\ LaunchInv /\ CellInv /\ OthersInv`.
`QueueInv` says which kernels the stream can hold at which line of the host, and
that nothing has trapped if all is aligned and fits (`TrapReason`); `LaunchInv` that a
function with codes goes on after a launch only if there was one. `CellInv` places
each element of the output: it belongs to one kernel, one batch and, by the inverse
of `TileOffset` (`Linear`), to one CTA of that kernel's grid. `CellOk` says that it
is right once that CTA has ended, and unset before; the cases are whether its kernel
is at the head of the stream, behind another, done, or not launched (`AtHead`,
`Behind`, `Due`), and whether its block is covered at all. `OthersInv` is about what lies
elsewhere: in Y it is unset, and `stray` addresses are elements of the product that Y has
no room for (`FitsY`: there are none if it fits). `Places` and `CellOf` show that
`TileOffset` is a bijection under either swizzle, `OutputApart` that batches and
tail do not overlap in Y, `StoresOwn` that what a CTA stores are elements of its own, `InnerIsReference` that a CTA multiplies the pairs of addresses that the
reference names, for every layout and function. The theorems hold for every batch
count; beyond the limit `ProductIsComplete` says what is missing, and
`SuccessMeansComplete` says nothing.

**Orientations** (`GivensPerm_proofs`), assuming `InputAssumption` only:

| theorem | statement |
|---|---|
| `Represents` | `SolveSpec => []ForestRepresents` |
| `Raises` | `SolveSpec => []RaisesIfImpossible` |
| `SameSigns` | `SolveSpec => []SignsUniform` |

`OInv` carries the invariant of PermCycles at `matched` and adds: the demands
entered so far are satisfied by exactly those assignments that the forest allows
(`ForestPart`), the forest is one (`Forest`: ranks grow less towards the root, so what holds of
roots and passes to children holds of all, `ForestInduction`), a raised error is due
to demands that nothing satisfies, and the angles returned are those of an
assignment that meets them all (`DonePart`).
Three arguments meet here. *Union-find*: `find` returns the root and the parity,
its path compression leaves both of every node alone (`FindProps`, `SameForest`),
and `union` allows exactly the assignments that also meet the new demand
(`UnionProps`). *Demands to planes*: an assignment meets all demands exactly
when it orients the plane of every two-cycle of a layer so that the angles come
with the right sign (`MeetsOriented`, `Planes`). *Cycles*: if all cycles
are odd, orienting each plane by the place of its coordinates on its cycle is a
solution (`OddOrients`); along an even cycle the signs demanded multiply to minus
one, so there is none (`EvenDoesNot`). Hence `SolvableIffOdd`, and with it the two
directions of `RaisesIfImpossible`.

**ColmajorSetup** (`GivensPerm_proofs`), assuming `InputAssumption`:

| theorem | statement |
|---|---|
| `LookUpsSucceed` | `BuildSpec => []NoKeyError` |
| `FormsCompute` | `BuildSpec => []FormsAgree` |
| `OthersStay` | `BuildSpec => []OthersUntouched` |
| `StageFollows` | `BuildSpec => []SwapsFollowPerm` |

While the cycles are walked, `BuildInv` is the invariant of PermCycles, whose steps
these are; at the end of the scan it gives all cycles (`AllCycles`). `LayersInv` says what the reflections have done
to each place of each cycle. That a pair of positions in the kernel's tables is a
plane of the layer, whichever cycle of 11 is at hand, is arithmetic modulo 11
(`Reflected`, `PairIsPlane`), hence no look-up fails. `SwapFormIs` and `FxFormIs`
evaluate the ten turns of the two recursive forms; a turn touches the two
features of its pair and no other.

**ProfileScripts** (`ProfileScripts_proofs`), assuming `TurnAssumption` (any
numbers of warm-up and timed turns) and `ScriptAssumption` (the scripts are among
the three that are written down):

| theorem | statement |
|---|---|
| `KernelsInOrder` | `Spec => []ConflictsInOrder` |
| `TimesOfTheTurn` | `Spec => []TimesAreFinal` |
| `ArmsTimedWhole` | `Spec => []ArmTimedWhole` |

The first half is about lists of commands. A list is *good* (`Good`) if it is
`Fenced`, a kernel on a side stream standing between a wait for the current stream
and a wait of the current stream, which is given nothing else meanwhile, and `Taken`, every
time being taken after the records it uses and a synchronisation that follows them.
Good lists are closed under concatenation and repetition (`FlattenKeeps`), and each
of the three scripts is made of good pieces, so it is good for any number of turns
(`ProgramGood`). The second half is about the device: `IInv` says that each stream
holds exactly the commands the host has given it, in the order of the script
(`ShapeInv`, `GivenInv`); that a wait is for what had been given when the host came
to it and is not passed earlier (`WaitInv`); that what was given before a
synchronisation is done (`SyncInv`); and which records are the latest given and
reached (`RecordInv`, `FiredInv`). Two conflicting kernels are then either on one
stream, which is served in order, or a join lies between them.

Only model-checked is liveness, `Termination` of four modules: fairness and
`ENABLED` are outside what the prover supports.
Induction over data is outside too, as no rule of
induction can be instantiated; where a proof needs it, it takes a least
counterexample instead (`LeastElement`, from the well-foundedness of the natural
numbers), or evaluates a recursion of known length.

## 6 Where code and documentation disagree

1. `givens_perm.py:155`: the angles are read relative to the root of a tree,
   which need not be the ground node. Butterflies of 24 coordinates exist for
   which coordinates moved by one layer only arrive negated, against "No
   residual signs" in the docstrings (103, 173-174). `SignsUniform` shows that
   this is all that can go wrong. The 2048 by 32 layout of `verify()` is not
   affected. (run `orientations_signs`)
2. `bdmm_only/kernel_cfg.cu:88`: `can_implement` is asked about the main GEMM's
   extents only, not about leading dimensions, batch strides or the tail. For an
   X whose row length or stride is not a multiple of 8 the kernels trap on the
   device after `bdmm_cfg` returned 0, against "nonzero if the tile can't run the
   problem (bad alignment / ...)" (66-67). (run `bdmm_alignment`)
3. `fused_stage_gemm_rot/kernel.cu:191`: the shared memory request and the
   launch go unchecked, and the extension returns what nobody wrote.
   `kernel_cfg.cu` checks both. (run `fused_stage_baseline`)

Seen while modelling, without a run of their own:

* `bdmm_only/kernel.cu:121` drops every status after printing a line; its rows
  without columns are not written (126); `run_cfg` reads an error that another
  launch left as its own (`kernel_cfg.cu:90`); the grid of
  `givens_colmajor/kernel.cu:154` is sized for a column count that may have no
  instance. They are listed with the hazards.
* `bdmm_only/kernel_cfg.cu:26` (and `kernel.cu:36`,
  `readonce_swizzle/kernel.cu:43`) reduce the batch count modulo 2^16. With 65536
  blocks before the tail the grid is empty and the launch fails, which `bdmm_cfg`
  reports as 22; with more, only the remainder is computed and `bdmm_cfg` returns 0 with
  the other blocks missing: `can_implement` sees the reduced grid. The default
  swizzle (`noswz_s1`, `rowout_s1`) does not reduce it; its grid is too large then,
  the launch fails, and these functions have no code to say so.
* `readonce_swizzle/extension.cpp:16-17` gives the result of `swz_s2` as many rows
  as its input has. With `nb*N` larger the kernel stores past the end of the
  buffer. The default dimensions of `profile_two_stage_swz.py` have `nb*N` equal to it.
* `profile_parallel_stage.py:5-7` says that the rotation is launched first;
  lines 149 and 151 launch the GEMM first.
* `mma_pipelined.h:319` says that the loop "does not support
  kWarpGemmIterations == 2". The baseline fused kernel uses it with two groups,
  and the theorems show that it works.
* The barrier after the store of a block in the fused kernel
  (`fused_stage_gemm_rot/kernel.cu:150`) is explained as a guard for the reuse of
  the staging storage. In the pipelined main loop the last loads from a block's
  storage are the dead ones of the last turn, so what the barrier protects there
  is `osh`; `SlotsRaceFree` counts dead loads as reads and needs it.

## 7 What is not modelled

* Floating-point values, roundings, the cache hint `STREAM`, occupancy and
  register queries, printing, medians: no control.
* The numeric comparisons of the scripts (`--check`, `verify()`) and the dense
  matrices of `givens_perm.py`: NumPy and torch arithmetic. A second combo that
  reuses a pair of streams repeats the first.
* The rest of CUTLASS, some 950,000 lines, nearly all for architectures and data
  types that nothing here instantiates. Of what is instantiated, the layouts in
  shared memory, thread maps, epilogues and conversions are address arithmetic
  inside one warp's share; `kClearLastStage`, `kStagedAccumulation` and
  `wind_down()` are not used.
* The streams of the rotation launches: some kernels go to the default stream and
  others to the current one. The scripts use `rot_fixed`, on the current stream;
  the two launches of `rot_colmajor` go to one.
* `rot_loadonly`, `rot_storeonly`, `rot_rw`: bandwidth probes.
* Strides of tensors passed to the `*_into` bindings; table lengths `L` and
  `Ns` other than those `build_stage` produces; M that is no multiple of the
  lane in `RotGrid`. They are hazards with notes.
* Build files and the recorded results: compiler flags and output.

## 8 Plan

The order was: what everything else relies on first.

Done: GivensLayout, GivensPass, RotPersist (checked, proved, refinement);
PermCycles, Orientations, ColmajorSetup (checked, proved); RotGrid
(checked, proved; one launch or two); BlockDiagGemm (checked, proved);
MmaMainloop (checked, proved, refinement of BlockProduct); FusedStage on top of
BlockProduct (checked, proved); ProfileScripts (checked, proved), with the two-stage
layer at the level of whole kernels. Every safety and action property and every
refinement that a passing run checks is the statement of a theorem.

Left, in order of worth:

1. `RotGrid` as an implementation of `GivensPass` for its in-place launches.
2. An abstract stage (multiply, then rotate, then publish) that `FusedStage` and
   BDMM followed by a rotation both implement.
