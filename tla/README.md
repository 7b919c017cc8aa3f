# Verification of faer-wasm

TLA+ models of the parts of this repository that have state, loops or protocols
of their own: the LAPACK-style kernels written for wasm (`kernels/src`), the
Schur pipelines and reordering (`schur/src`), and the allocator of the wasm builds
(`bench/src/lib.rs`, `smoke-test/src/lib.rs`). TLC checks them on small
instances, TLAPS proves the central results for every value of the constants.

The program is numerical, single-threaded and keeps nothing between calls. What
is hard to test in it is therefore not interleaving but *index protocols*: which
rows a transformation touches, in which order, whether an entry that is read is
up to date, whether a loop ends, what is left behind when it fails, and
conditions that only a rare floating-point outcome makes true. The models
replace the numbers by what those questions depend on (which entries may be
nonzero, which products have been subtracted from an entry, which row an entry
came from) and every comparison of numbers by a choice of both outcomes. A
property that holds therefore holds whatever the comparisons come out as, for every
input and rounding that they can depend on. It says nothing of the numbers
themselves, and magnitudes (underflow, overflow, NaN) enter only where a choice
stands for them, which the modules name; section 5 lists what is left out.

## 1. Inventory

| Part | Source | State | Operations | Interacts with |
|---|---|---|---|---|
| Bump allocator | `bench/src/lib.rs` 1660-1710, `smoke-test/src/lib.rs` 255-290 | `OFFSET`, the pages of the wasm memory | `alloc`, `dealloc`, default `realloc` | everything that allocates (called by Rust's `alloc`); the engine's `memory.grow`, which may refuse |
| Real HQR | `kernels/src/schur_small.rs` | `h`, `istart`, `istop`, `iter`, `k_defl`, `w_re`, `w_im`, Z | deflation scan, 1x1 and 2x2 deflation (`eig22`, `schur22`), shifts, early start, bulge chase, cap | is given a Hessenberg matrix by the pipelines; its T is read by `trevc_in_place` and the reordering |
| Complex HQR | `kernels/src/schur_small_cplx.rs` | as above, `w` | single-shift chase | as above |
| LU | `kernels/src/lu.rs` | `a`, `piv` | panel, row swaps, triangular solve, update, recursion, solve | faer's `matmul` |
| Householder kernels | `kernels/src/{qr,hessenberg,hessenberg_cplx}.rs` | `a`, `tau`, `work`, Q | reflector, left and right application, backward accumulation of Q | the pipelines clear the reflectors before the QR iteration |
| Eigenvectors | `kernels/src/{eigvec,eigvec_cplx}.rs` | X, V | block back-substitution with guarded solves (`laln2`, `ladiv`), product with Z, normalization | reads T and Z of an HQR |
| Schur reordering | `schur/src/{real,complex}.rs` | T, Z, the scan position | move one block, select blocks to the top | faer's `schur_move`, which may reject an exchange |
| Schur pipelines | `schur/src`, `bench/src/lib.rs` 426-668 | H, Z, T | Hessenberg, form Q, clear, iterate (own kernels below order 480, faer above) | all of the above |
| Jacobi SVD | `kernels/src/svd.rs` | A, V, the sweep | measure a pair, rotate it in A and V, end a sweep, normalize | loops of level-1 shape |
| SIMD level 1 | `kernels/src/{scalar,cplx}.rs` | none | unrolled bodies with scalar tails | called by every kernel |
| Streaming BLAS | `bench/src/lib.rs` 1049-1346 | operands and result | gemv, ger, trsv, gemm, syrk, trmm, trsm as nests of axpy, plain and fused | level 1; raced against faer |
| Bench harness | `bench/src/lib.rs` | one static `State` | `setup`, `run_*` exports | the `.mjs` drivers |
| Probes, drivers, gates, patches, CI | `smoke-test/`, `*.mjs`, `patches/`, `.github/` | none that survives a run | | |

What makes each part correct:

- *Allocator*: live blocks are inside the memory and disjoint after any sequence
  of frees; nested temporaries are reclaimed; a request that cannot be met
  returns null and changes nothing.
- *HQR*: it ends; the return value names exactly the recorded eigenvalues;
  recorded blocks are never touched again; a sweep leaves the matrix Hessenberg
  and reads no entry that an earlier, restricted application left stale; all
  index arithmetic stays in range; slots of `w` agree with the blocks of T; Z has
  had every transformation T has had, in all its rows.
- *LU*: L U is the row-permuted input for every pivot choice and every blocking;
  the pivot search sees fully updated columns; the solve uses final components.
- *Householder*: every reflector meets operands of the same stage and is applied
  exactly where it is due; Q may skip columns; what is handed on is Hessenberg.
- *Eigenvectors*: each product is subtracted once; scalings never distort a
  vector; the product with Z reads solved components only and leaves none out; pairs
  are normalized as pairs.
- *Reordering*: the scan names the blocks of the input while T changes under it; the
  chosen blocks end up leading, in order; a rejected exchange leaves the front
  chosen so far and tells where its block stopped.
- *Pipelines*: on every route T holds no reflector and no workspace, Z belongs to
  T, the eigenvalues are those of the input; a refused input is left untouched.
- *Level 1*: every element once, for every length; no product lost in a lane.
- *Streaming BLAS*: every product of the operation once, with its sign, and a solve
  uses an entry only after it is final.
- *Jacobi SVD*: a return that reports convergence means that all pairs whose
  products stay in the range of the floats are orthogonal at the same time; A and V
  have had the same rotations.

The behaviours that a test hardly reaches are listed in `PROJECT.json` under
`hazards`, each at its line, with the properties that cover it.

## 2. Modules

| Module | Models | Runs |
|---|---|---|
| `Deflation` | abstract: slots filled from the bottom, one or two at a time, conclude or fail | refined by `HqrDriver`, `ChqrDriver` |
| `HessenbergMatrix` | the matrix and Z of both QR iterations: which entries may be nonzero, which are stale, what a restricted application does to them | extended by both |
| `HqrDriver` | `hqr_eigvals_in_place`, `hqr_schur_in_place` with `want_t` on and off | `hqr_driver`, `hqr_standardized` |
| `ChqrDriver` | `chqr_schur_in_place`, the c64 iteration | `chqr_driver` |
| `HqrDriver_proofs`, `ChqrDriver_proofs`, `HessenbergMatrix_proofs` | theorems about the drivers, lemmas about applications | |
| `Heap` | abstract: live blocks disjoint and inside a memory that only grows | refined by `BumpHeap` |
| `BumpHeap` | `Bump::alloc`, `Bump::dealloc`, `realloc` | `bump_heap`, `bump_nested`, `bump_exhausted` |
| `BumpHeap_proofs` | theorems about `BumpHeap` | |
| `LU` | `lu_factor_in_place`, `lu_rec`, `trsm_rec`, `lu_solve_in_place` | `lu` |
| `SchurForm` | a quasi-triangular T: its order and its 2x2 blocks | extended by the next three |
| `SchurReorder` | `real_schur_move`, `real_schur_select` and the complex twins; faer's `schur_move` as external | `schur_reorder` |
| `EigVec` | `trevc_in_place`, `ctrevc_in_place` | `eig_vectors` |
| `Reflectors` | `qr_factor_in_place`, `hessenberg_factor_in_place`, `hessenberg_form_q`, the c64 twins, the clearing in the pipelines | `reflectors` |
| `SchurPipeline` | `real_schur_in_place`, `complex_schur_in_place`, `real_eigenvalues_in_place`, `schur_pipeline`, `schur_c64_pipeline` | `schur_pipeline` |
| `Level1` | the loops of `scalar.rs`, the c64 streams of `cplx.rs`, and the loops of the same shape in `bench/src/lib.rs` and `svd.rs` | composed below |
| `StreamingBlas` | the streaming variants of `run_blas_ab`, calling `Level1` | composed below |
| `JacobiSvd` | `jacobi_svd_in_place`, calling `Level1` | composed below |
| `Level1Callers` | the loops on their own, under the BLAS, and under the SVD | `level1` |
| `SchurForm_proofs` | theorems about `EigVec`, `SchurReorder`, `SchurPipeline` | |
| `LU_proofs` | theorems about `LU` | |
| `Reflectors_proofs`, `Level1Callers_proofs` | theorems about `Reflectors`, and about `Level1` and its callers | |

`MC<module>` extends its module for TLC, the `.cfg` gives the constants.

### HqrDriver and ChqrDriver

Both drivers extend `HessenbergMatrix` and differ in their deflations and in the
chase. `pc` is the place in the loop: `top` (the cap and the window tests), `deflate`
(after the scan), `chase`. The window is `istart`, `istop`; `istart_m`,
`istop_m` are fixed before the scan, as in the code. Of the matrix two sets are
kept: `nz`, the entries that may be nonzero, and `stale`, the entries whose
stored value is not what the transformations so far make of it because an
application was restricted to a range. `Reflect` computes both for a 2- or 3-row
reflector and the ranges the code uses. `stale_z` are the entries of Z that have
missed a transformation of T: `Accumulate` applies one to the rows the code takes
(`ZRows`), with the same columns as for T. `have_z` is a choice, as in the code. Choices: which subdiagonal is found
negligible (a zero one always is), where the chase starts early, and the outcome
of `eig22` and `schur22` (their branches, each with the zero pattern it leaves).
The iteration count and the stall counter are exact;
the c64 loop gives its last iteration to the cap, as the code does.

### BumpHeap

Addresses are numbers modulo `Word`. `Refused` and `Placed` are the two outcomes
of an allocation; the engine may refuse any growth and grants at most
`MaxPages`. `nested` and `padded` are history flags used by properties only. The
caller is unrestricted: it allocates, frees and reallocates in any order.

### LU

The recursion is a stack of tasks (`todo`); a task is replaced by the tasks it
consists of, so the order of swaps, solves and updates is the code's. `at[c][i]`
says which original row stands at position i of column c, `upd[c][o][k]` how
often step k was applied to that row, so an update that uses differently permuted
operands is visible. Every pivot choice is taken.

### SchurReorder

T is its eigenvalues (`eig`, by their row in the input) and the first rows of its
2x2 blocks (`sub`). faer's move is a sequence of exchanges of adjacent blocks;
each may be rejected, and one that moves a 2x2 block may split it. That an exchange
loses no eigenvalue and makes no block of two is what is assumed of faer's move, not
a result; the results are about the scan, the goals and the rows this crate computes.

### EigVec

`taken[c][r][j]` counts how often x[j] t[r, j] was subtracted from x[r, c],
`level` the scalings an entry contains. Each guarded solve scales or does not. `holds`
is what an entry is: the zero it was allocated with, a right-hand side (`Started`), or
a component, once the solve of its block has stored it (`StoredRows`). The product
V = Z X cannot tell the last two apart, and does not look below the diagonal.

### Reflectors

`left` and `right` count the reflectors applied to an entry from each side,
`holds` says whether a place holds an entry of the result, a stored reflector
tail or a cleared zero, and `q` which entries of Q may be nonzero. `TypeOK` and the
invariant of this module are in `Reflectors_proofs`. Whether a
column needs a reflector is a choice.

### SchurPipeline

Composes what the other modules treat one by one: each stage is one action, and
what a stage of this repository leaves is what its own module establishes (a
Hessenberg matrix over stored reflectors: `TransformationComplete` in `Reflectors`;
an upper triangular matrix: `SchurFormReturned` in `ChqrDriver`). `h` says per
cell what it holds. faer's reduction and iteration are external: the blocked
iteration may leave workspace in any set of cells below the subdiagonal and the
complex one negligible subdiagonals, as the comments at real.rs:164-166 and
complex.rs:142-144 say. An iteration that fails has written to H, Z and the
eigenvalues by then (`"unfinished"`), and nothing is cleaned up. The bench pipelines,
which do not look, are given finite matrices.

### Level1, StreamingBlas, JacobiSvd

One module for the loops, which differ in the number of vectors per step, in the
lanes per vector, and in whether a result is stored or accumulated (`Loops`). All
vectors of a step are loaded before one is stored, so an update by overlapping
vectors would count once and a product twice (`Worked`). `held` is the lane a
product is accumulated in, until it is added to the result.

`StreamingBlas` and `JacobiSvd` extend `Level1` and call its loops (`CallLoop`): the
caller waits until `pc` is `done` and then reads `count`, so what an operation
does to a column is what the loop did, element by element. In `StreamingBlas` the
result of each call is added to the bag of products of the entries (`terms`), with
the sign that alpha and the variant give; `Factor` is the entry alpha is read
from. A solve divides an entry (`Divide`) and then streams a column with it
(`Stream`), in two steps. In `JacobiSvd` a measurement has four outcomes: the
denominator is zero and the pair skipped (`SkipPair`), the quotient is within the
tolerance (`WithinTol`), above it, or NaN (`RotateA`). A pair that is left may be
orthogonal, or not: alpha times beta may have underflowed, for nonzero columns with
entries of about 1e-100, or overflowed, at about 1e80, which makes `rel` zero. The
code cannot tell and neither can its return value: it then reports convergence after
one sweep with columns that are not orthogonal. Histories hold which pairs are
orthogonal as the columns are now, which were left without a true measurement
(`unmeasured`), which columns met a NaN, and the rows of A and V a rotation did not
reach. `ConvergedMeansOrthogonal` makes an exception for exactly the second and third.
`Level1Callers` starts in any of the three.

## 3. Runs

| Run | Bounds | Shows |
|---|---|---|
| `hqr_driver` | order up to 6, all zero patterns, all three modes, 6 iterations, stall limit 3 | indices in range, Hessenberg form restored, T and Z transformed alike, no stale entry read, eigenvalue slots agree with T, exceptional shifts when stalled, deflated blocks frozen, refinement of `Deflation`, termination |
| `chqr_driver` | order up to 6, all zero patterns, 11 iterations, stall limit 3 | indices in range, one-entry bulge, T and Z transformed alike, no stale entry read, upper triangular T on success and below the returned index on failure, refinement of `Deflation` |
| `hqr_standardized` | order up to 4 | *violated*: a 2x2 block of T with a zero above the diagonal |
| `bump_heap` | 5 pages of 8 bytes, word 64, sizes 1-4, alignments 1 and 4, 3 live blocks | live blocks below `OFFSET`, stack discipline, refinement of `Heap` |
| `bump_nested` | the same | *violated*: nested temporaries are always reclaimed |
| `bump_exhausted` | memory may fill the whole word | *violated*: exhaustion returns null |
| `lu` | all widths, crossovers and bases up to order 4, full recursion at order 6 | factorization, solve order, sound updates, pivot search, termination |
| `schur_reorder` | order up to 6, all block structures, selections and moves | scan positions valid, selection leads, rejection partial, move lands |
| `eig_vectors` | order up to 6, all block structures | substitution exact, scalings uniform, the product reads all components and nothing else, normalization by pairs |
| `reflectors` | shapes up to 6x6, all patterns of identities | operands of one stage, transformation complete and Hessenberg handed on, skipped columns |
| `schur_pipeline` | order up to 5, crossover 4, blocking threshold 3 | no leftovers in T, vectors and eigenvalues of the input, refusal writes nothing |
| `level1` | length up to 20; BLAS order up to 6; SVD up to 5x4, 3 sweeps | every element once and every lane summed, every product of a BLAS operation once, no entry used before its division, reported convergence genuine as far as products stay in range |

Why the bounds are enough. A bulge covers four rows, so order 6 has a window
that splits into two that are swept, early starts, and rows above and below a
window at the same time; six iterations allow a split, a stall of three and
deflations of both kinds. The c64 kernel deflates one row at a time, so eleven
iterations let all six rows deflate with four sweeps between, and every smaller
matrix run into the cap as well. Two 2x2 blocks with a 1x1 block on either side need
order 6. Recursive LU first splits an odd block inside `trsm_rec` at order 6.
Three live blocks are one more than an out-of-order free needs, and the
allocation sizes straddle both the alignment and the page. Orders 0 to 5 lie on
both sides of the blocking threshold and of the crossover, which is the larger of
the two as in the code, and order 5 has six cells below the subdiagonal. Length
20 has two steps of the longest body and every length of tail. A BLAS order of 6
has calls with a whole step of four and a tail, and triangular calls of every
length from 0 to 6. Four columns give six pairs, disjoint ones among them, so that
a pair may be measured before, between and after rotations of its columns; three
sweeps allow one that ends by convergence after one that did not, and one that
ends by the limit.

Distinct states: `hqr_driver` 126,924, `chqr_driver` 255,274, `level1` 1,307,640,
`schur_pipeline` 5,531, `reflectors` 1,921.

Constants that the code fixes are parameters so that small instances reach them:
`ItMax` (30 max(10, n)), `StallLimit` (10), `PureFlat` (128), `BlockSize` (64),
`TrsmBase` (256), `Crossover` (480), `Nmin` (75), `Word` (2^32), `PageSize` (2^16), `MinAlign` (16). `MaxLive` bounds
the caller of the allocator, `MaxN` the order (`MaxOrder` in `SchurPipeline` and `StreamingBlas`); `MaxLen`, `MaxOrder`, `MaxRows`,
`MaxCols` and `MaxSweeps` the arguments of the loops and their callers.

Fairness. Liveness is checked for `HqrDriver` and `LU` under weak fairness of
their steps: both are loops of one thread that never wait. No other fairness is
assumed. Every finished computation stutters in an explicit `Done` step, so
deadlock is checked in every run.

### What the violated runs show

1. `hqr_standardized`: the documentation of `schur22` (schur_small.rs:407-408)
   says that on return "either `c == 0`, or `a == d` with `sign(b) != sign(c)`",
   and `kernels/tests/schur_full.rs:93-96` asserts it. The rotation that equalizes
   the diagonal can make b exactly zero (for example from -7, -8, 8, 9), and line
   503 then skips the reduction. T keeps a 2x2 block with real eigenvalues;
   `trevc_in_place` takes it for a conjugate pair.
2. `bump_nested`: with padding between two blocks the outer one is not reclaimed,
   because freeing the inner one leaves `OFFSET` at its aligned start.
3. `bump_exhausted`: the address arithmetic wraps at the ceiling, so that a
   request that does not fit may be answered with a block.

## 4. Theorems

`HqrDriver_proofs`, for every `MaxN`, `ItMax`, `StallLimit` and set of modes:

- `TypeCorrect`: every variable stays in its range.
- `WindowsStayInBounds`: `WindowsInBounds`.
- `HessenbergPreserved`: `HessenbergShape`, and the window stays decoupled.
- `ReturnCodeCorrect`: the return value names exactly the recorded slots.
- `DriverImplementsDeflation`: `ImplementsDeflation`.
- `KeepsSimilarity`: `SimilarityMaintained`, and `WindowsAreCurrent`:
  `NoStaleWindow`. Both follow from `Clean`: a sweep's ranges are the whole matrix
  with `want_t` and end with the window without it (`SweepRanges`), and a window
  that the scan leaves has no zero on its subdiagonal (`WindowUnreduced`), so a
  restricted application leaves out nothing but zeros or rows that nobody reads
  again.
- `ShiftsFollowStalls`: `ExceptionalWhenStalled`; the counter of the code is tied to
  the history of the window (`StallCounted`).
- `DeflatedIsFinal`: `DeflatedBlocksFrozen`; nothing below a decoupled window is
  written (`FrozenBelow`).
- `PairsAgreeWithBlocks`: `PairsAgree`. A deflation fixes one block, and
  `DeflatedIsFinal`'s invariant keeps all the earlier ones; the slots above are unset.

`ChqrDriver_proofs`, likewise: `TypeCorrect`, `WindowsStayInBounds`,
`HessenbergPreserved`, `DriverImplementsDeflation`, `KeepsSimilarity`,
`WindowsAreCurrent`, and `ReturnsSchurForm` (`SchurFormReturned`), for which the
invariant adds that the matrix is triangular below the window
(`TriangularBelow`): Hessenberg form and a shrinking window give the Schur form in
the end.

The properties are not inductive: that every chase position is in range needs
that a window entering the chase has three rows, that the Hessenberg form is
restored at the end of a sweep needs the shape of the bulge at every position,
and that an application creates no entry outside the window needs that the window
is decoupled. The conjunctions (`InvariantHolds`, `Shape`, `CleanHolds`) are proved
one step per action. `HessenbergMatrix_proofs` holds the lemmas about an
application: where it can create entries, what it leaves, and when it leaves no
entry stale.

`Reflectors_proofs`, for every `MaxN` and every set of kernels: `TypeCorrect`,
`OperandsAreCurrent` (`OperandsCurrent`), `TransformationIsComplete`
(`TransformationComplete`), `SkippingIsSound` (`SkippedColumnsUnaffected`). The
invariant says exactly how many reflectors each entry has had from each side at
each point of the loops (`Applied`), what each place holds (`Stored`), and that Q is
the identity outside the square that the accumulated reflectors span (`QShape`).

`BumpHeap_proofs`, under the assumption `Roomy` (the largest memory plus one
block, its alignment and a page is below `Word`, i.e. the memory never reaches
the end of the address space; `bump_exhausted` shows that it is needed):

- `BlocksStayBelowOffset`: `LiveBlocksBelowOffset`.
- `BumpImplementsHeap`: `ImplementsHeap`. The invariant adds that live blocks
  are pairwise disjoint, which makes the rewind of a block that ends at `OFFSET`
  safe: every other block lies below it.
- `NestedIsAStack`: `StackDiscipline`, with the auxiliary fact that, without
  padding, live blocks leave no gaps.

`Level1Callers_proofs` first proves `Level1`, for every length, under the assumption
that an array and one step fit below `Word` (a memory of 2^32 bytes holds at most
2^30 f32): `TypeCorrect`, `WorksOnEachOnce` (`EachElementOnce`). The elements treated
are those before `i` (`Prefix`), and the vectors of a step partition it
(`VectorsPartitionStep`). Then its callers, for every shape and sweep limit: `ConvergenceIsGenuine`
(`JacobiSpec => []ConvergedMeansOrthogonal`), `JacobiTypeCorrect`, and for the
composition that the run checks `CalledLoopsWorkOnEachOnce` (`EachElementOnce`) and
`ConvergenceIsGenuineForCallers`. The invariant (`SweepInv`) carries the loop's own
invariant through every call, so that what a rotation leaves out is empty by
`DoneCounts`, and adds that, as long as a sweep has collected nothing above the
tolerance, every pair it has visited is still orthogonal or unmeasured, or touches a
column that met a NaN (`VisitedAreGood`): a rotation without a NaN would have been
collected.

`ProductsAddedOnce` (`ProductsOnce`) is proved for the same composition. Its
invariant says which products an entry has had at every point of the nests: of
what it is due (`Due`), those of the columns of the result done before, and in the
present one those whose turn has come (`MadeBy`, `BlasSums`). A call reaches the entry
exactly when the column it streams is due to it (`CallReaches`), and what it adds is then one
new product, since the loop has worked on each element once (`DoneCounts`,
`CallAdds`). That a solve divides no entry too early follows because the columns are
taken from the last back and only later ones are due; the entry a call is made with
is the one divided just before it.

`SchurForm_proofs` has three parts.

*EigVec*, for every order and every arrangement of 2x2 blocks: `TypeCorrect`,
`SubstitutionIsExact` (`SubstitutedOnce`), `ScalingIsUniform` (`ScaledAlike`),
`ProductReadsComponents` (`TriangularProductReadsComponents`) and
`PairsNormalizedTogether` (`NormalizedAsSolved`). None is inductive: the invariant adds that the three loops,
two of which go up and one of which goes down, stop only between blocks (`Position`);
that the vector being solved has had exactly the products of the rows already solved
(`SolvedFrom`), whose step needs that a block above the solved one ends above it;
that it holds components from there down to its own block and right-hand sides above
(`Filled`); and that the columns not started are untouched, so that both columns of a
pair start with no scaling (`Alike`) and from zeros (`Contents`). `BlockFacts` says that the blocks partition the rows, whether
they are met from above or from below.

*SchurReorder*, for every order, block structure, selection, move, and every choice of
rejected exchanges and split blocks: `ReorderTypeCorrect`, `ScanReadsInput` (`ScanSeesInput`), `SelectionIsLeading`
(`SelectionLeads`), `RejectionKeepsFront` (`RejectionIsPartial`), `MoveReachesGoal`
(`MoveLands`). The results speak of the moment a call returns, so the invariant
(`ReorderInv`) says what holds until then. During the scan (`ScanAt`) the rows are in
three parts: the chosen blocks found so far, the others, and the part not reached, which
is still the input. During a move (`Moving`, `MovingUp`) the same holds with the moving
block taken out, whose first row and goal never lie inside another block. An
exchange keeps all of this because it shifts one whole block over another
(`ExchangeFacts`, stated once for both directions): it is here that it matters that a
2x2 block may split, but that nothing becomes a block that was not one (`SameMatrix`,
which only says what the model of faer's exchange keeps, and is no result of its own).

*SchurPipeline*, for every `MaxOrder`, `Crossover` and `Nmin`: `PipelineTypeCorrect`,
`ReturnsT` (`NoLeftoverInT`), `ReturnsOutputsOfInput` (`OutputsOfInput`). The
invariant (`Stage`) says what `h` and `z` hold before each stage; the case that matters
is that a route which does not clean up is one whose iteration left nothing
(`Finished`).

`LU_proofs`, for every set of calls (order, kernel, block width or crossover,
`trsm_base`), every default and every choice of pivots: `FactorsPivotedRows`
(`Factored`), `SolveInOrder` (`SolvedInOrder`), `UpdatesAreSound` (`UpdatesSound`),
`PivotSearchIsReady` (`PivotSearchSeesEliminatedColumn`), and `LUInvariant`, on which
they rest and which includes type correctness. None of them is inductive, because
`todo` is a stack of recursive calls and the invariant must say what each of them will
still do. It does so in terms of progress (`Points`): how many pivots are chosen, how
many of the recorded swaps each column has had, which elimination steps the entry at
each position of each column has had, and which rows of b are divided.

- `Does` gives every task its effect on the progress and what it needs before: a
  panel of columns is factored from one step to another, columns catch up on swaps,
  the rows of a triangular block are solved for, steps are applied to a rectangle.
  `Path` chains the effects of a sequence of tasks.
- A task that is replaced by others has their effects in turn. This is the correctness
  of each decomposition of the code, proved once and for every split:
  `BlockFactorsPanel`, `HalvesFactorPanel`, `ColumnsFactorPanel`, `HalvesSubstitute`,
  `SubstitutionsSolve`, `SolveTasks`. The swap back into the left half, the swap before
  the solve, and the update that reaches to the last row are needed here.
- `Rep` says that the state is where the progress says, for one sequence of row orders,
  each obtained from the one before by a recorded swap: a column that has had k swaps
  has its rows in the k-th order. `ColumnStep`, `SwapStep`, `UpdateStep`, `DivideStep` show
  that a task that changes the data has the effect it is given.
- `LUInv` joins the two: the state is at some progress, and `todo` leads from there to
  the end. What is left at the end are complete factors (`Factored`); that the orders
  are those of the recorded pivots (`RowsAreAfter`) is an induction over the swaps, by
  the least counterexample (`InductionOnSets`).

`LUInv` asserts a chain of states of progress, which is too much for TLC to search;
the run checks the properties that follow from it.

Every safety and action property that a passing run checks is stated by a theorem.
Only model-checked: liveness (`Termination`, `Terminates`), which is out of the
prover's reach.

## 5. Not modelled

- Magnitudes: convergence rates, accuracy, underflow and overflow of the
  numbers. A reflector whose tail underflows, for instance, counts as one of the
  choices, and is taken for the identity it is treated as. In `JacobiSvd` a pair whose
  measurement leaves the range is a case of its own.
- The order of the gather into `work` and of the update that uses it, inside one
  application of a reflector: `Reflectors` takes both as one step.
- The bench `State`: `setup` replaces all operands, `run_*` return a probe value computed
  from them (`run_l1_layer` also changes them in place). Timing is all that is asked
  of them. Of `run_blas_ab` the faer variants
  and the copy are left out, of the level-1 race the index rescan of iamax.
- The strided `crot_row_pair` and the scalar functions of `cplx.rs`.
- faer and pulp themselves, which are not in the repository, other than faer's
  `schur_move` as `schur/src` uses it.
- Timing loops, probes, drivers, gates, CI: straight-line code or measurement.

## 6. Plan

Done, in this order: `HqrDriver` with `Deflation` and its proofs, `ChqrDriver` and
its proofs on the same `HessenbergMatrix`, `BumpHeap` with
`Heap` and its proofs, `LU`, `SchurReorder`, `EigVec`, `Reflectors`, `SchurPipeline`
and `Level1` with their proofs; then Z in both drivers, the proofs of
`NoStaleWindow`, `SimilarityMaintained`, `PairsAgree` and the stall counter, the proofs
of `Reflectors`, and the callers of the level-1 loops (`StreamingBlas`, `JacobiSvd`)
with the proof of what convergence means; the proofs of `EigVec`; and, with
`SchurForm` drawn out of both, those of `SchurReorder`, of `StreamingBlas` and of `LU`.

What is left: `setup` and the mutating `run_l1_layer` of the bench
`State` as a module.
