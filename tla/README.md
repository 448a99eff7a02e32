# TLA+ models of the reverse-mode AD engine and its adjoint ODE node

This directory holds TLA+ models of the Stan Math code under `src/`: mainly the
adjoint-sensitivity ODE node `cvodes_integrator_adjoint_vari`
(`src/stan/math/rev/functor/cvodes_integrator_adjoint.hpp`) and the
reverse-mode AD tape it plugs into. Each model is checked with TLC.

## 1. Inventory

### Components

| component | where | state | operations |
|---|---|---|---|
| AD tape (`ChainableStack`) | not in `src/` (spec §4.1–4.4) | chaining stack `var_stack_`, non-chaining stack `var_nochain_stack_`, nested-region start markers, the adjoint of every node, arena memory | push a node, `start_nested`/`recover_memory_nested` (a region), `grad()` (reverse sweep over the innermost region), `grad(vi)` (seed, then sweep), `set_zero_all_adjoints` (whole tape or the region) |
| Adjoint ODE node (`cvodes_integrator_adjoint_vari` + `_memory`) | `cvodes_integrator_adjoint.hpp` | `returned_`, `memory` (NULL or not), `cvodes_mem_`, the forward snapshots `y_`, `state_sens_`, `quad_`, `backward_is_initialized_`, `index_b_`, pointers to the input and output varis | constructor (allocate, validate, `CVodeInit`, `CVodeAdjInit`), `operator()` (forward solve, build output varis), `chain()` (backward solve), the CVODES callbacks `rhs`, `rhs_adj_sens`, `quad_rhs_adj`, `jacobian_states`, `jacobian_adj` |
| Output nodes (`build_varis`) | same file, lines 23–67 | one non-chaining vari per state component and output time | created once, at the end of `operator()` |
| Serializer (`serializer`, `cached_t`) | `prim/functor/serializer.hpp` | `data_i`, `data_r`, cursors `pos_i`, `pos_r` | `write_i/r`, `read_i/r`, `pack`/`unpack` of scalars and nested vectors, `pack_data`/`pack_vars`, `cached_t` construction and `instantiate` |
| `check_symmetric` | `prim/err/check_symmetric.hpp` | none | one pass over the upper triangle |
| `value_of` | `prim/fun/value_of.hpp` | none | projection from vars to values |
| `multi_normal_cholesky_lpdf` | `prim/prob/multi_normal_cholesky_lpdf.hpp` | the partials of `operands_and_partials` (one slot per element, one shared slot for a broadcast operand) | size checks, two solve branches, the accumulation loop |
| `double_exponential_lccdf` | `prim/prob/double_exponential_lccdf.hpp` | the partials of `operands_and_partials`, `ccdf_log` | argument checks, `inv_sigma`, the loop with two branches |
| Other transforms and distributions | `corr_matrix_constrain`, `unit_vector_constrain`, `bernoulli_logit_glm_rng` | none | floating-point formulas |
| `integrate_ode_rk45`, OpenCL `buffer_types` | | none | a forwarding wrapper; compile-time type maps |

### How they interact

User code builds an expression; each operation pushes a node on the tape.
`ode_adjoint` constructs the ODE node. Its base `vari` constructor pushes it on
the chaining stack. The node's `operator()` runs the forward CVODES solve and
then pushes one non-chaining output vari per state component and output time.
Consumers of those outputs are pushed after them.

`grad()` walks the chaining stack from the top. Every consumer of an output
therefore chains before the ODE node. When the sweep reaches the node,
`chain()` reads the outputs' adjoints one output time at a time, from the last
to the first, and integrates the adjoint ODE backward between output times.
Inside that solve, CVODES calls back into the node. Each callback opens a
nested region on the same tape, builds the right-hand side with vars, runs
`grad()` over that region only, and reads the adjoints. The region is then
discarded, while the outer sweep is still suspended inside `chain()`. Finally
`chain()` adds its results into the adjoints of t0, ts, y0 and the parameters.

### What is hard

- Partial failure. The node is on the tape before validation runs and before
  the forward solve can throw (`CV_TOO_MUCH_WORK`). Any later sweep still calls
  `chain()`, which must then do nothing. The backward solve and the user's
  right-hand side can throw in the middle of `chain()`, with the outer sweep
  suspended and a callback's region open. Only RAII closes that region.
- Repeated sweeps. `jacobian()` runs several sweeps over one tape.
  `state_sens_`, `quad_` and the CVODES backward problem survive between
  sweeps.
- Ordering. Adjoints from each output time must be added onto the running
  backward state before their segment is integrated. Zero-length segments are
  skipped, but their adjoints are still collected.
- Nesting. The callbacks open nested regions inside a running outer sweep.
  The parameter copies used by `quad_rhs_adj` live outside the region and must
  be zeroed by hand.
- No concurrency. One thread drives one tape (spec §5). All interleaving is
  the cooperative nesting of sweeps and regions.

### Correctness properties, per component

- ODE node: after a complete `chain()`, each input's adjoint is exactly the
  adjoint formula, with every output time counted once. Backward integration
  stays inside the forward-checkpointed interval. There is one backward problem
  per node. A failed construction or forward solve makes `chain()` a no-op.
- Tape: the sweep visits every node of the region exactly once, and a node
  only after all its consumers. A nested region leaves outer nodes and outer
  adjoints as they were. Zeroing is confined to the region. The swept
  adjoints equal the path-sum derivative. A sweep aborted by an exception
  leaves no region open and no node of a closed region behind.
- Serializer: unpacking what was packed, in the same order, returns it, and
  the cursors never pass the end.
- `check_symmetric`: it accepts exactly the matrices whose off-diagonal pairs
  are within tolerance, and rejects NaN.

## 2. Plan

Modules, in order of importance:

1. **CvodesAdjoint** (done): the ODE node's constructor, `operator()` and
   `chain()`, with numbers abstracted to symbolic adjoint contributions.
2. **TapeAtomic / ADTape** (done; spec-modelled, since the engine is not in
   `src/`): the two stacks, a stack of nested regions, `grad` as a stack of
   sweep frames (a sweep can be suspended inside a node's `chain()`), and
   region-scoped zeroing. The step-wise sweep refines an abstract tape whose
   `grad` is one step computing a RECURSIVE path-sum derivative.
3. **OdeCallbacks** (done): the four AD callbacks on the tape, over every
   small user right-hand side: seeding, nested sweeps, zeroing of the deep
   copies and between Jacobian columns.
4. **OdeOnTape** (done): the ODE node as an external node of ADTape. Its
   non-chaining outputs and their consumers live on one tape, and its
   `chain()` harvests between backward segments whose callbacks open nested
   regions, which may add into the node's deep copies. The properties: every
   outermost sweep ends with the path-sum derivative through the ODE nodes, and a `grad()` that ends, by returning
   or by a throw from the backward solve or a callback, leaves the tape as
   it found it.
5. **Serializer** (done): cursors and buffers. Round trip for scalars, vectors and
   nested vectors, and the split between `pack_data`/`pack_vars` and `cached_t`.
6. **CheckSymmetric** (done): the loop as a state machine, with NaN and Inf
   as values, checked against a reference definition.
7. **MultiNormalCholesky** (done): the density's control flow, broadcasting
   and partials over exact integer arithmetic, against an adjugate reference.
8. **DoubleExponentialLccdf** (done): the function's control flow over IEEE
   classes of doubles, with overflow and underflow as nondeterministic
   outcomes; sign of the value and partials, and where a NaN appears.

Liveness: no run checks a liveness property. The loops (`grad()`'s sweep,
`check_symmetric`, the ODE node's `chain()`, the densities) are bounded by an
index that every pass moves, so their termination holds by their shape. A
`chain()` that returns only after its callbacks' regions are closed is
guaranteed by the destructors of `nested_rev_autodiff`, and the model states
it as `ChainEnd`'s guard, not as a property. No specification assumes
fairness.

## 3. Modules and runs

### CvodesAdjoint (`CvodesAdjoint.tla`, `MC_CvodesAdjoint.tla`)

State, and the code it models:

- `phase`, `memory`, `in`: the constructor's outcome, the `memory`/`cvodes_mem_`
  pointers, and the call's arguments (`t0`, `ts`, the size of `y0`, which inputs
  are vars).
- `adjInit`: `CVodeAdjInit` was called.
- `tReached`: the last output time the forward solve reached.
- `returned`, `bwdInit`: the members `returned_` and `backward_is_initialized_`.
- `nCreateB`: how many times `CVodeCreateB` was called.
- `pc`, `i`, `tInit`, `stateSens`, `quad`: the control point, loop index and
  vectors of `chain()`.
- `adjT0`, `adjTs`, `adjY0`, `adjArgs`: the adjoints written into the input
  varis.

Numbers are symbolic. Output time k's adjoint in sweep s is `<<s, k>>`. Each
vector the code accumulates is a bag of such symbols, tagged with the time the
contribution has been propagated to (`state_sens`) or the segment it was
integrated over (`quad`). Because the backward solve is linear, the bag is a
faithful image of the vector's coefficients. It tells a contribution counted
twice, lost, left over from an earlier sweep or evaluated at the wrong time
from a correct one.

Actions:

- `Construct`: the constructor, lines 473–630, and the memory constructor,
  110–152. `CVodeAdjInit` runs only when some input is a var
  (`NeedsAdjInit`, 623–628).
- `Forward`: `operator()`, 642–691. Success, or `CV_TOO_MUCH_WORK` on any
  non-zero segment.
- `NewSweep`: the environment. `set_zero_all_adjoints` runs, then `grad`
  reaches the node.
- `ChainBegin`: the early returns, the zeroing and `t_init`, 693–745.
- `Harvest`: the outputs' adjoints into `state_sens` and the ts adjoint,
  746–773.
- `Integrate`: CreateB/InitB or ReInitB, then CVodeB, GetB and GetQuadB,
  773–876.
- `Finalize`: 879–911.

Runs:

- `cvodes_adjoint` (pass): `TypeOK`, `GradientCorrect`,
  `BackwardWithinCheckpoints`, `SingleBackwardProblem`. Bounds: times `0..2`,
  `ts` of length 0 to 3, `y0` of size 0 or more, every subset of var inputs,
  every outcome of the other checks and of `CVodeCreate`, and two sweeps.
  Three time values are enough for a `ts` to hold equal neighbours next to
  non-zero segments. Two sweeps are enough for a second `chain()` to meet
  what the first one left behind. About 80,000 states.
- `cvodes_documented_times` (violation): `DocumentedTimesAccepted`. The
  constructor's doc comment and the spec accept a first output time equal to
  t0, but `check_less(t0, ts[0])` (line 546) rejects it. TLC's counterexample
  is `t0 = 0, ts = <<0>>`.

`CHECK_DEADLOCK FALSE`: the computation really does stop after its last sweep.

Abstracted away: the values of the states and the solver's steps, tolerances
and checkpoints; the finiteness and tolerance checks, which are folded into
one flag `otherOk`, with non-finite times not tried; and errors other than
`CV_TOO_MUCH_WORK` from `check_flag_sundials`.

### TapeAtomic and ADTape (`TapeAtomic.tla`, `ADTape.tla`, `MC_ADTape.tla`)

The engine (`ChainableStack`, `vari`, `grad`, `nested_rev_autodiff`) is not
under `src/`. Both modules are written from spec §4.2–4.4 and §4.6.

`TapeAtomic` is what the tape promises:

- `cstack`: the chaining stack, each node with its operand set and whether it
  is external (like the ODE node).
- `nlen`: the length of the non-chaining stack.
- `adj`: the adjoint of every node.
- `marks`: the region markers, each the two stack lengths when the region
  opened.
- `grads`: a bound on sweeps.

Its actions are `Push`, `PushLeaf`, `StartNested`, `RecoverNested` (truncates
both stacks), `ZeroAll`, `ZeroNested` (the innermost region), `SetAdj`,
`RecoverMemory` and `Grad`. `Grad` is one step: every node's adjoint becomes
`Final`, a RECURSIVE sum of its own adjoint and the final adjoints of the
region's chaining nodes that use it. That is the path-sum derivative, with
every local derivative taken as 1. Local derivatives only scale the
contributions along each edge, so they are abstracted away.

`ADTape` runs the same operations with `grad` as a sweep. A stack of frames
each holds the region start, the next node to chain, the region depth and
whether the frame is suspended in an external node's `chain()`. Actions:

- `SweepStep`: chains an ordinary node, or enters an external node's
  `chain()`.
- `ChainEnd`: the external `chain()` returns, once every region it opened is
  closed.
- `SweepEnd`: pops the frame.

While a frame is suspended, client code may open regions, push nodes, seed,
zero, sweep (a nested frame) and close them. It may touch only the regions it
opened. `snap` is a history variable: the tape when the outermost sweep
started.

Run `tape_sweep_refinement` (pass): `TypeOK` and `SweepRefinesAtomicGrad`,
which is `TapeAtomic!Spec` under a refinement mapping. The mapping is `snap`
while a sweep runs and the tape itself otherwise, so the whole sweep maps to
one atomic `Grad`. Bounds: 3 chaining nodes, 1 leaf, 2 nesting levels, one
top-level and one nested sweep. That allows an external node whose `chain()`
runs a region holding a node of its own, inside an outer region. About
470,000 states, under a minute.

`ChainEnd` is taken only when the region depth is the one the external
`chain()` was called at. This is not a wait in the code: the callbacks hold
their regions in `nested_rev_autodiff` objects, whose destructors close them
before `chain()` returns. The guard states that scope rule.

Restrictions:

- External nodes are pushed only outside sweeps.
- Client code seeds adjoints only inside a `chain()`. Outside a sweep,
  `grad(vi)` seeds.

### Serializer (`Serializer.tla`, `MC_Serializer.tla`)

`sd` and `sv` are two serializers, each holding `data_i`, `data_r` and the
cursors `pos_i` and `pos_r`. `PackI`/`PackR` give what `pack` appends;
`ReadI`/`ReadR` and the RECURSIVE `Unpack`/`UnpackN` follow `unpack<T>`. A
read past the end is undefined behaviour. It sets `overread` and stops the
read.

The actions follow a closure's arguments through the two-pass protocol:

1. `PackData` for every argument into `sd`.
2. `PackVars` into `sv`.
3. `MakeCached` (the two `cached_t` constructors) from `sd`.
4. `Instantiate` from `sv`.

Run `serializer_round_trip` (pass): `TypeOK` and `RoundTrip`. Every argument
comes back, no read goes past the end, and both serializers are consumed.
Arguments: closures of one or two arguments of types int, double, var,
vectors of these, and a vector of int vectors, with up to 2 elements and
values `{0, 1}`. The values collide with the sizes 0 and 1, so a size read as
a value is not masked. About 64,000 states.

### CheckSymmetric (`CheckSymmetric.tla`, `MC_CheckSymmetric.tla`)

The loop of `check_symmetric` as actions:

- `Start`: the `k == 1` early return.
- `Compare`: the loop body, which throws on a failing pair.
- `NextRow`: the outer increment.
- `LoopEnd`: the check returns.

Entries are integers in units of the tolerance, plus NaN, Inf and -Inf as
model values. `Sub`, `Fabs` and `LeqTol` give IEEE semantics.

Runs:

- `check_symmetric_loop` (pass): `TypeOK` and `ThrowsOnFirstAsymmetricPair`.
  The reference `Close` is the doc comment's meaning: a pair is symmetric
  when neither entry is NaN and the two are equal or within the tolerance.
  The check throws exactly when some off-diagonal pair is not close, and it
  reports the first such pair in row order. It covers all matrices up to 3x3
  over `{0, 1, 3, NaN}`: about 940,000 states, under 15 seconds. Inf is left
  out of this run because code and doc disagree on equal infinities; the
  next run shows that disagreement.
- `check_symmetric_infinities` (violation): `ExactlySymmetricAccepted`. A
  matrix equal to its transpose with no NaN is rejected when an off-diagonal
  pair is `Inf`, because `Inf - Inf` is NaN (line 61). TLC's counterexample
  is the 2x2 matrix of all `Inf`.

`check_square` is not under `src/` and is left out.

### OdeCallbacks (`OdeCallbacks.tla`, `MC_OdeCallbacks.tla`)

CVODES calls `rhs_adj_sens`, `quad_rhs_adj`, `jacobian_states` and
`jacobian_adj` (lines 324–430) in any order and any number of times while
`chain()` integrates backward. Each is one action, since each is a
synchronous call. An action opens a nested region, creates the vars, seeds,
sweeps, reads and closes the region.

`rhs` is the user's right-hand side as an expression graph, fixed by `Init`.
Each output is one of:

- an operation node over states, parameters and earlier operation outputs;
- a copy of a state, a parameter or an earlier output. A copied var shares
  its vari.

The parameters are doubles in `rhs_adj_sens` and `jacobian_states`
(`value_of_args_tuple_`). In `quad_rhs_adj` they are the deep copies
`local_args_tuple_`, vars on the outer tape whose adjoints (`thAdj`) persist
between calls.

The seeding follows the code: `f_y_t_vars.adj() = -mu` assigns once per
output, in order (`SeedNeg`). `Final`/`Sweep` is the nested `grad()`.
`Columns` is `jacobian_states`' loop: `grad(f_i)`, then
`nested.set_zero_all_adjoints()` between columns.

The reference `D` is the derivative of each output computed over the
expression itself, not over the tape.

Runs:

- `ode_callbacks` (pass). Properties:
  - `RhsAdjSensCorrect`: the result is -J_y^T mu.
  - `QuadRhsAdjCorrect`: the result is -J_theta^T mu, free of earlier calls.
  - `JacobianCorrect`: J, and -J^T for `jacobian_adj`.
  - `TypeOK`.

  It covers every graph over two states and one parameter whose outputs are
  distinct varis, mu in `{0,1}^2`, and three calls in any order: about 8,000
  states.
- `ode_callbacks_shared_outputs` (violation): `RhsAdjSensCorrect` with two
  outputs allowed to share a vari, e.g. `dydt[2] = dydt[1]`. The assignment
  seeding overwrites one output's seed, so its contribution is lost.
  Counterexample: output 1 is an operation on y1, output 2 copies it, and
  mu = (1, 0). The code gives 0; the adjoint right-hand side is -1.
  `quad_rhs_adj` seeds the same way (line 379).

### OdeOnTape (`OdeOnTape.tla`, `MC_OdeOnTape.tla`)

The ODE node in its place on the tape. `OdeOnTape` instantiates `ADTape` and
adds the node's own state:

- `outs[k]`: for the node at chaining index k, `returned_`, its deep
  copies and where its output leaves start on the non-chaining stack.
- `hi`: `chain()`'s loop index `i`, plus one. It is 0 when the loop is done.
- `acc`: what `chain()` will add into its inputs.
- `gseed`: the seed of the outermost `grad`, a history variable for the
  property.

Actions:

- `OdeCall`: the constructor pushes the chaining vari (line 486), and its
  memory object pushes `local_args_tuple_` (line 125, `DeepCopies`): one
  non-chaining copy of each var among `args`, the inputs other than y0, t0
  and ts. Either the constructor's checks or the forward solve throw, which
  leaves the copies and no outputs, or `operator()`
  returns and `build_varis` (lines 28–56) pushes `NTs * N` output leaves at
  `non_chaining_varis_[i * N + j]`. With no var input, `build_varis<double>`
  (lines 57–66) returns the values and pushes none (`NOutputs`).
- `SweepStep`: ADTape's sweep step. At an ODE node it applies `chain()`'s
  early returns (lines 699–713) or starts the loop at the last output time.
- `Harvest`: one pass of the loop at lines 745–754. It adds the adjoints of
  the outputs of time `i` and is taken only when every nested region the
  callbacks opened is closed.
- `ChainEnd`: the final adds into the inputs (lines 879–911).
- `ChainThrows`: `chain()` throws after its early returns and its first
  harvest. CVodeB stops with `CV_TOO_MUCH_WORK` or another flag (lines
  850–870), or the user's right-hand side throws in `rhs()` or in a
  callback whose region is open. `UnwindTo` is the unwinding: the destructors
  of the callbacks' `nested_rev_autodiff` objects (lines 330, 366, 395)
  close every region opened inside the sweep, and the CVODES trampolines
  catch nothing. The exception leaves every `grad()`. The inputs never
  get the node's contribution.

Between two harvests the callbacks act as ADTape's clients inside
`chain()`. They open regions, push, seed, zero, sweep and close them. Their
nodes may use the region's nodes and the node's deep copies
(`CallbackArgs`, what `quad_rhs_adj` passes to `rhs()`, line 374), which
live below the region. `ZeroArgs` is `quad_rhs_adj`'s `zero_adjoints` of
the copies (lines 368–371). No user code sees the copies or the ODE vari
(`UserOperands`). As in
ADTape, local derivatives are 1, so the node passes each input the sum of
its harvested adjoints. The solver's numbers are CvodesAdjoint's and
OdeCallbacks' concern.

Run `ode_on_tape` (pass): `TypeOK`, `OdeGradientCorrect` and
`GradLeavesTapeAsFound`. When an
outermost sweep ends, every node holds `FinalOde`. This is the RECURSIVE
path-sum derivative in which an ODE node passes its inputs the final
adjoints of its outputs. The deep copies are left out: they are the
callbacks' scratch. Every other node is exact, the node's own inputs
included, although a nested sweep has added into the copies while the outer
sweep was suspended. Two mutants violate it:

- `HarvestLeafNoTime` reads an output from the wrong slot.
- `CallbackArgsOriginal` passes the node's own inputs to `rhs()` in place
  of the copies, so the nested sweep adds into them.

The run also checks `GradLeavesTapeAsFound`, an action property. Take any
step in which the outermost `grad()` ends, by returning or by an exception
out of an ODE node's `chain()`. After that step the stacks, the region
marks and the set of nodes with adjoints are what they were when that
`grad()` started. This holds whatever harvests, callbacks and nested sweeps
ran before the throw. The mutant `UnwindToKeepRegions` has the callbacks
open and close their regions by hand, so a throw skips the close, and it
violates the property.

Bounds: 4 chaining nodes, 3 leaves, one nested region, one outermost and
one nested sweep. That fits an input node, an ODE node with its deep copy
and 2 output leaves (2 output times of 1 state), a consumer of an output,
and a node a callback pushes over the deep copy. That node's nested sweep
runs while an output of the earlier time still holds the consumer's
adjoint, not yet harvested. It also fits two ODE nodes, one of which threw.

The MC module adds three things to keep the run under a minute:

- `MCUserLeaves`: at most one leaf that is neither a copy nor an output.
- `MCOneOperand`: each node has at most one operand. Fan-out, where one
  node feeds several, still occurs. Fan-in is checked by
  `tape_sweep_refinement`.
- `VIEW MCView`: states are compared without `outs[k]` for indices that
  hold no ODE node. Those entries are stale records of popped nodes, and
  `OdeCall` overwrites one before anything reads it. Without the view the
  stale records multiply the state space many times over. `MC_OdeOnTape` sets
`DoubleOdeCalls` to FALSE, so every ODE call takes at least one var input.
An all-double call leaves the same tape shape as a call that throws: an
ODE node with no outputs whose `chain()` returns at once. The run keeps
the throwing call, and allowing both nearly triples the state space.
About 390,000 states, under a minute.

The client is reduced to keep this within reach:

- Regions open only inside `chain()`; ADTape checks top-level regions.
- The program stops after its last outermost sweep, so `CHECK_DEADLOCK` is
  `FALSE`.
- With one outermost sweep, nothing follows a throw out of `chain()`. A
  second sweep roughly squares the state space and does not finish in 4
  minutes. A second sweep after a failed backward solve, where the node's
  `state_sens_`, `quad_` and backward problem are reused, is checked in
  CvodesAdjoint (`GradientCorrect`, `SingleBackwardProblem`).

### MultiNormalCholesky (`MultiNormalCholesky.tla`, `MC_MultiNormalCholesky.tla`)

`multi_normal_cholesky_lpdf<propto>(y, mu, L)` as a sequence of steps. The
inputs are chosen by `Init`:

- `y` and `mu`: each a lone vector or a `std::vector` of vectors.
- `L`: any shape.
- `yVar`, `muVar`, `lVar`: whether each argument is a var.
- `propto`.

Actions:

- `Start`: `check_consistent_sizes_mvt` and the empty-argument return (lines
  59–64).
- `CheckSizes`: the size checks, the `size_y == 0` return, the
  `operands_and_partials` allocation and the constant term (lines 66–120).
- `Solve`: `half`, `scaled_diff` and the quadratic term (lines 122–197).
  With L as data it uses forward and back substitution (`FwdSub`,
  `BackSub`). With L as a var it uses `inv(L)` and triangular views.
- `Accumulate`: one pass of the partials loop (lines 199–231).
- `Finish`: L's `-size_vec * inv(L)^T` and `build` (lines 234–238).

`Slot` is the broadcast. A lone operand has one `partials_vec_` entry, and
every term writes into it.

Numbers are exact integers. L has a unit diagonal, so the substitutions
divide by 1 and the log-diagonal terms are 0. The entries are finite, so
`check_finite` and `check_not_nan` always pass and are left out.

Run `multi_normal_cholesky` (pass): `TypeOK` and `LpdfCorrect`. On return,
the value and the partials of y, mu and L's below-diagonal entries equal
those of an independent reference. The reference is the quadratic form in
Sigma^-1, with Sigma = L L' taken from L's lower triangle and Sigma^-1 its
adjugate, computed by RECURSIVE cofactor expansion (det Sigma = 1).

The reference derivatives are central differences. They are exact here:
for a unit-triangular L, every entry of inv(L) is affine in any one entry of
L, so logp is quadratic in each argument entry.

The mutants break it:

- `AccumulateAssign` assigns instead of accumulating. Only a broadcast
  operand notices.
- `ZerosPerTerm` allocates one slot per term. This violates `TypeOK`.

Bounds: entries `{0, 1}`, L's lower entries `{-1, 1}`, vectors of up to 2
entries and arrays of up to 2 vectors. This covers ragged and mis-sized
arguments and every var/data and `propto` combination. About 2.1 million
states, under 2 minutes.

### DoubleExponentialLccdf (`DoubleExponentialLccdf.tla`, `MC_DoubleExponentialLccdf.tla`)

`double_exponential_lccdf(y, mu, sigma)` as a sequence of steps. `Init`
chooses each argument as a scalar or a vector, whether it is a var, and for
every element pair whether y is below mu (`rel`, which the classes alone
cannot decide for two finite values).

A double is an IEEE class: its sign and one of NaN, infinity, zero, or a
finite magnitude below, equal to or above 1. Every operation (`Mul`, `Add`,
`Inv`, `Exp`, `Log1m`) returns the set of classes its result can have,
including overflow to infinity and underflow to zero, and the step takes any
of them.

Actions:

- `Checks`: the consistent-sizes check, `check_not_nan(y)`,
  `check_finite(mu)`, `check_positive_finite(sigma)` and the `size_zero`
  return (lines 44–55).
- `InvSigma`: the partials' allocation and `inv_sigma` (lines 57–70).
- `Step`: one pass of the loop (lines 72–96). `scaled_diff`, the term for
  `y < mu` (`log1m(0.5 exp(scaled_diff))` and `rep_deriv`) or for
  `y >= mu` (`LOG_HALF - scaled_diff`), and the three edges. A scalar
  argument's edge has one slot that every element adds into (`Slot`).
- `Return`: `build` (line 97).

Run `double_exponential_monotone` (pass): `TypeOK` and `LccdfMonotone`. On
return the log CCDF is never positive, every y partial never positive and
every mu partial never negative, for every rounding outcome. The mutant
`RepBelowExpPlus` (the exponent not negated in `rep_deriv`) breaks it, as
`ZerosPerTerm` (one slot per element for a scalar) breaks `TypeOK`. Bounds:
y in {NaN, -inf, finite, +inf}, mu in {finite, +inf}, sigma in {0, below 1,
1, above 1}, scalars and vectors of up to 2 elements. About 1.6 million
states, about a minute.

Run `double_exponential_nan_partial` (violation): `NoNaN`, that no partial
and not the value is NaN, over the arguments the checks accept. TLC finds:
y = -inf (the doc comment rejects only a NaN y), finite mu, sigma = 1 a var.
`scaled_diff` is -inf, `exp(-scaled_diff)` overflows, `rep_deriv` is 0 and
the sigma partial is `0 * -inf`, NaN, while `ccdf_log` is 0 and its
derivative 0. A finite y far enough below mu gives the same; a subnormal
sigma, whose inverse overflows, gives NaN by another route (see the hazards).

## 4. Not modelled

These parts are not modelled. None of them has state or control beyond one
pass of argument checks, and their hazards are listed in `PROJECT.json` with
a note on why no property covers them.

- `unit_vector_constrain`: one check on `dot_self(y)`, then a division. What
  can go wrong is the magnitude of that sum: it overflows or underflows for
  finite, non-zero `y`. The IEEE classes of `DoubleExponentialLccdf` do not
  separate those magnitudes.
- `corr_matrix_constrain`: one size check and a loop of `corr_constrain`.
  A negative `k` passes the check, because `k (k - 1) / 2` is positive. The
  matrix is built by `read_corr_matrix`, which is not in this repository.
- `bernoulli_logit_glm_rng`: finiteness and size checks, then one draw per
  row. What a NaN probability draws is decided in Boost.Random, which is not
  in this repository.
- `value_of`: compile-time overloads. The risk is a lazy Eigen expression
  that outlives its argument, which is a matter of C++ lifetimes.
- OpenCL `buffer_types` (compile-time type maps) and the `integrate_ode_rk45`
  wrapper (it forwards its arguments).
- The registry of `chainable_alloc` objects. It matters only when
  `CVodeCreate` fails inside the memory object's constructor, which leaves a
  registered pointer to a destroyed object (see the hazards). The registry
  is outside `src/`.
- The memory object's destructor (lines 153–172). It frees what the
  constructor made when the tape is recovered, and has no control beyond
  `N_ > 0`.
