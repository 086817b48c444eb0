# CL2QCD in TLA+

CL2QCD simulates lattice quantum chromodynamics on OpenCL devices. This directory
holds TLA+ models of the parts of it whose correctness is a matter of order, of
bookkeeping and of failures, the TLC configurations that check them on small
instances, and proofs, checked by TLAPS, that the central properties hold for
every size. Paths below are relative to the repository's root, `src/`.

Contents: [the system](#1-the-system), [the modules](#2-the-modules),
[the runs](#3-the-runs), [the proofs](#4-the-proofs), [what the checks
found](#5-what-was-found), [abstractions](#6-abstractions-and-what-they-hide),
[what is not modelled](#7-not-modelled).

Run everything from this directory: `tlc -workers 2 -config HaloCoherence_async.cfg
HaloCoherence`, and so on for the table in section 3; `tlapm HaloCoherence_proofs.tla`,
and likewise for the other modules whose names end in `_proofs`, for the proofs. `HmcTrajectory_proofs` takes
about 20 minutes, the others at most six. `PROJECT.json` records for every
definition which lines it translates, for every property a plausible bug that breaks
it, and lists components, hazards, findings and theorems.

## 1. The system

One host thread runs an executable. It owns `Device`s, each with one in-order OpenCL
command queue, and enqueues kernels and copies without waiting for them; it blocks
only where it reads a result back. The lattice is cut in time over the devices; every
device keeps its neighbours' adjacent time slices as a *halo*. Nothing else runs
concurrently inside the process. What outlives the process is on disk: configurations
and generator states, written as checkpoints, the observables' text files, and the binaries of
the OpenCL kernels, which processes running at the same time share.

| part | state | operations | interacts with | what makes it correct |
|---|---|---|---|---|
| executables (`executables/`) | parameters, iteration counter, the loop's bounds | read or create a start, thermalize, generate, measure, save | everything below | the chain continues where it stopped; nothing saved is unmeasured |
| checkpoint files (`ildg_io/`, `physics/prng.cpp`, `physics/utilities.cpp`) | files, `.backup`, `.backup_tmp` | back up, open, write, read again, load | executables | at every moment one whole copy; a broken one is noticed |
| HMC and RHMC trajectory (`physics/algorithms/{hmc,rhmc,metropolis,forces,molecular_dynamics}`) | gauge field and momenta, old and new; pseudofermions; their initial energies | heatbath, integrate, Metropolis test | integrators, forces, solvers | one Hamiltonian in heatbath, forces and test |
| integrators (`integrator.cpp`) | none: a sequence of updates | leapfrog, 2MN on 1-3 timescales | trajectory | the nested scheme; reversible |
| solvers (`solvers/`, `solver_shifted.cpp`) | residuals, directions, iteration count | CG, BiCGstab, multi-shift CG; a retry with CG | fermion matrices | what they return solves the caller's equation |
| inversion (`inversion.cpp`, `fermionmatrix/`) | sources and solutions on either parity | prepare, solve, retry, complete | solvers, observables | one solution with and without preconditioning |
| heatbath and overrelaxation (`su3heatbath.cpp`) | gauge field | sweeps over directions and parities | halo exchange | no two neighbouring links at once |
| fields (`physics/lattices`, `hardware/lattices`) | one buffer per device; `valid_halo_width` of even-odd spinor fields | linear algebra, conversion, (re)start, smearing | halo exchange, kernels | every copy of a site agrees with the site |
| halo exchange (`hardware/buffers/halo_update.hpp`) | rows in the links | initialize, finalize; exchange through the host | fields, links | the right rows reach the right place |
| links (`hardware/transfer/`) | caches, events, queues of their own | `load`, `transfer`, `dump` | command queues | bounded FIFO of values between two devices |
| devices and queues (`hardware/device.cpp`, `system.cpp`) | commands, memory counters | enqueue, flush, synchronize, allocate | links, kernels | in order; blocking calls return |
| scalars, vectors (`hardware/lattices/scalar.hpp`) | one value per device | sum over the devices, store | queues | every device has the global sum |
| geometry (`geometry/`) | none | cut of the lattice, site index, neighbours | fields, kernels | the cut covers the lattice once |
| random numbers (`physics/prng.cpp`, `hardware/lattices/prng.cpp`) | states of the generator per device and on the host | draw, save, load | trajectory, sources | never used twice |
| kernels and wrappers (`ocl_kernel/`, `hardware/code/`) | none | arithmetic on one site | fields | floating-point arithmetic |
| run-time compiler (`hardware/opencl_compiler.cpp`) | binaries in a cache directory | look up, build, store | other processes | a cached binary is whole and the right one |
| measurements (`measurementExecutable.cpp`, `observables/`, `sources.cpp`) | current configuration, swapped fields | invert, correlators | solvers | every configuration once |
| parameters (`meta/`, `interfaceImplementations/`) | options | parse, check, forward | everything | what cannot be run is refused |
| utilities (logger, klepsydra, crypto, einhard) | counters, timers | log, time, hash | everything | |

What is hard here, and what the models are aimed at:

* **Queues in different orders.** The host enqueues whole rounds ahead; devices drift
  apart; links couple their queues by event lists, in three implementations with
  different lists. Tests run on one device, or with a link that never drifts.
* **Lazy bookkeeping.** An even-odd field carries a width of valid halo which every
  operation on it updates or consults; one that forgets leaves stale rows that enter a
  physics result as a small error.
* **Layout at the edges.** Partial lower halos end at the end of the memory because
  kernels wrap around; main rows of a device are shorter than two halos in the
  extreme case.
* **Crashes and failed writes** between and inside checkpoints of two files that
  belong together, and restarts that read whatever is there.
* **Off-by-one by design**: file names, the number inside a file, the counter after a
  restart, and the loops' bounds.
* **One formula in several files**: the Hamiltonian as norms of random vectors, as
  forces and as energies, and with mass preconditioning two pseudofermions and two
  masses in each; integrator loops unrolled by hand, with kicks merged across them;
  rational approximations rescaled three times per RHMC trajectory.
* **Recursions instead of definitions.** Solvers update a residual next to the solution
  and stop by it; the shifted systems of the CG-M have no residual at all, only a factor.
  What a solver leaves behind when it gives up is where the next one starts.
* **Signs and roles that cancel elsewhere**: the even-odd inversion swaps the parities
  and has the wrong sign, and the condensate compensates for it.
* **A cache shared by processes**, found by date and guarded by a file lock, written
  without a look at the outcome.

`PROJECT.json` lists these hazards at their lines, with the properties that cover them
or the reason why none does yet.

## 2. The modules

```
HaloGeometry ──┬── HaloCoherence ── HaloCoherence_proofs
               └── HaloQueues ···refines··· TransferLink
                        └── HaloQueues_proofs
GenerationRun ···refines··· MarkovChain
      └── GenerationRun_proofs
BinaryCache ── BinaryCache_proofs
ModelNumbers ─┬─ RootedStaggered ─┬─ HmcTrajectory ── MCHmcTrajectory
              │       Integrator ─┘        └──────┬─ HmcTrajectory_proofs
              ├─ ModelNumbers_proofs ─────────────┘   (and below)
              ├─ KrylovSolvers ── MCKrylovSolvers
              │          └────────────────┬─ KrylovSolvers_proofs
              ├─ ModelNumbers_proofs ─────┤
              │          ┌────────────────┴─ EvenOddInversion_proofs
              └─ EvenOddInversion ── MCEvenOddInversion
```

Operators called `Wrong_…` or `Incomplete_…` stand beside the definitions they are
plausible mistakes in. No specification uses them; putting one in the place of the
definition must break the property `PROJECT.json` names, and does.

### HaloGeometry
The cut in time (`geometry/latticeGrid.cpp`), the rows a device allocates (its own,
then the upper halo, then the lower), the neighbours on the periodic grid, and two
readings of a row: the global row it is meant to hold (`Home`) and the row a kernel
addresses when it steps in time (`NeighbourRow`, which wraps around in memory). The
models start from a grid `LatticeGrid` has accepted; the constants' assumption is what
the code checks (at least two devices, local extent not below the halo).

### HaloCoherence
The halo protocol in the host's program order. `mem` holds the buffers, the rows in
the links and `valid_halo_width` of each even-odd field; `pc` and `op` are the point in
the asynchronous `dslash` and its update handle. A cell holds the name of the global row
it is a *current* copy of, or `Stale`; a kernel's result is current if everything it
read was. One action per operation of the fields: writes that know their halo
(`zero_or_cold`, site-diagonal operations), writes that do not (`gaussian`, `dslash`),
conversions between full and even-odd fields, and for the eagerly updated fields the
kernel with its exchange. `dslash` is split where the code is: `require_halo_async`,
inner kernel, `finalize`, boundary kernel. Between those the host does nothing else, as
in the code, but the rows are in the links all that time. All four builds (lazy or not,
asynchronous or not) and both memory layouts are parameters.

`phys_width` is the second copy of the width that `physics::lattices::Spinorfield_eo`
has and never updates (section 6).

### HaloQueues and TransferLink
The same exchange as the devices execute it. The host walks through `Program`, a
round at a time: a kernel overwrites the field, the halo is exchanged
(`initialize_update_halo_soa`, `finalize_update_halo_soa`, with the flushes between
them), a kernel reads it. Calls enqueue commands with the event lists of the link's kind
(`LoadWaits`, `TransferWaits`, `DumpWaits`), each link of the kind a benchmark chose
(arbitrary here). A queue executes its head when the events it waits for are complete.
Buffers hold the round their value belongs to; the back migration of `AsyncOclCopy`
leaves its cache undefined. At the end of any round the host may read a result back
from a device and wait for its queue, go on, or form a scalar product
(`hardware/lattices/scalar.hpp`): a reduction on every device, the maps of the partial
results, the wait for all of them (which flushes), the sum the host writes into every
mapped buffer, the unmaps, and a kernel that goes on with the scalar. A scalar buffer
holds a round's partial sum or its sum over all devices (`Sum(n)`).

`TransferLink` is what `hardware::Transfer` promises: per link a queue of at most two
values; `Load` appends the source's value, `Dump` takes the oldest. `HaloQueues`
implements it (`LinksDeliverInOrder`): what is in transit is read off the caches and the
events.

### GenerationRun and MarkovChain
The loop of `generationExecutable` for `hmc` and `su3heatbath` (rhmc runs the first
of the two), with files, crashes and restarts. A configuration is its history, the
positions of the random stream its trajectories were computed with; the generator is
its position; so two configurations are equal exactly if the same random numbers made
them. A file is absent, torn or whole. A store is its steps: setting aside an old
backup, renaming, removing, opening, writing, reading again; `Crash` may come between
any two, `WriteFails` leaves the file torn. The verification notices a torn configuration. A torn
generator file it reads with the reader of a restart, which fills up with memory nobody
has initialized, so it is noticed unless that memory still holds the state that could not
be written (`MEMORY_REPEATS`, `MayReadAsWritten`).
Restarts are the operator's: from numbered files (`StartFromNumbered`), or from the
newest whole copies of `conf.save` and `prng.save` (`StartFromSave`); the operator may
or may not check that the generator's file has its full size
(`OPERATOR_CHECKS_SIZE`), because the program does not.

`MarkovChain` is the promise: a position and the set of positions from which the chain
can be continued exactly. Steps advance the position, add or spoil the checkpoint *of the
present position*, or resume from a checkpoint. `GenerationRun` implements it with
numbered files.

### BinaryCache
`TmpClKernel::operator cl_kernel` for one file of the cache of kernel binaries, in
several processes: look under the shared lock, wait for the exclusive one, look again,
read the sources, compile, write. Processes are started and killed, a listed source or a header is
changed, the disk may be full, and time passes in the seconds the file system keeps.
`raced` is a history variable: the files whose last change the comparison of dates
cannot notice. The locks are the operating system's: a process that ends gives them up.

### Integrator, RootedStaggered, HmcTrajectory, MCHmcTrajectory
`Integrator` gives, for a parameter set, the sequence of updates the code performs,
loop by loop as it is unrolled, the combinations it refuses, and as a reference the
nested scheme. `HmcTrajectory` is `perform_hmc_step` or `perform_rhmc_step` over and over:
heatbath of momenta and pseudofermions, integration of copies, Metropolis test, acceptance.
Its lattice has one link, and its numbers are a finite field (`ModelNumbers`: the integers
modulo P, and pairs of them), so that identities between terms computed in different files
hold exactly or fail. What the code decides (which field, matrix, mass, sign and
coefficient is used where, which solver, what happens on rejection) is kept; space-time
and colour are not.

`RootedStaggered` is what the RHMC adds: the staggered matrix of the one link, which has
one eigenvalue and comes with the parity of its site; the exponents of the three
approximations; their coefficients, scaled to the spectrum found; force and energy as
sums over poles and pseudofermions. Fractional powers need positive numbers. Here the
squares play them: for a prime P that is 3 modulo 4 they are closed under products and have
unique roots of every order that occurs. An approximation is *any* one that is exact at the
spectra it may meet (`InRange`); what the Remez algorithm computes is thereby taken to be
exact. The chain is followed while the eigenvalue stays positive (`HasRoots`), as it always
does on a real lattice.

### KrylovSolvers, MCKrylovSolvers
CG (full fields, even-odd fields on one and on several devices), BiCGstab (`save` and
`fast`) and the multi-shift CG-M, one iteration per action in the order of the code's
statements, called by the inversion, by `md_update_spinorfield_mp` and by the shifted
systems of the RHMC. Fields are pairs modulo 7, so norms vanish only for the zero field
and a solver is finished after two exact iterations. A division by zero gives NaN, which
spreads. Which norms count as smaller than the precision is a parameter: with `{0, 4}` a
solver may also stop early, and with a solution that is only approximate. A
`SolverException` is caught where the code catches it, and CG starts from what the code
hands it.

### EvenOddInversion, MCEvenOddInversion
A measurement of the two-flavour chiral condensate: the check of the version, the
source, the inversion with and without even-odd preconditioning (`convert_to_eoprec`,
`prepare`, solver or its retry, the odd part, `convert_from_eoprec`), and the contraction.
One even and one odd site, spinors of two chiralities with complex entries modulo 3; a gauge
field is its hopping term, any matrix from one site to the other. A solver returns any
solution or throws. `Qplus`, `Qminus` and `Aee` are composed as in `fermionmatrix.cpp`,
with the merged kernels and without. With smearing the program does not come back
(section 5).

## 3. The runs

| run | module, configuration | bounds | states | what it asks |
|---|---|---|---|---|
| `halo_async` | HaloCoherence, `_async` | 2 devices of 3 rows, halo 2, 2 even-odd fields, 1 each of the others; lazy, asynchronous, links | 2 888 | does any sequence of calls use a stale row |
| `halo_sync` | HaloCoherence, `_sync` | 3 devices of 2 rows, 2 even-odd, 2 spinor fields; lazy, through the host | 304 | the eager halos where upper and lower neighbour differ |
| `queues_sync` | HaloQueues, `_sync` | 2 devices, both directions, 2 rounds, `OclCopy` or `DirectGMA` per link | 107 747 | do rounds mix, do blocking calls return |
| `queues_async` | HaloQueues, `_async` | 2 devices, up links, 3 rounds, `AsyncOclCopy` or `DirectGMA` per link | 106 214 | do rounds mix, do queues race, is each link a FIFO |
| `queues_unflushed` | HaloQueues, `_unflushed` | as above, 1 round, `AsyncOclCopy` | violation | section 5 |
| `generation_numbered` | GenerationRun, `_numbered` | hmc, 2 trajectories per start, up to number 4, 2 faults; saved each time, measured every second | 411 441 | is the interrupted chain the uninterrupted one |
| `generation_save` | GenerationRun, `_save` | su3heatbath, 0 or 2 thermalization steps, saved every second trajectory, up to number 8, 3 faults; memory may repeat | 33 736 | what a restart from `.save` files may find |
| `generation_torn_prng` | GenerationRun, `_torn_prng` | hmc, 2 faults | violation | section 5 |
| `hmc` | MCHmcTrajectory, `HmcTrajectory.cfg` | P = 11; 0 to 3 steps per timescale, at most 12 multiplied, from one link; 1 step (and 0, refused) from five links, both solvers, both gauge actions; RHMC from all links, 1 or 2 tastes and pseudofermions | 78 244 | do the unrolled loops perform the scheme, is it one Hamiltonian |
| `solvers` | MCKrylovSolvers, `KrylovSolvers.cfg` | P = 7; 6 matrices, 5 sources, all callers and forms, refresh every 1, 2 or 5, 1 to 5 iterations | 25 623 | do the recursions hold, do returned fields solve, when does the retry fail |
| `inversion` | MCEvenOddInversion, `EvenOddInversion.cfg` | P = 3; 3 hopping terms (one singular), 2 sources, all actions, solvers and versions | 4 428 | is the preconditioned solution the solution |
| `binary_cache` | BinaryCache | 2 processes, 2 listed files and a header, 1 edit, 3 seconds, 1 fault, 3 starts | 287 729 | what lock and dates keep out of the cache |

**Why the bounds are enough.** *Halo*: the protocol couples a device to its two
neighbours and a row to rows at most two away; 2 devices make a neighbour both upper and
lower, 3 tell them apart; local extent 3 leaves an inner row between the boundaries
and extent 2 makes the two boundaries overlap what is sent; a second even-odd field is needed to
have another field's rows in the links. All sizes are covered by the proofs. *Queues*:
a command depends on the previous round of its link and on its neighbours in the queue;
the third round lets a device be two ahead of what its neighbour has dumped, which is
where a missing event would first be felt. Two devices suffice for a link; both
directions are only needed where one could block the other. *Generation*: each
operation of a store can be hit by a crash while the backup, the older backup and the file
exist (this takes three stores of one name, hence number 8 with `.save` files), and
a restart can be interrupted again. *HMC*: 3 steps have a first, an inner and a last;
larger products of steps only repeat them. The field has 11 elements: 5 of them are squares,
and 5 has no factor in common with the denominators 4, 8 and 16, so every root exists and is
unique; an identity of polynomials of the degrees here that fails over the rationals
fails at some of the links and draws, and every mistake among the mutants does. *Solvers*: with
two components two iterations reach the exact solution, so 4 of them see every phase,
the refreshes of 1, 2 and 5 iterations come before, at and after that point, and the matrices
include a multiple of the identity, a triangular one and one with a zero on the diagonal. *Inversion*: hopping from one site to the other and back is
all that preconditioning distinguishes; modulo 3 the solutions of an equation can be found
by trying. *Cache*: two processes are a reader and a writer, or a writer and one that
waits; the third start finds what the first two left; an edit needs one second before and one
after. The proofs of this module drop all these bounds.

**Deadlock** is checked, except in `generation_save`: there the operator stops once
`MaxTrajectory` is reached with no start left, a stop of the model and not of the program.
Where a program ends, the module has an explicit stutter with the condition for it
(`Terminated`, `Aborted`, `Ended`, `Finished`), so that any other stop is reported.

**Fairness.** In `HaloQueues`, for `SynchronizeReturns`: weak fairness of the
host (one thread, never stopped) and of executing a command that was *flushed*. OpenCL
guarantees just that; a command merely enqueued may execute (`Execute`) but nothing
promises it. That difference is what the two `queues_` runs with liveness are about.
`synchronize` flushes the queue it waits for, as `clFinish` does, and so does the wait for
the maps of a scalar product, as `clWaitForEvents` does. In `BinaryCache`, for
`EveryRequestEnds`: weak fairness of the steps of each process between its start and its
end, that is, the operating system schedules it and grants a file lock that stays free.
Nothing is assumed of starting, killing, editing and the clock, and a lock that is taken
again and again needs no stronger fairness only because processes start a finite
number of times (`MaxStarts`).

### The properties

Halo: `MainRowsCurrent`, a device's own rows are what a single device would have
computed, so no kernel ever used a stale or a wrong row; `ClaimedHaloCurrent`, the lazy
width never claims too much; `EagerHaloCurrent`, the other fields' halos are current
between calls, the gauge field's through `md_update_gaugefield` too, which exchanges
nothing and relies on the momenta's halo; `FinalizeFindsItsLoad`, a handle that is still to
be finalized finds rows of its own field and width in the links, also after an exchange was skipped; `BoundaryHaloValid`, the boundary kernel starts with a valid halo
whether or not an exchange was needed.

Queues: `KernelsReadTheirRound`, the halo a kernel reads is of its round, not an older or a
newer one, and the scalar it reads is the sum over all devices; `NoConcurrentAccess`, no two commands that could run together conflict on a
buffer, nor with the host's sum; `LinksDeliverInOrder`; `SynchronizeReturns`.

Generation: `ChainUninterrupted`, configurations in memory, on disk and in the
observables file are those of one uninterrupted run; `ContinuesAtRightTrajectory`, counter
and numbers are the length of the chain; `SavedConfigurationsWereMeasured`, no gap in
the observables; `CheckpointedBeforeNextTrajectory`, no trajectory starts before the checkpoints
due are whole on disk, as long as a failed write is noticed; `LastCopyIsKept`, no step of the
renaming loses the last whole copy, unless a torn file had been moved over the backup
before (two failures in a row may: the property states the exception);
`GeneratorNeverAhead`, with `.save` files a restart may meet a generator *behind* the
gauge field, so that random numbers are used again, by at most what lies between two
saves for each interruption, and never one ahead of it; `ImplementsMarkovChain`.

Trajectory: `IntegratorFollowsScheme`, every force acts for its share of time before each
update of the gauge field; `IntegratorIsReversible`; `MotionConservesEnergy`, the forces and
the speed the links move by leave the energy as it is to first order, whatever the link and the
momentum, and the approximation behind the RHMC's forces is one of the action its
pseudofermions were drawn for; `DeltaHIsEnergyDifference`, the number the Metropolis test
decides by is the change of one Hamiltonian, written down independently;
`ObservablesDescribeConfiguration`.

Solvers: `ResidualFollowsSolution` and `ShiftedResidualsFollow`, the residuals that are
updated and tested are those of the fields that are returned; `ExactAfterTwoIterations`, the
directions are conjugate; `ReturnedSolutionsSolve`, whichever solver it came from, what a
caller gets solves the caller's own equation, for the CG-M for every shift, however long ago it was
frozen; `RetriesSucceed`, a retry with CG fails only for a guess that is no number or the
exact solution. Inversion: `SolvesUpToSign` and `CondensateOfTheMatrix`.

Cache: `ReadsWholeBinaries`, half a binary is read only after a fault; `CompilesOnlyIfMissing`,
the second look works; `StaleOnlyAfterRace`, a binary that is accepted is up to date but for the two
races named there; `EveryRequestEnds`.

## 4. The proofs

All obligations of the proof modules are discharged by TLAPS (SMT, Zenon, LS4 for the temporal
steps); nothing is assumed but the constants' assumptions named in the modules.

**`HaloCoherence_proofs`: every number of devices and fields, every extent, every
build.** Assumptions: `GridAssumption`, `FieldAssumption`, `BuildAssumption` (asynchronous
implies lazy), and that `Stale`, `NoField`, `NoOp` are no ordinary values. The invariants
of the runs are not inductive: that a kernel's result is current needs the halo of its
input, and while a `dslash` is going on part of its output is stale and the link holds
the halo. `IInv` adds the missing parts: types; `phys_width` is zero (so the site-diagonal
operations never promise a halo); every field the program has written is *good* (own rows
current, claimed halo current, the full halo current if the field is eager or the build not
lazy); and, at each point of `dslash`, what the links and the handle promise and which
rows of the output are done. The lemmas go upwards: geometry (`Neighbours`, `StepInTime`:
a step in time commutes with going home, for rows whose neighbours are in memory), the two
exchanges (`FinalizeRight`, `AosRight`), the bookkeeping (`RequireGood`, `MarkDirtyGood`),
kernels (`KernelRight`, `StencilRight`), then one lemma per action. `InductiveInvariant`
gives `TypeCorrect`, `MainRowsAlwaysCurrent`, `ClaimedHaloAlwaysCurrent`,
`EagerHaloAlwaysCurrent`, `FinalizeAlwaysFindsItsLoad` and `BoundaryHaloAlwaysValid`.

**`GenerationRun_proofs`: every number of steps, all intervals, any number of faults and
any length.** The first half of this module assumes `Numbered`: the operator restarts from numbered
files of full size, as in the run `generation_numbered`. Then `IInv` is inductive: types; the stores left are of this
iteration; counter, history and generator agree at each point of the loop in its own way
(`LoopAgrees`: the generator is one draw ahead between a trajectory and its measurement);
every file agrees with its name; every line of the observables with its number. A file is
right because what is written agrees, and a restart agrees because the files do: neither
half holds without the other. From it follow `TypeCorrect`, `ChainIsNeverInterrupted`,
`TrajectoryIsAlwaysRight`, the refinement `RunImplementsMarkovChain` (each step is one of
`MarkovChain` or a stutter; a store touches only its own name, which is that of the present
position), and with further invariants about the steps of a store and about what was
measured, `LastCopyIsAlwaysKept`, `SavedWasAlwaysMeasured` and
`AlwaysCheckpointedBeforeNextTrajectory`. The last assumes `~MEMORY_REPEATS`: a failed write
is noticed (section 5 has the other case). The others do not need it, because the operator does not start
from a short file.

**The second half of `GenerationRun_proofs`: restarts from `.save` files, for every interval, any
number of faults and any length.** The other way to restart has theorems of its own, under `Resumed`: the operator
restarts from the newest whole copies, nothing but the trajectories draws random numbers
(measurements with random sources do, between the gauge field's save and the generator's, and
then a generator *can* be ahead), a failed write is noticed, and the thermalization steps have a
maximum. (`generation_save` checks the properties with `MEMORY_REPEATS` as well; that case is only model-checked.) Again the invariant of the run is far from
inductive: what a restart will find is decided by which copies a half-finished renaming has left.
`SaveInv` follows what the newest whole copies hold (`Saved`): the chain of this process is never shorter
than its generator's position and longer by at most one interval per fault so far (`Keeps`); the
newest generator is that of this save point, or of the last one (`PrngRecent`); the newest gauge field has the
length the chain had then, except while a save point has stored the one and not yet the other (`ConfFollows`,
`PendingInOrder`), which is where a crash costs an interval; a store that has failed has been counted
(`FailureCounted`). The lemma that carries it is `NewestStays`: whatever the point in
a store, no step replaces the newest whole copy by an older one. `GeneratorIsNeverAhead` follows,
and `LastSaveIsAlwaysKept`, which is `LastCopyIsKept` for this kind of restart.

**`HaloQueues_proofs`: every number of devices and rounds, both kinds of halo
exchange, every choice of method for every link.** Assumptions: `GridAssumption`, `BuildAssumption`,
`RoundAssumption`. The first part is about the script of a round, which the host walks through: the
place of each call in it (`Pos`), that the calls of a stream come in the order of their events, that no two
calls have one place. The second part counts. For every stream (the kernels of a device, the loads, transfers,
dumps and migrations of a link) the witness `F` of the invariant says how many of its commands have been
executed: a queue holds just those issued and not executed (`Counted`), in the order of the script (`Ordered`, `Past`),
each with the events the code gives it (`Fits`, `EventsRight`); no stream is further ahead of those it waits for
than these events allow (`InTurn`); a buffer holds the round of the last command that wrote
it (`Contents`); the scalar product has its own part (`Scalars`). That a kernel
reads the halo of its round is then arithmetic on counts: its events are complete, so the dump it needs has
been counted, and the next one has not been issued. `KernelsAlwaysReadTheirRound`, `NeverConcurrentAccess`
and `TypeCorrect` follow, and `QueuesImplementLinks`: every step of the queues is a
step of `TransferLink` or a stutter, for every link.

**`BinaryCache_proofs`: every number of processes, files, edits, faults, starts and seconds.**
The runs' invariants need what `IInv` adds: a process between its second look and the end
of its writing holds the lock exclusively, so at most one does; half a file exists only
while it is written or after a fault; who is about to read still finds a file; what was
read has a date not after the present second; and a file that has changed since it was read
is counted in `raced` as soon as the binary is written, or cannot be accepted. From it
`TypeCorrect`, `WholeBinariesRead`, `CompiledOnce` and `StaleIsRaced`. The last needs the clock:
an edit makes a binary out of date unless it happens in the very second of the writing, which
is one of the two races.

**`ModelNumbers_proofs` and `EvenOddInversion_proofs`: every prime that is 3 modulo 4 as the
numbers, every gauge field, source and set of parameters.** Assumptions: `PAssumption`,
`InversionAssumption`. The first module shows that the model's numbers are what an inversion needs: the
integers modulo P are a field (`HasReciprocal`: every number but zero has a reciprocal, by the least positive
multiple of it there is, and so `Reciprocal` is one), and -1 has no root in it (`MinusOneHasNoRoot`, by
descent on the size of a root), so that complex numbers can be divided, 1 + mu² is never zero and the site-diagonal part of the
matrix can always be inverted. The second builds the program's fields on that: the rules of `Complex`; every
kernel is linear; `SchurComplement`, a solution on the even half gives one of the whole matrix, with the sign
of the open todo; `Adjoint`, gamma5 M(mu) gamma5 is adjoint to M(-mu), from which `TwistedCondensate`, that the
norm the one-end trick computes is the trace. `IInv` says at each point of the inversion what is solved
already (`HalvesPrepared`: the half source is that of the source being measured; `Solved`), and what the code has refused
before (`VersionChecked`). BiCGstab, CG and the retry are what `KrylovSolvers` shows of them: a
solution of the system handed to them, any one, or an exception. `TypeCorrect`, `AlwaysSolvesUpToSign` and
`CondensateIsOfTheMatrix` follow.

**`KrylovSolvers_proofs`: every prime that is 3 modulo 4, every invertible matrix, every source, call and
precision.** Assumptions: `PAssumption`, `KrylovAssumption`. Every operator is *strict*: what is computed from NaN
is NaN (`Strict`), so an identity between fields holds with NaN on both sides, and only identities a caller relies on
need numbers. For CG and BiCGstab `ResidualFollowsSolution` is inductive with the types: a correction moves the residual by the matrix
times itself (`Corrected`), two of them in either order (`AxpyCommutes`, for BiCGstab, which computes the residual in one
and the solution in the other), and the first iteration after Init or a caught exception is a refresh (`RefreshComesFirst`).
For the CG-M it is far from inductive: that the residual of a shifted system stays parallel depends on its direction,
of which no variable holds the product with the matrix. `DirectionFollows` says what this product is in terms of the
first system; solved for it, a quotient of the zetas and betas of two iterations. `ResidualStaysParallel` and
`DirectionStaysParallel` are the two identities behind the formulas for zeta, beta and alpha, polynomials in twelve
and fourteen numbers; `ZetaIs` and `CoefficientsAre` say that the code's quotients satisfy them or are NaN;
`ShiftedGoesOn` puts them together for a field. Zero is the hard case. The residual may vanish before the systems are declared
converged, and the next iteration divides by zero: `Sound` says that then the direction has vanished too, so
that beta becomes NaN at once and everything after it (`BrokenDown`), which no system survives unless it had converged (`Lost`). It
needs that no field but zero has norm zero (`Definite`, from `MinusOneHasNoRoot`). That CG's solution, multiplied by Qminus, solves the
caller's equation is `NormalEquation` (Qplus Qminus is what was inverted) and `Gamma5` (for the inversion, whose source CG
was given times gamma5). From `IInv` follow `TypeCorrect`, `ResidualAlwaysFollows`, `ShiftedResidualsAlwaysFollow` and
`ReturnedAlwaysSolves`.

Two more inductive invariants of this module rest on the first. `TwoSteps` says what has been reached one iteration
after a start and from the second on: for CG the new residual is orthogonal to the old and the new direction conjugate to
the old one, and a plane has no room for a third; for the CG-M the same of the system it updates; for BiCGstab that
the matrix satisfies its characteristic polynomial, so that the polynomial BiCGstab has applied to the first residual
vanishes on the second step. Every one of these has an alternative, that a step has divided by zero.
`ExactAlwaysAfterTwoIterations` follows. `RetriesGoWell` says which field a caller that tries CG after BiCGstab
hands on, and that CG on the normal equation, if it starts from a residual that is a number other than zero, never divides by zero
(`Definite` again) before its second step; so what is left to fail is a guess that is NaN or exact
(`RetriesAlwaysSucceed`).

**`HmcTrajectory_proofs`: every prime that is 3 modulo 4, every set of parameters with any number of
steps, every approximation, link and outcome of the generator.** Assumptions: `PAssumption`,
`StaggeredAssumption` (a mass, and approximations with at least one pole each, all positive), `LambdaAssumption`,
`HmcAssumption`. `maxSteps` bounds the runs and is any number here. The first part needs nothing of what is computed: its `IInv` says that the gauge field is overwritten only
in the last action, and that after the test the observables are those of the field the decision is going to
leave. `ReportedIsKept` follows.

`MotionInv`, the invariant of the rest, says at each point of the step what the pseudofermions are: their
norms at the start are the action they were drawn for, on the link they were drawn on (`EnergyFits`); the
coefficients are those of the molecular dynamics, rescaled to that link (`RescaledFor`); the evolved fields are
what the integrator made of the old ones. None of it can be left out: the test sees the norms, the evolved fields and
coefficients of its own, and only because all of these belong to one action is their difference that of one
Hamiltonian. It rests on four theories.

* *Folds.* The library's induction theorems cannot be used, so folds and sums are computed from least
  counterexamples: `FoldExists`, `Sum`, `Run` (what a sequence of updates does to a state, and that it may be taken apart
  where one likes: `RunConcat`).
* *Integrators.* A level of the integrator is a word, in four forms: its first and its last part, the piece
  between two steps and the whole (`WordsOf`). What the code's loops compute, unrolled over two or three timescales
  and with the kicks of neighbouring steps merged, is the word (`Leapfrog3`, `Twomn3`, and the shorter ones;
  `Trajectory` for the outermost loop), and the word does the same as the
  nested scheme, for any machine on which kicks by the same force add up (`KickRules`, `WordsOK`, `SameRun`). One such machine
  merges kicks: that is `SchemeFollowed`. Another is the motion itself. Every word is a palindrome, and reading it
  backwards with the momentum reversed undoes it (`RunsBackHome`, `MotionUndone`): `MotionReversible`.
* *Rational powers.* Among the squares of the model every number has one root of each order the code uses
  (`OneRoot`, `RootsExist`), so `pow` is a power (`PowTimes`, `PowersFit`); an approximation with the value of its power at
  the rescaled argument exists (`ApproximationExists`) and keeps its meaning under `Rescale_Coefficients` (`RescaledIs`): the
  factors taken out of the poles, residues and constant part belong together.
* *Forces and energies.* Solved either way, `Inverted` is the inverse of the matrix (`InvertedIs`). Each of the forces is the derivative
  of its part of the action: `DetForce`, `RatioForce` (two kernels, the second with the sign in the field) and
  `RootedForce` (pole by pole), added up over the forces of any schedule in `ForcesAddUp`. Each energy after the integration is the
  action (`NewEnergy`), each norm before it too (`WilsonDrawn`, `RatioDrawn`, `RootedDrawn`).

From `MotionInvariant` follow `TypeCorrect`, `SchemeFollowed`, `MotionReversible`, `DeltaHIsRight` and `EnergyIsConserved`.
The last needs that a schedule applies every force of its action and no other (`ScheduleUses`).

**Only model-checked.** Liveness (`SynchronizeReturns`, `EveryRequestEnds`), with the fairness it assumes, is out of the
provers' reach. Every safety property of the passing runs is a theorem.

## 5. What was found

* **`AsyncOclCopy` never flushes** (`hardware/transfer/async_ocl_copy.cpp:94`).
  `transfer` enqueues the transfer and the back migration in queues of the link and flushes neither; nor
  does anyone else. `DirectGMA` does, with the comment "event and buffer will be used by other
  queues -> flush" (`dgma.cpp:131`). `queues_unflushed` shows a blocking call waiting for
  ever for the dump that waits for the transfer. Drivers that submit eagerly hide it.
* **A torn generator file is accepted** (`physics/prng.cpp:78`). `readLine_prngState`
  ignores how much the stream delivered and returns the uninitialised rest of its buffer;
  the check at `prng.cpp:116` is meant to reject a file that "does not seem to contain a
  valid prng state". `generation_torn_prng` shows a crash inside a store and a restart that
  computes with the result.

A second consequence of the same reader has no run of its own: `verifyWritingWasSuccessful`
reads the file with it and compares the device's state with what it returns. Of a short file that is
uninitialised memory, asked for in the very size `store` has just given back (`prng.cpp:198`),
so it may be the state itself, where line 152 means to say "Writing of prng file not successful! Aborting...".
`GenerationRun_numbered.cfg` with `MEMORY_REPEATS = TRUE` lets TLC find
`CheckpointedBeforeNextTrajectory` violated by one failed write. In `generation_save` the constant is
`TRUE`, and the two properties of that run hold all the same.

Noticed on the way, and not counted as findings: `get_valid_halo_width` of
`physics::lattices::Spinorfield_eo` reads a width nothing ever sets
(`physics/lattices/spinorfield_eo.cpp:541`), so that site-diagonal operations always mark
their result dirty and cost exchanges, but nothing is wrong; rhmc warns that with
`savefrequency==0` "NEITHER gaugefield NOR prng will be saved" (`rhmcExecutable.cpp:252`) while
`conf.save` and `prng.save` still are; `require_halo_async` returns nothing in a build that is
not lazy (hence `ASYNC => LAZY` in the models); `smear` and `unsmear` of a constant
`physics::lattices::Gaugefield` call themselves and nothing else
(`physics/lattices/gaugefield.cpp:139`), which is what `perform_inversion` calls when smearing is
asked for, and the `unsmear` below them allocates anew the buffers it is about to restore from
(`hardware/lattices/gaugefield.cpp:355`); the even-odd solution has the wrong sign (an open
todo at `physics/algorithms/inversion.cpp:209`), which one user compensates for
(`wilsonTwoFlavourChiralCondensate.cpp:163`); both forms of BiCGstab report a residual that
vanishes exactly as "stuck" before they look at it, and the retry in the inversion then
divides by it (`RetriesSucceed` states the exception); binaries of kernels are written without a
look at the outcome (`hardware/opencl_compiler.cpp:603`).

## 6. Abstractions and what they hide

* A field is its time slices; space, spin and colour have no state of their own in the
  protocol. Site parity (and with it the warning about odd local extents,
  `geometry/latticeGrid.cpp:49`) is not visible.
* The program reads only fields it has written (`written`), as the algorithms do.
* HaloCoherence and HaloQueues split the question: the first trusts that commands take
  effect in program order, the second checks that this holds of the exchange.
* The uninitialised bytes of a short generator file are a value `Garbage` that poisons what is
  computed from it.
* A lime write that fails throws at once in the code; in the model it leaves a torn file and is
  thrown by the verification, which leaves the same disk.
* The random draws of a trajectory are free choices: what the models say holds whatever is
  drawn. That the momenta are drawn with the variance that belongs to the kinetic energy (the
  factor in `gaugemomentum_gaussian.cl:61`) is a statement about a distribution and is not covered.
* A torn configuration never loads (`ignoreChecksumErrors=false`), `writeFrequency` is
  positive (`hmc` divides by it without a check).
* The observables file is a set of lines and writing one is atomic.
* A finite field has no order: `exp(deltaH)` is compared with a random number by choosing
  the outcome freely, unless `deltaH` is zero, when the code always accepts. In the
  trajectory and the inversion solvers are exact or throw; `KrylovSolvers` looks into them, in exact
  arithmetic: rounding, hence how fast they converge, has no place in it. Smearing
  and the even-odd forms of the Wilson determinant and its forces are left out, as is the
  abort on a Hamiltonian that is not a number.
* The search for the largest eigenvalue finds it.
* A field that can be swapped to host memory is where it is needed: `inversion.cpp` and
  `sources.cpp` swap in and out in pairs.
* The sources a kernel is compiled from are versions, the binary is the versions it was made of. A change
  of a header that is only included is never noticed, so the property speaks of the listed files.
* Time in the integrators is a multiple of a unit chosen so that all step widths are
  integers (`getTau`, `LambdaUnit`).

Every bound is a constant with the word in its comment: `MaxRounds`, `MaxTrajectory`,
`MaxFaults`, `maxSteps`, `MaxEdits`, `MaxTime`, `MaxStarts`. None of them is used by a proof except as an arbitrary number.

## 7. Not modelled

* **Fields on one device only.** Staggered fields have no halo exchange: `update_halo` throws
  (`hardware/lattices/staggeredfield_eo.cpp:63`). Heatbath and overrelaxation assert a single
  device and are a fixed sequence of kernels.
* **Decisions without a state**: the choice of devices (where a requested device is compared by `>`,
  `hardware/system.cpp:213`), properties of devices, layouts of buffers, site indices
  and neighbours inside a time slice, which unit tests cover over their whole range.
* **Bookkeeping nobody reads**: the memory in use by a device, whose maximum is only updated on
  release, is logged and nothing else; profiling likewise.
* **Files in detail**: LIME records, XML, checksums and the text formats of approximations. The
  models use files that are absent, torn or whole.
* **Observables** other than the condensate: sums over the lattice of what the kernels compute.
* **Arithmetic**: the kernels' floating point, the wrappers that set their arguments, the
  generators of random numbers, the Remez algorithm (real analysis in multiple precision), rounding in the
  solvers.
* **Option parsing, logging, timing, benchmarks, third-party code** (a wrapper of the OpenCL
  headers of 75 000 lines among it).
