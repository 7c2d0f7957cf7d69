# A verification project for Venture

Venture is a probabilistic programming platform: a user gives directives
(`assume`, `observe`, `predict`) through a *ripl*; a backend records the random
execution of the model in a trace; inference changes the trace. This directory
holds TLA+ models of the parts of Venture where correctness depends on order:
the Lite backend's trace and the algorithms that change it, the engine's particles
and directives, the pool of workers that holds them, the background thread of
continuous inference, and, of the Puma backend (C++), particle Gibbs in threads, the copy of a trace,
and procedures with statistics and latent states. TLC checks the models on small
instances, and the TLA+ proof system proves the main invariants for all of them.

    tlc -config MCStructure.cfg MCLite     # a run: the table below names each
    tlapm LiteTrace_proofs.tla             # the proofs

## The system

| component | state | operations | interacts with | what is hard |
|---|---|---|---|---|
| **ripl, SIVM** (`python/lib/ripl`, `sivm/`) | directives' syntax, the stack of pausers | `execute_instruction` | calls the engine; pauses continuous inference around an instruction | reentrance (an inference program issues instructions), failure in the middle |
| **engine** (`engine/engine.py`) | the model, the inference trace, the current `ContinuousInferrer` | infer, start, stop | one thread per inferrer; the model's trace set | two threads, no lock |
| **trace set** (`engine/trace_set.py`, `engine/trace.py`) | labels, directives, particles and weights | define, observe, forget, resample, collapse, diversify, for_each_particle, save | maps operations over the particles with a master; copies and serializes traces | an operation that fails on one particle only; traces and weights kept in parallel by hand; copies that change what they copy |
| **masters and workers** (`multiprocess.py`) | pipes, chunks of objects | map, at, stop | processes, threads or callbacks that hold traces | answers that are late, missing or of another call |
| **parallel map** (`backend/lite/parallel_map.py`) | a pipe to and one from each process, one that all share | map | forked processes; inference programs map a function over an array with it (`parallel_mapv_action`) | an answer announced before it is sent; a pipe that is full; a process that dies |
| **Lite trace** (`backend/lite/trace.py, node.py`) | nodes and their edges, families, registries of choices, scopes | eval, uneval, observe, freeze, makeConsistent | regen, detach and scaffolds change it | every structure is kept in two directions by hand |
| **regen, detach, scaffold** (`regen.py, detach.py, scaffold.py, omegadb.py`) | a scaffold, its regeneration counts, an OmegaDB | detachAndExtract, regenAndAttach, constructScaffold | the stochastic procedures' statistics | mutual recursion; detach has to be the mirror image of regen |
| **procedures** (`psp.py, csp.py, msp.py, scope.py, ...`) | statistics, families | apply, incorporate, request | called by regen and detach | collapsed procedures (AAA) whose statistics outlive a move |
| **inference operators** (`infer/*.py`) | the rejected state's database | propose, accept, reject | scaffolds, particles | a rejection restores what the proposal destroyed |
| **particles** (`new_cxx`: `particle.cxx`, `gkernels/pgibbs.cxx`; Lite: `particle.py, infer/pgibbs.py`) | changes over a shared trace | regenerate, copy, commit | threads; regen and detach | threads over one trace, statistics changed in place, the order of the commit |
| **containers** (`inc/smap.h`, Lite: `smap.py, wttree.py, orderedset.py`) | arrays, trees | insert, delete, sample | scopes, traces and particles | indices that move, balance |
| **copies of traces** (`stop_and_copy.cxx`) | a forwarding map | stop_and_copy | every class that a trace refers to | cycles, ownership, keys that are hashed |
| **exchangeable models** (`sps/crp.cxx, dir_mult.cxx, hmm.cxx`) | statistics, latent states | incorporate, unincorporate, simulateLatents, detachLatents | called by regen and detach, piece by piece | an order of pieces nobody thought of |
| **Puma** (`backend/new_cxx`) and **untraced** (`backend/untraced`) | other backends of the same language | | | |
| parsers, macros, value types, distributions, plots, server | | | | numerics and text |

What makes each of the modelled components correct:

* a *trace* is, between operations, exactly what its program and its choices
  say: links agree in both directions, values are those their parents
  determine, families are those requested, registries and statistics count what
  is there, observations hold; a rejected move leaves no mark; no program
  reaches an internal assertion;
* a *pool* gives each call the answers of that call, in order; it runs a
  command on every object also when it fails on one, raises the first failure,
  and leaves nothing in a pipe;
* a *parallel map* computes each task once and puts each result at its index; nobody
  waits for what nobody sends;
* a *trace set* has the same directives in all its particles, weights that count each
  observation of their own particle once, and labels that lead to their directives;
* *continuous inference* never works while an instruction does; the loop the
  user asked for runs whenever no instruction does, until it is stopped or
  crashes; no instruction is kept waiting for ever;
* a *particle* is as good as a private copy of the trace, and the one that
  restores becomes the state that was detached; after the commit the trace's
  registers are complete, and nothing else has changed before it;
* a *copy* has each object once, owned once, in the same shape, hashed when it is
  complete, and shares nothing that can change;
* *statistics* are at every step those of the applications attached, latent states
  those that are requested, and a rejected move restores both.

`PROJECT.json` lists the components, and the hazards at their lines.

## Modules

### The Lite trace

`Drg` (state, nodes, procedures) <- `Regen` <- `Detach` <- `Scaffold` <-
`LiteTrace` (operations, Init, Next) <- `TraceProps` (properties) <- `MCLite`
(programs); `LiteTrace_proofs` EXTENDS `TraceProps`.

* **State.** Fields of a `Node` are functions on node numbers: `node` holds what
  `__init__` fixes, `value`, `children`, `esrParents`, `numRequests`, `madeSP`,
  `spAux`, `aaaAux` what changes. `rcs`, `ccs`, `scopes`, `globalEnv`,
  `families` are the `Trace`'s. `scaffold`, `omega` (the OmegaDB being written)
  and `rhoDB` (the one a restore reads) belong to a move. `live` and `saved`
  are ghosts.
* **Calls.** The Python recurses, and reads between its calls what they have
  changed. The model keeps the call stack in `todo`: one action is one piece of
  a function between two calls, and the rest of the function is pushed behind
  the calls it makes. So `regen`'s visit of parents, the application, and the
  regeneration of an ESR each see the state the former left.
* **Exceptions.** `err` is the message. Assertions that fail and exceptions meant
  for the user both end the behaviour; `NoAssertionFails` tells them apart. A
  node whose value is read while it is detached is an error too (`Ready`).
* **Data.** Values are numbers of `Outcomes`, references to procedures, requests
  and SP records. Procedures: deterministic (`biplex`, `not`, ...), `bernoulli`,
  compound (`make_csp`), `mem`, `tag`, the collapsed and the uncollapsed beta
  Bernoulli coin. A random choice has any value of positive probability.
  Weights are not computed: `weight` is the sequence of terms (node, value,
  arguments, statistics) that are summed, which says more. Acceptance is free.
* **Operations.** `Execute`, `MakeConsistent` and `Propose` start one; the user
  may infer any number of times between two directives, and the engine
  incorporates before it infers.

### Masters and workers

`Workers`, with `Workers_proofs`. The master's thread (`Call`, `Send`, `Sent`,
`Receive`, `Return`), each worker (`Poll`, `Run` on one object, `Reply`,
`ReplyFails`), a pipe per worker as two queues. `Mode` names the four masters. In
the synchronous ones a send returns when the worker's callback has returned
(`SendReturned`). An object's method may fail at any command. In the
`sequential` mode (Venture's default) an exception is not captured and passes
through the worker's poll into the master; in the `multiprocess` mode the answer
may be impossible to pickle.

### Parallel map

`ParallelMap` (lite/parallel_map.py). `pc` is where the caller is, `fl` and `ctr` its
results, `next` its iterator, `at` the process whose announcement it has read; `process`
is, per process, where it is in `process_input`, its index and `ok`. `inq`, `outq` and
`retq` are the pipes. What f computes is the index. An answer that is `big` does not fit
its pipe: it is sent while the caller receives it. The caller's steps are its sends and
receives (`Start`, `StartFails`, `Deal`, `ReadAnnouncement`, `Receive`, `CancelAll`,
`Join`), a process's those of its loop (`Input`, `Compute`, `Announce`, `Send`), and a
process may `Die`.

### Trace set and engine trace

`TraceSet`, with `TraceSet_proofs`. A trace is what the engine's `Trace` knows of it (its directives) and what
the backend does about its observations: those *pending* have not been incorporated.
A weight is the set of observations whose increments are in it, which tells a weight
that belongs to another particle, or counts twice, from the right one; `due`, a ghost,
is what it has to account for. The ghost goes with the trace, and where an operation puts
new weights in the place of the old (`Reweighted`: resample, collapse, equalize) what is due
then follows from what was due (`Counted`) to the traces, to the one copied in a collapse,
and not from the new weights: one put with the wrong trace there differs from it.
Only `likelihood_weight` and `reinit_inference_problem`, which begin a new account, and a
loop that is cut off (`Unwound`) set both alike.

* **Instructions** are functions on a record (`Start`) of the current traces, weights and
  labels and of the loop under way, composed as the code composes them
  (`resample` is `_use_parent`, `create_trace_pool`, `incorporate`), and written to the state
  by `Finish`, which also unwinds a loop when they fail. A mapped command fails on any set
  of traces, and has run on the others as `Workers` says it has.
* **Copies.** On Lite a copy, and in both backends a change of process, goes through a dump,
  which registers the pending observations of the trace dumped (`Lose`); Puma's
  copies (`StopAndCopy`) do not.
* **Loops.** `for_each_trace_sequential` and `on_trace` are `Begin`, `EndTurn` and
  whatever the program does between, resampling included. The loop keeps the traces
  it took out of the model (`originals`). A trace in a turn may be that very object
  (`self`), in which case what is done in the turn shows in what an exception puts back.

The run's violations of what one might expect are in the code, and so in the model: see
the deviations below.

### Continuous inference

`ContinuousInference`, with `ContinuousInference_proofs`. The user's thread and one thread per `ContinuousInferrer`,
each with a stack of tasks; a task is what a thread does between two accesses
of shared state, so that a stop is six steps (read the engine's inferrer, read
its thread, take it, join, read `crashed`, forget). Exceptions unwind through the
pausers' `__exit__`; a pauser is the task that is to exit it, and the SIVM's stack
refers to it by its place. `wanted` is a ghost: the loop the user last asked for.

### Particle Gibbs (Puma)

`Torus` (the program: prelude, border groups, coda) <- `PrivateTraces` (the promise)
and <- `ParticleGibbs` (the code), which also EXTENDS `SamplableMap`;
`ParticleProps` <- `MCParticles` and `ParticleInvariant` <- `ParticleGibbs_proofs`.

* **The detailed model.** A move detaches the border groups from the last to the
  first, starts particles on the first group in threads, clones each generation
  from the one before, and commits the particle that is accepted, or the one that
  restored. A particle's variables hold what it records, `None` or nothing where
  it agrees with the trace, and `getValue`, `getMadeSP`, ... look there first, as
  the code does. One step is one call of regen's or detach's: `processMadeSP`,
  `applyPSP`, `evalRequests` of one ESR, `constrain`, `attach`, and their
  inverses. Statistics are objects in a `heap`, since the code's sharing of them is what
  can go wrong: `aux` are pointers, a particle clones at its first look, an AAA maker
  finds the statistics set aside in `aaa`. What nothing points to is dropped from the
  heap, as by `shared_ptr`. `commit` is as many steps as it makes registrations, then one.
* **The abstract model.** In `PrivateTraces` every particle has complete variables of
  its own, cloning copies them all, and a commit replaces the trace's by the
  particle's in one step. There are no overlays, no pointers and no scopes.
* **The refinement.** `Refines` is `Private!Spec` under the mapping that lays a
  particle's record over the trace (`Overlaid`, `TagsOf`, `StatisticsOf`, ...). While a
  particle is committed the abstract trace is already the particle
  (`Seen`), so that the steps of the commit stutter: that is the statement that the
  commit adds up to the particle, whatever its order.
* **Threads.** Any particle that has steps left may take one, so all interleavings
  of a generation occur. The one that restores the first group starts after the others
  have ended, as in the code; in later groups it runs beside them.
* `SamplableMap` has the array and the dictionary, since `erase` moves the last pair. It
  is used by `Registered` and `Unregistered`, the scopes of the trace.

### Copies of traces (Puma)

`StopAndCopy` <- `MCCopying`, `StopAndCopy_proofs`. `Object`, `Kind` and `Points` describe
the memory; `CopiedFields` has for each class the fields its `copy_help` translates,
in order. The stack is the recursion. `Translate`, `Descend` and `Return` are the
branches of `copy_pointer` and `copy_shared`; `forward` and `owners` are the two
maps of the `ForwardingMap`. Where the order of a container is not the code's (a set of
addresses, the two halves of an inserted pair), `Due` leaves it open. `Points` may
have fields that `CopiedFields` does not: those the copy constructor takes over.

### Exchangeable procedures (Puma)

`Exchangeable` <- `MCExchangeable`. The statistics and latent states of `crp`,
`dir_cat` and `hmm`, and the applications that use them. A move is given what it does
to each application (`block`): its value is drawn anew, or its operand and with
it the request, or both; it is detached backwards, proposed forwards and, when
rejected, detached again and restored from `db`. Weights are in halves, so that a
discount and a cut-off pseudo-count show; which hidden state comes is free.

## Runs

| run | module | asks | distinct states |
|---|---|---|---|
| `structure` | MCLite | the invariants of the trace's structure through four programs, each forgotten before the next | 555 000 |
| `constraints` | MCLite | observations, freezing, forgetting; every operation ends | 215 000 |
| `switch_reject` | MCLite | *violation*: a rejected move leaves a constrained choice changed | |
| `workers` | Workers | answers, failures and termination of a call, also when a worker dies | 7 400 |
| `sequential` | Workers | *violation*: the default master leaves answers in the pipes | |
| `map` | ParallelMap | tasks lost, doubled or misplaced; an answer never sent; what is left; termination | 169 000 |
| `traces` | TraceSet | the particles' directives, weights and labels, with failures and loops | 142 000 |
| `loop` | ContinuousInference | exclusion, one loop, resumption, termination | 282 000 |
| `particles` | MCParticles | the refinement, restoration, registers, statistics, block counts, termination | 32 000 |
| `copying` | MCCopying | one copy, one owner, the same shape, final keys | 2 200 |
| `stale_copy` | MCCopying | *violation*: the copy's requests refer to the original's nodes | |
| `latents` | MCExchangeable | statistics, weights, latent states, restoration | 1 180 000 |

The type invariants of the Lite trace, of the workers and of the copy are in no run: they are
proved (`TypeCorrect`, `PoolTyped`, `CopyTyped`). That of the loop says something of its own, that
the stack of pausers has an entry for each exit to come, and is checked.

Every property has a mutant in `PROJECT.json`: a definition, changed the way a bug
would change it, with which the run finds the property violated.

The violations are disagreements between the code and its documentation or its
assertions, met while modelling; `PROJECT.json` quotes both under "findings". The
passing runs avoid their situations and say what does hold: in `particles` the
collapsed coin with `AAA` is made in the torus and applied after it, so that
its statistics are set aside and discarded but not shared.

Other deviations are in no run. Some can be seen with a changed configuration:

* `AAA = {"coinB"}` in `MCParticles.cfg`, without `UnsharedAssumption`, which it does not
  satisfy, breaks `Refines` and `RestoredAsBefore`: `getAAAMadeSPAux`
  returns the trace's own statistics, and each particle that makes the collapsed procedure
  takes them without a clone (`particle.cxx:505`, `lkernel.cxx:28`), so that they all change
  one object, and the particle that restores does not get back what was detached;
* `ReferenceProgram` as `Directives` of `MCConstraints.cfg` breaks `NoAssertionFails`:
  the regenCounts of a scaffold miss a reference to a coin on the border;
* `DownstreamProgram`, with `"z"` added to `Syms`, breaks `Coherent`: an
  observed value skips the deterministic nodes above it (`regen.py:95`);
* `MCAll` as `Blocks` of `MCExchangeable.cfg` breaks `StateOfIndex`: a move of all choices
  detaches an application with a constant index from the hidden Markov model while
  its request stays, its state is trimmed with another's, and when it is drawn
  again the assertion of `hmm.cxx:195` fails;
* `MCHalf` as `Alpha` of `MCExchangeable.cfg` breaks `Normalized`: the Dirichlet-categorical
  sums fractional pseudo-counts in an `int` (`dir_mult.cxx:46`).

The others the models describe, and their properties make no claim of:

* an answer that cannot be pickled ends the worker and hangs the master
  (`multiprocess.py:379`): `CallReturns` excludes calls in which a worker died;
* an `endloop` inside of the loop's own program makes the thread join itself, which
  fails, and leaves an inferrer without a thread, on which every later stop fails:
  `LoopAsWanted` excludes it;
* a stop from outside may find that the loop's thread has just removed its own
  pauser, and fail with an IndexError (`_drop_top_paused_ci`);
* a new loop that crashes before the instruction that started it has returned is
  taken for no loop, and the one it replaced is restarted;
* `freeze` of an assumption whose choice an observation constrains reaches the
  assertion of `trace.py:130`; the programs do not;
* a parallel map waits for ever for a process that died with a task, since the caller holds
  the write ends of the pipes it reads (`parallel_map.py:92`), and for its first answer when
  the parallelism is 0 (`:39`): `Ends` excepts both;
* after `forget` of a labelled directive by its id, its label cannot be used again, and
  forgetting by the label fails with a KeyError (`trace_set.py:160`): `LabelsLead` says only
  that the label leads to no directive;
* an instruction that fails in some of the particles leaves its directive in the others, and a
  failed incorporation loses the increments of all (`trace_set.py:148`, `:291`); an exception in a
  loop over the particles puts back weights that do not count what the loop incorporated
  (`trace_set.py:318`); a dump uses up pending observations, as after
  `reinit_inference_problem` (`trace.py:201`): `Lockstep` and `WeightsFollow` except these, and
  check that nothing else is lost;
* the ergodic kernel of an `hmm` asserts one output per index (`hmm.cxx:155`), where
  incorporation allows many: the model stops there, as the program does.

### Bounds, and why they are enough

* `MaxNodes` is the most nodes the programs need, garbage collected after each
  operation; with fewer the runs report a deadlock, so nothing is cut off.
* Two outcomes per choice. What the algorithms distinguish of a value is whether
  it changed and which branch, memo table entry or block it selects.
* Programs have three or four choices, and the structures that interact: a
  branch, a shared family, a collapsed coin, a switched reference, a nested and
  a random tag, a constraint that moves. Inference is unbounded: any sequence
  of single, block and global moves, accepted or rejected.
* Three particles on two workers: chunks of unequal size, two calls, since a
  left-over answer shows at the next call.
* Parallel map: up to four tasks and up to three processes: none, one, more than the tasks,
  and fewer, with two tasks for one of them. One process dies, anywhere.
* Trace set: three particles, two directives, one failure and one label, of which at most four
  together (`MaxSize`), so that a loop of two turns may grow in one of them, a label may be used
  again, and a failure meets either another particle or another directive.
* Particle Gibbs: two border groups, since a generation is cloned from another; one
  new particle beside the one that restores, since two are what can share; two moves,
  since the second finds what the first committed. The program has each kind of
  step, a family that is there and one that is not, a choice that the torus absorbs, a tag
  whose block is drawn, and a coda that needs what the torus made.
* Copying: one trace of 47 objects with cycles through keys, families, environments and
  values. It has no compound procedure, dictionary or statistics, whose copies go like
  those of a memoised procedure, an array and an empty object; the theorems are for any
  heap of all kinds.
* Exchangeable: three applications, of which an `hmm`'s have two drawn indices and a
  constant one; indices up to 2, which leaves a gap below the last;
  five table numbers, of which an observation may name any.
* Three instructions and six loops (two per instruction is the most there can
  be): an instruction that pauses, one that starts, one that stops.

### Fairness

* `LiteTrace`: weak fairness of `Next`; a call that runs is never preempted.
* `Workers`: weak fairness of the master's steps and of each worker's. A worker
  is a thread or process in a loop around a blocking receive. The client need
  not call.
* `ParallelMap`: weak fairness of the caller and of each process, which the operating
  system schedules; f is taken to end. Nothing has to die.
* `ParticleGibbs`: weak fairness of `Next`. The kernel joins every thread of a generation
  before it goes on, and a thread's regeneration is finite, so it is enough that some step
  is taken. The next move need not begin.
* `StopAndCopy`, `TraceSet`, `Exchangeable`: no fairness and no liveness.
* `ContinuousInference`: weak fairness of each thread: Python's interpreter
  switches between threads that can run. The user need not give instructions,
  and no loop needs to crash.

## Proofs

**Lite trace** (`LiteTrace_proofs`, 1 411 obligations). `TypeCorrect` and
`RequestsCounted` hold for every program, every prelude and every number of nodes,
from `NodesAssumption` alone. `numRequests` decides when a family is unevaluated
(`detach.py:221`), and is kept by hand by `addESREdge` and `popLastESRParent`.
The invariant is

    IInv == TypeOK /\ StackOK /\ DatabaseOK /\ EdgesFinite /\ RequestAccounting

`TypeOK` is not inductive: the next action reads a node from the call stack or a
family from a database, so `StackOK` (pending calls name nodes of the kind they
need, e.g. a request node for `evalRequests`) and `DatabaseOK` (families kept in
an OmegaDB have roots that are nodes) come in; `RequestAccounting` counts a set of
edges, which has to be finite. There is a lemma per group of actions
(`RegenKeepsIInv`, `DetachKeepsIInv`, `ScaffoldKeepsIInv`, `ExecuteKeepsIInv`, ...); the
arithmetic is in `AddKeepsAccounts` and `DropKeepsAccounts`.

**Workers** (`Workers_proofs`, 977 obligations). `PoolTyped` holds in every mode;
`AnswersBelong` (`AnswersMatch`) and `QuietBetweenCalls` (`Quiescent`) for every number of
particles, workers and calls in every mode but `sequential`, where `sequential`
shows them false. The invariant is

    IInv == Typed /\ Rounds /\ Collecting

`Rounds` says of each worker where the current call is: not sent, in its pipe,
run so far on the first objects of those addressed, or answered; and that a
worker that is not addressed has nothing. `Collecting` says that the answers
received are those of the workers before `turn`. The lemmas before them show that
the chunks are adjacent, apart, and cover all objects (`ChunksCover`), which is
why `at` reaches the worker that holds its object.

`RunsEverywhere` (`RanEverywhere`) and `RaisesFirst` (`FirstFailureRaised`) are about what
the objects have been through, and need `RanInv` beside `IInv`. It relates the record of
each object to the round its worker is in: the current call is on it once when the worker
is past the object (`Recording`) or has been stopped with everything done (`Stopping`),
and not yet otherwise; records are in the order of the calls (`InOrder`) and are of
objects that were addressed (`OnlyAddressed`); and what the call raises is the first error
among the answers (`Raising`). That the first error among the answers is that of the first
object comes from `ChunksCover` and a least index (`LeastResult`).

**Continuous inference** (`ContinuousInference_proofs`, 7 127 obligations).
`LoopsKnown` (`OneLoop`) and `WorkExcludes` (`Exclusive`) hold for any number of loops
and instructions, whatever the loops' programs are, and for the behaviours in which an
`endloop` or a stop fails, too: where the engine loses its way it fails to stop a loop,
and never works beside it. The invariant is

    IInv == Plain /\ UserInv /\ LoopInv /\ AtWork

Neither property says why a thread may go on. `UserInv` does, from the order of the
tasks on the user's stack (`Adjacent`): what needs the loops to be gone stands
behind a stop, a launch behind the loop it launches, and work is never behind
anything; so when a task of that kind is next (`Ready`), the join before it has
just seen the loop's thread end. `LoopInv` says that a loop stops only itself (which
fails) and pauses nothing, so that it never forgets or launches a loop, and that
its outermost task is the iteration. There is a lemma per action (`JoinKeeps`,
`EnterKeeps`, ...), over lemmas for a stack whose head is replaced, returns or
raises (`UserPush`, `UserPop`, `UserRaise`, and the loop's). That `Unwound` leaves a
suffix needs a least handler, which `Least` gets from the well-foundedness of <.

`PausersCounted` (`TypeOK`) adds `Counted`: the stack of pausers is as long as there are
exits to come, on the threads' stacks together. Only `Enter` adds an exit and only `Leave`
takes one away; that an exception takes none away is `UnwoundExits`, because `Unwound` stops
at the first exit. The proof moves one thread's count at a time (`StackCounts`).

`LoopWanted` (`LoopAsWanted`) adds `Programmed` and `Planned`. `Planned` says that the user's
stack of tasks is always one of a few shapes: what is left of a stop, on what is left of an
instruction, on up to two exits, of which the outer one has paused a program `q`
(`StopOn`, `BlockOn`, `Left`, `Shaped`). It relates the shape to the engine (`Standing`), to
the stack of pausers (`Pausing`: what is paused can be reached by `_drop_top_paused_ci`) and
to what is wanted (`Wanting`: the loop that is wanted is running, or is being stopped by
someone who will know it, or is paused, or about to be started; when nothing is wanted, no
part of the stack starts anything). `Programmed` is what a loop's program allows on the
loop's own stack: only `endloop` takes a thread or searches the stack of pausers. A
search down the stack finds the one pauser that has paused something (`PausedLast`), whoever
searches. When the stack is empty only `Wanting` is left of the plan (`IdlePlan`). No claim
is made of a loop that says `endloop` itself or has crashed; `LoopAsWanted` makes none.

**The copy of a trace** (`StopAndCopy_proofs`). `CopyTyped` (`TypeOK`), `EachCopiedOnce`
(`CopiedOnce`) and `SameShape` (`Isomorphic`) hold for every memory: any number of objects,
any cycles, containers of any length, and any order of their elements. The last
assumes `Covered`, the contract that stop_and_copy.cxx:34-36 states: a field that is not
translated holds nothing that is copied. TLC evaluates it for the heap of `copying`
(`HeapCovered`). Objects of classes without a `copy_help` are not copied, and no claim is
made of what they hold: that is `stale_copy`. The invariant is

    IInv == Forwards /\ Stacked /\ Written /\ Complete /\ Owners

`Forwards`: the forwarding pointer of an object is to a copy of that object.
`Stacked`: what is on the stack has a copy, and the place it was asked for is one of
the frame below that points to it. `Written`: every pointer written is the image of its
target, which has a copy by then, if it needs one. `Complete`: what has a copy and is
not on the stack has all its places written. From the last two the shape follows when
the stack is empty.

`CopiesOwnedOnce` (`OwnedOnce`) assumes `OwnedOriginally(Reached(Trace))`: among what the
trace leads to, each object is kept by shared pointers or deleted by one output node, as
the trace's own destructor needs it. That the walk meets exactly these objects (`OwnInv`,
`CopiedIsReached`) and makes a shared pointer for each that one was made of originally
(`Counted`) carries this over to the copy. `KeysComplete` (`KeysFinal`) assumes that no
part of a hashed key leads back to its table (`KeysApart`); what is under way leads to what
is being written (`LeadsUp`), so that no part of a key can be. TLC evaluates both
assumptions for the heap of `copying` (`HeapOwned`, `HeapKeys`), with reachability computed.

**Particle Gibbs** (`ParticleGibbs_proofs`; its invariants are defined in `ParticleInvariant`, with
what each kind of step does, which the lemmas establish and the rest uses). `BlocksToDraw`
(`ScopesWellFormed`) holds for every program, every number of border groups and
particles, and every interleaving: the dictionary and the array of each scope agree,
no block and no scope is empty, and outside of a commit the blocks of the
default scope are the unconstrained choices, so that a block can be drawn, uniformly.
The invariant is `ScopesOK(scopes)` with `Records`: the default tags and the
unconstrained choices of the trace and of each particle match (`Matches`), and during a
commit those of the trace match but for the tags that are still to be registered
(`toTag`). The lemmas at its head, about the samplable map, say what `set`, `assign` and `erase`
do to the contents and that they keep `Indexed`; `EraseRemoves` is the one that has
to look at whether the pair erased is the last. `BlocksCounted` (`BlocksAgree`)
is about a number that `numBlocksInScope` takes from the trace's register and the
particle's without building their union. `JInv` adds to the invariant that tags and choices have
values where the steps read them (`Committing`, `ValuesOK`, `TagsOK`: a default tag has the choice
itself as its block); `Matches` says that the default blocks are the
unconstrained choices, and `ScopesOK` that the dictionary of a scope has every block that is
tagged and no other, so that the two sums the code takes count each block once.

`ParticlesPrivate` is the refinement: `Spec => Refines`, under the mapping of `ParticleProps`.
It assumes of a program (`Torus`): that border groups are consecutive (`ProgramAssumption`);
that `None` is no value, node, procedure or pointer (`NoneAssumption`); that a procedure is made once
and before it is applied, and that a node requests once (`OrderAssumption`), as the
scaffold's order and a trace that can be evaluated have it; and that the torus does not apply a
procedure whose statistics it takes out, absorbs and puts back (`UnsharedAssumption`), without
which the refinement is false (see the deviations). TLC evaluates all four for the program of
`particles`. The invariant is

    KInv == JInv /\ Consistent

and `RecordsInvariant` states it. What the refinement needs of it:

* `Stages` and `Present`: which particles there are and how far each has come; one that is not live
  records nothing. `MadeOK` and `RequestedOK` relate that to the records: what a trace or particle
  has been through is made or requested in it, so that a step of the abstract trace is
  enabled exactly when it is in the record, and not by what the trace beneath still has.
* `MakersOK`: a maker without a procedure has no families and no statistics; an AAA maker is
  discarded by a particle if and only if the particle has made it, so that laying the record over
  `aaa` gives what the abstract particle has set aside.
* `OldPointers` and `OwnPointers`: pointers are to objects that there are, of the right maker, and an
  object is older than the move, or of the one particle whose name is in its address. So a write
  through `OwnAux` changes what one particle shows (`Private` steps change one `t`), and one
  through a pointer taken from `aaa` or the database does not happen.
* `SetAside`: what `db.aux` points to is what was saved at the detachment (the abstract model has
  the statistics themselves in its database) until the particle that restores has taken it, and
  then nobody else points to it. That the others do not restore, and that only one particle of
  a generation does, is why this is inductive across `Clone` and `Advance`.
* `CommitOK`: what is registered so far and what is left (`toTag`, `toConstrain`) make up the
  particle. With it each step of the commit leaves everything shown as it is, and `CommitRest` makes
  the trace what it has shown since `CommitChoices`.

Each action then has a lemma: those of `Regen` and `Detach` map to the abstract action of the
same name, in the trace or in one particle (`RegenSimulated`, `DetachSimulated`), of `Move`
`CommitChoices` maps to the whole abstract commit, and `CommitTag`, `CommitConstraint` and
`CommitRest` stutter (`MoveSimulated`). Fairness is not part of `Refines`.

**The trace set** (`TraceSet_proofs`). `LabelsMatch` (`LabelsLead`), `ParticlesAgree`
(`Lockstep`) and `WeightsAccount` (`WeightsFollow`) hold for any labels and numbers of
directives, particles and failures, from `BoundsAssumption` and `NoneAssumption` (no label is
`None`). The invariant is in three layers:

    IInv == counter \in 0..MaxDid /\ Sound(Start, counter)
    JInv == IInv /\ InStep(Start)
    KInv == JInv /\ Due(Start, counter)

The properties speak of the current particles only, and none is inductive: a loop puts its
other traces back in the end, and a failure those it had taken out. So each layer is about
the traces of a loop as well. `Sound` says of all of them that they are `Fitting`: they have
every directive with a label, none that a label leads to in vain, and none not numbered yet
(so that a new directive is nobody's); and of the maps that they are inverse (`Labels`). `InStep`
says that there are two sets, the directives evaluated and observed, that all these traces
have but for what is `torn`. Most operations change a trace without changing its
directives, and `Fitting` and `Alike` are `Closed` under that, so the lemmas about `dump`,
`incorporate`, `resample`, `create_trace_pool`, `Finish` and the turns of a loop are stated
for any `Closed` set of traces (`Leaves`) and serve both layers; `TellSound`, `PutSound`,
`ForgetSound` and `UnputSound`, and `TellAlike` and `ForgottenAlike`, are about the operations that do
move labels or directives. Where a forget fails in some particles, that the directive had no
label is what saves the labels, and that its traces are torn what saves the step.

`Due` is about weights. The traces of the model, those of a loop whose turn is to come, and
those whose turn is done are `Owed`: what is due is what is counted or pending, apart from
each other. The trace of the turn itself is not, as its weight changes with the model; but
if an instruction fails, the loop gives it the weight it began with, so it has to stay
`Apart` from that weight all the time (`Sparing`): nothing in that weight becomes pending
again. This is so as nothing becomes pending but a new directive, except in
`reinit_inference_problem`, which is refused in a loop. `Succeeds` says what may become of a
trace in its place (`ChangedDue`), `Eased` what registers its observations and drops their
increments (`EasedDue`), `Pooled` where the traces of a new pool come from (`PoolSpared`).
Where weights are replaced, `CountedIs` and `EvenCounted` say that traces which are owed
their weights have counted just these, so that what is due to a copy after a collapse or a
resample is what the code gives it. There is a lemma per action in each layer. TLC has checked `Due` on the instance of `traces`.

**The parallel map** (`ParallelMap_proofs`). `TasksInOnePlace` (`EachInOnePlace`), `MapsAll`
(`MappedAll`) and `AnnouncementsTrue` (`AnswersAnnounced`, in no run of its own) hold for any
number of tasks, processes and deaths, from `BoundsAssumption` and `CancelAssumption` (`None`
is no index). The invariant is

    IInv == TypeOK /\ Slots /\ Fresh /\ Finished /\ Results /\ Joined /\ Places /\ AnswersAnnounced

`Slots` says that a process has one thing at most, in its input, at work or in its output;
with it a pipe of answers, and what is received, is known without an induction over
sequences. `Places` is `EachInOnePlace` without the lengths. `AnswersAnnounced` decides that
an announcement is new when it is written, and that it is of what `Receive` then takes away;
`Fresh` and `Finished` carry this from the start to the end, where a count of zero means that
everything is done (`AllDone`), so that nothing can be left in a pipe. There is a lemma per
action; most move one thing within its process (`OnlyWithin`) or do not move it (`OnlyWhere`).

**Exchangeable procedures** (`Exchangeable_proofs`). `CountsSuffice` (`Sufficient`) holds for any
applications, blocks, parameters and values, from the four assumptions of `Exchangeable`
(finitely many applications; `None` is no value; indices are numbers; a block moves some
applications in one of the three ways). Its invariant `IInv` has two parts. `KeepsAll` says that the
statistics are those of the applications that have an index and a value; one lemma per procedure says
that `incorporate` adds one application and `unincorporate` takes one away (`SeatsJoin`,
`SeatsLeave`, `TalliesJoin`, `EmitsJoin`), so that the order of a move does not matter. `MoveInv` says
where a move is: the applications before a place are attached, the others are not
(`Positions`), and what was there before is untouched, put back, or in the database (`Untouched`,
`PutBack`, `Extracted`); detachment and regeneration of one application are inverse steps
between the same two places (`Turns`), which is the argument for all four kinds of step.

`LatentsFollow` (`LatentsCover`), `RejectUndoes` (`RejectRestores`) and `StatesFound`
(`StateOfIndex`, in no passing run of its own) assume that no block moves the outputs of some
applications and the requests of others (`Unmixed`), which TLC evaluates for the blocks of `latents`
(`BlocksUnmixed`). The code needs it: with a block that does not satisfy it the assertion
of `hmm.cxx:195` fails (see above). `JInv` adds `Depth`, that at every step, in the middle of a move
too, there are as many hidden states as the largest request needs; and `Latents`, that a prefix of the
states is as before the move and the others are in the latent database. While things are proposed and
undone the prefix is the one that the applications not moved need (`Bottom`); that exactly it is
left when everything that moves is detached (`TurnStates`) makes restoration exact. TLC has
checked `JInv` on the instance of `latents`, and `IInv` also with `MCAll`.

Only model-checked: liveness (`Terminates`, `CallReturns`, `InstructionReturns`,
`MovesEnd`, `Ends`), which needs ENABLED; `Normalized`, a sum over the tables by a fold, which needs
induction over data; `StatisticsCount` and `RestoredAsBefore`, which `ParticlesPrivate` reduces to
properties of `PrivateTraces` that remain to be proved; and the other invariants of the Lite trace:
they do not hold for every program (`switch_reject` shows one that breaks
`RejectRestores`), and a theorem about the programs for which they do needs the
invariants of the call stack of `regen` and `detach`, node by node. No
induction over data and no ENABLED occurs in a proof.

## What is not modelled

Of the Lite trace: latent requests, delta kernels, gradients, subsampled
scaffolds, copying and serialization. Of `infer/`: everything but resimulation
MH; the operators left out differ by their arithmetic (slice, HMC, mean field) or
work on particles. Of the pool: the content of commands. Of the
parallel map: an interrupt of the caller, which leaves the processes alive. Of the trace set: several models in one
engine (`in_model`), whose directives one counter numbers, so that `load_model_string`, which
sets it back for all (`engine.py:387`), leads to the assertion of `trace.py:54`; freeze and
report; foreign procedures, which diversifying and Puma's copies drop (`trace.py:162`, `:174`);
weights that a program sets. Of continuous
inference: a second user thread; the ripl serves one (`engine.py:351` reads
`inferrer` "atomically", which is not enough for two: both may take the same
thread). Of Puma's particles: ergodic kernels and latent states in particles,
lookups and deterministic nodes (their values are those of what they depend on),
weights, enumerative Gibbs and functional MH (which, rejected, has
nothing to put back into the trace it detached, `func_mh.cxx:53`). Of the copies:
foreign procedures and the random state. Of the exchangeable procedures: Gaussian
processes and multivariate normals, whose statistics are matrices.

Numbers, densities, parsing, plotting and the web server are left out. Most of
the C and C++ in the repository is the vendored Eigen library
(`backend/new_cxx/inc/Eigen`), which has nothing to do with the program's own
control; the models cover the order of the calls above it, and, of the Python,
the backend and the engine's core.

## Plan

1. *(done)* Lite trace, workers, continuous inference, with their proofs.
2. *(done)* `SamplableMap`; particle Gibbs over it, shown to implement private traces; the
   copy of a trace; exchangeable procedures and latent states.
3. *(done)* `TraceSet`: labels, directives and weights over particles, a map over the
   particles that fails in some, loops over particles. To come: several models with one counter.
4. Enumerative Gibbs and functional MH on `ParticleGibbs`; ergodic kernels in particles.
5. *(done)* `ParallelMap`: the pipes of `parallel_map.py`, a process that dies. To come:
   `wttree` against sorted sequences.
6. *(done)* `Refines` of `ParticleGibbs` proved step by step. To come: `StatisticsCount` and
   `RestoredAsBefore`, as invariants of `PrivateTraces` carried over by it; of the Lite trace `EdgesWithinLive` towards `WellLinked`, and
   disjointness of `rcs` and `ccs` towards `Registered`.
