# TLA+ models of my-nn-engine

A verification project for the engine in this repository: a compiler and
runtime that lowers an ONNX graph to LLVM IR (CPU) or CUDA C++ (GPU) and runs it
on one device or split over both. The models cover the parts of the engine where
a mistake is silent. At the centre are **memory planning, stream scheduling and
the execution of the plan**: a wrong plan does not crash, it computes from a
buffer that another kernel has overwritten, on some graphs, on some devices, at
some timings. Around it are the passes that rewrite and lower the graph, the
kernels themselves, the sessions that share buffers, the collectives, and the
language-model session and chat service built on top.

Paths below are relative to the repository root.

## 1. The system

### Components

| component | source | state it keeps | operations | what makes it correct |
|-|-|-|-|-|
| Chunk allocator | `src/schedule/scheduler/common.rs` | chunk table (arena, size, live uses), free lists per arena and stream | `alloc`, `add_uses`, `consume`, `release_if_dead`, `free` | a slot is never handed out while it is in use, never twice, never lost; slots do not overlap |
| Derived tables | `src/schedule.rs`, `Deps` in `common.rs` | none after construction | `output_aliases`, `must_in_place_input`, `Deps::new` | every output has a buffer, every read is counted |
| Placement | `src/schedule/placement.rs` | none | uniform, KV touch, resident budget | a session state stays on one device |
| Memory-aware scheduler | `src/schedule/scheduler/memory_aware.rs` | value places, remaining uses, copies per tier, ready set, stream loads, the steps | `run`, `schedule_kernel`, `bind_kernel`, `ensure_value_on_tier`, `finalize_outputs`, `into_plan` | the plan is complete, ordered and executable; no live value is overwritten |
| Prefetch scheduler | `src/schedule/scheduler/prefetch.rs` | the same plus host-resident weights, staging ring, copy stream | `schedule_kernel`, `bind_kernel`, `finalize_outputs` | a weight is in its staging chunk when its kernel runs |
| Kernel construction | `src/schedule/kernel.rs` | union-find of fused nodes | `try_fuse`, `build_bundled_ops`, `run` | fusing keeps the graph acyclic and every escaping value an output |
| Plan execution, CPU | `src/codegen/cpu.rs`, `src/session/cpu.rs` | arenas | `compile_main`, `need_to_generate` | outputs = data flow |
| Plan execution, CUDA | `src/codegen/cuda.rs`, `src/session/cuda.rs` | streams, events, arenas | `gen_computes`, `call_kernel`, `emit_transfer` | the same, whatever the streams' relative speed |
| Plan execution, hybrid | `src/session/hybrid.rs` | both arenas | `run` | the same over two devices |
| Persistent buffers | `src/session.rs`, `src/session/device_buffer.rs` | named session states | insert, set, advance | sizes and residency agree with the plan |
| Collectives | `src/collective.rs`, `crates/comm/src/*` | a star of Unix sockets | `connect`, `all_reduce`, `barrier` | all ranks get the same sum; nobody waits for ever |
| LLM sessions | `crates/llm/src/session.rs` | position, KV fill, streaming ring | prefill, decode, rewind | attention sees exactly the rows of the live window |
| Chat service | `crates/ui/src/{llm,grpc_service,models}.rs` | sessions by id, histories, model registry | chat stream, evict, warm-up | histories alternate, streams end, locks are released |
| Graph and its editor | `src/graph.rs`, `src/graph/utils.rs`, `src/transform/modify.rs` | nodes, users and definers of each value | register, replace, sweep, compare, sort, delete | the indices are true, graphs called equal compute the same |
| Optimising passes | `src/transform/optimize/*`, `src/transform/pattern.rs` | none | the passes of `create_optimize_passes`, in order | outputs, declared types, no panic, patterns found |
| Lowering and epilog | `src/transform/lower/*`, `utils.rs`, `epilog.rs` | none | strides, copies, bundles of views, folding | the n-th element of an output is at address n |
| Tensors | `src/tensor/types.rs` | none | reshape, broadcast, contiguity, storage size | a view shows the elements where they were |
| Kernel bodies | `src/codegen/cpu/translator.rs`, `codegen/cpu/kernels/*`, `codegen/cuda.rs`, `codegen/cuda/cpp/*` | none; threads share loops | one body per operator | each computes its operator |
| ONNX files, HF files, front end | `src/onnx/*`, `crates/llm/src/hf_*`, `crates/bench-llm`, `crates/test-tools` | plain data | parsing, printing | not modelled |

### How they interact

`graph -> transform -> kernel construction -> placement -> scheduler -> code
generation -> session`. The scheduler (`create_schedule_passes`, `schedule.rs`
78-103: the prefetch scheduler for CUDA builds that ask for it, the memory-aware
one for everything else) calls the chunk allocator for each operand it binds and
emits an `ExecutionPlan`: a list of kernel, transfer and wait steps. The code
generators and the hybrid session take that list and nothing else, each in its
own way:

* **CPU** calls the kernels in plan order and ignores every other step;
* **CUDA** launches kernels and transfers on the streams the plan names. A
  stream works through its launches in order, streams run side by side, and a
  `SyncWait` makes the next launch wait for an event;
* **hybrid** walks the list on the host: CPU kernels run on the spot, CUDA kernels
  are launched on a stream, transfers are blocking `cudaMemcpy` calls.

### What is hard in it

* Memory is recycled **at planning time** by counting the reads to come, while
  the steps run later and, on several streams, overlap.
* One value may be in several places: the chunk it was computed in, a copy on
  the other device, an output buffer, a session state updated in place.
* Forwards (`Identity`, `Reinterpret`) make values share one place, so that the
  life of a chunk is the life of several values.
* The three executors read one plan differently: what one gets from a transfer,
  another skips.
* The plan is right or wrong as a whole: a wait, a use or a transfer that is
  missing shows only for some graphs and timings, and no assertion of the code
  looks at it.

* A pass decides by what the passes before it left; a rewrite that is right alone
  may be wrong after another.
* The same operator is written for two targets, fused and unfused, dense and
  transposed, with a ring and without: the forms must agree, and tests run few.
* A session outlives its calls: a truncated answer, a failing run or a full cache
  leaves a state that the next call starts from.
* Sockets, locks and clients that stop: who waits for whom, and for how long.

`PROJECT.json` lists the hazards at the line where they bite, with the
properties that would catch them.

## 2. The modules

```
memory planning
  Chunks            tables and methods of the allocator, as pure operators
    ChunkAllocator      the allocator as a state machine under its callers' discipline
      ChunkAllocator_proofs
  KernelGraph       the scheduler's input and the tables derived from it
    Placement           the placement strategies
    Dataflow            abstract specification: what running a graph promises
    MemoryAware         the scheduler (uses Chunks; implements ChunkAllocator)
      MemoryAware_proofs, MemoryAware_accounts
      PlannedRun        the plan's execution on CPU, CUDA, hybrid (implements Dataflow)
      Prefetch          the scheduler that streams weights (implements ChunkAllocator)
the compiler in front of it
  GraphEdit         a graph under the calls of the passes
  OpGraph           comparing, sorting and cutting down a graph
    KernelFusion        kernels built from nodes
  OpMeaning         what operators compute, over a prime field
    Rewrites            the optimising passes
  Layout            dimensions and strides; what a loop nest leaves in memory
    Views               strides, copies and bundles of views, from lowering to the epilog
    Nhwc                convolutions in NHWC: conversions inserted, sunk, folded, lowered
the code it generates
  CpuWindows, CpuMoves, CpuElementwise, Matrices, Attention, Rows
  CpuLoops          a loop shared by a team of threads
    CpuLoops_proofs
what runs it
  Sessions          sessions that share persistent buffers
  Rendezvous        abstract specification: what a collective promises
    CommHub             collectives over sockets (implements Rendezvous)
      CommHub_proofs
  LlmSession        one conversation's KV cache
    LlmSession_proofs
  ChatService       chats, turns and clients
  ModelRegistry     the loaded models
    Services_proofs     of both
Induction           induction over the natural numbers, for the proofs
MC_*                the instances for TLC; MC_MemoryAware has the graphs of the scheduler's runs
```

A module is checked in the run of the MC module that instantiates it. An MC
module of several parts (`MC_LlmSession`, `MC_ChatService`, `MC_Graph`,
`MC_Kernels`, `MC_PrefetchRun`) chooses one part in its initial state; the
parts share no variable and the others stand still, so that a run is the union
of the parts' state spaces. What is checked of a part is stated there once, as
`part = "..." => Instance!PropertyA /\ Instance!PropertyB ...`; the properties
themselves are defined, with a comment each, in the module of the component.

### Chunks and ChunkAllocator

`chunks` is `ChunkAllocator.all_chunks`, `free` is
`arena2chunks[_].free_per_stream` (an arena is named by its memory tier, as the
schedulers open one per tier). `fresh` has no counterpart in the code: it is the
chunk a caller has allocated with no use and not yet released, that is, dead and
on no free list. `mark_as_first_use` is left out, since nothing reads its flag.
The allocator itself accepts any call: a `consume` of a dead chunk saturates and
pushes the chunk a second time. The guards of `Alloc`, `AddUses`,
`ReleaseIfDead` and `Consume` are the discipline callers must keep, the
invariants what it buys. That the discipline is a fact about the callers and
not a wish is checked in both schedulers (`AllocatorDiscipline`,
`RingDiscipline`: the scheduler implements `ChunkAllocator`, `fresh` being
computed from the scheduler's state).

### KernelGraph and Placement

A graph is a constant record: kernels with operands and device, and the
inputs, initializers, session states, scalars, outputs and sizes. Operators are
only told apart where the scheduler does so: a *forward* (`Identity`,
`Reinterpret`), an *in-place* kernel (`KVCacheUpdate` and
`QuantizingKVCacheUpdate`, whose output must share the cache's buffer; the
quantizing one also writes the scales it takes as an input), and all others.
`OutputAliases` follows the stack walk of `Schedule::output_aliases` including
the overwriting of an alias. `WellFormed` says what the earlier passes
guarantee: operands are values of the graph, in topological order, each with one
source; a kernel's outputs are distinct and none is an input of it; scratch memory
has one reader; a session state has one cache update. `MemoryAware` assumes it of
every graph, and TLC evaluates it on each.

`Placement` has one operator per strategy. `ResidentBudget` states the fixed
point the code's snapping loop reaches: the largest cut not above the weight cut
that straddles no session state.

### MemoryAware

The scheduler is sequential, and an action is one pass of an innermost loop, so
that each step makes at most one allocator call:

| action | code in `memory_aware.rs` |
|-|-|
| `PickKernel` | `run`, `pick_best`, `pick_stream`, head of `schedule_kernel` (166-394) |
| `BindInitializer`, `BindWorkspace`, `BindStored` | the inputs in `bind_kernel` (468-514), early returns of `ensure_value_on_tier` |
| `UseCopy`, `MakeCopy` | `ensure_value_on_tier` (310-364) |
| `PlaceInPlace`, `PlaceOnOutput`, `PlaceOnChunk` | the place of an output (516-575) |
| `DeliverOutput`, `ReleaseOutput` | post-transfer, binding, `release_if_dead` (577-618) |
| `EmitStep`, `PostTransfer`, `ConsumeInput`, `AdvanceReady` | the rest of `schedule_kernel` (396-458) |
| `FinalizeOutput`, `FinishPlan` | `finalize_outputs`, `into_plan` |

Variables carry the code's names (`value2place`, `value_on_tier`, `ready`, ...);
`remaining` is `value_remaining_uses`, `pending` is `kernel_pending`, `load` is
`stream_load`. Offsets (`into_plan`) are `OffsetOf` in `Chunks`. Left out: the
branch for explicit `Operator::Transfer` kernels (no pass creates one). The waits
before a kernel come out of a hash map: the model emits them in every order.

### Prefetch

The prefetching scheduler is a second copy of the first one; what the two have in
common is written with `MemoryAware`'s actions, and `Prefetch` adds what it does
on its own: the choice of the weights to stream under each `PrefetchPolicy`
(`vram` is the answer of the driver, or none), the ring of staging chunks
(`staging_fifo`, with the event of the kernel that reads each), the copy before
a kernel and the two waits around it. A ring that is too small panics, as in the
code. `MC_PrefetchRun` runs these plans by `PlannedRun`'s CUDA rules, the copies on
a stream beside the kernels'.

### PlannedRun and Dataflow

`PlannedRun` extends the scheduler: when the plan is complete its steps begin
and end, at different moments, under the ordering rules of the target. `mem`
maps each place to the value it holds. A place is undefined from the moment a
step starts overwriting it, so that an overlap is visible as a lost operand.
`Performed` says which steps touch memory at all: on the CPU no transfers and
only the forwards `need_to_generate` does not elide, on CUDA only the transfers
`emit_transfer` has a body for. Kernels contribute *which* value they leave, not
its bytes: after a kernel its output place holds that output, after a copy it
holds what its source held. A forward counts as the value it forwards (`Origin`).

`Dataflow` is the promise: each kernel runs once, after the kernels it reads
from, and at the end each output is in the caller's buffer. `PlannedRun`
implements it under the mapping `active`/`done` = the kernels of the
running/finished steps, `delivered` = the outputs whose buffers hold their value.

### GraphEdit and OpGraph

`GraphEdit` is `GraphOp` of `transform/modify.rs`: nodes, the marks of deleted
ones, and the two indices every pass decides by, `used` (`value2used`) and
`defined` (`value2defined`). The passes are free: any registration, replacement
of readers, change of a slot or sweep, in any order, as long as the graph stays
acyclic, which every pass of the code sees to. `OpGraph` is `Graph::eq` with its
matching by depth-first search, the topological sorts, the search of what the
outputs need and `delete_nodes` with its renumbering, on pairs of small graphs
that differ in one operand, one operator or in the numbers of their nodes.

### OpMeaning and Rewrites

`Rewrites` has one operator per pass of `create_optimize_passes`, with the
patterns written as the code matches them: from a node along *a* reader, by
`then`, `try_then`, the other operand of a binary operator and the constants they
ask for. `MC_Rewrites` runs the whole list of passes over a graph, one pass a
step, and after each evaluates the graph again. `OpMeaning` does that over the
integers modulo a prime: arithmetic is exact, a quotient is a product with an
inverse, and `tanh`, `exp` and `sqrt` are functions without laws. Two graphs
that agree there do so by the laws of arithmetic alone, not by a tolerance.
Infinities are two extra numbers, so that masks mean what they mean.

### Layout and Views

`Layout` is `try_reshape`, `broadcast`, `is_contiguous`, `storage_len` and the
orders of dimensions of `tensor/types.rs`. `Views` is the chain of passes that
turns reshapes and transposes into strides: `AssignStrides`,
`ContiguousInsertion`, the bundling of views into a `Reinterpret` or a copy,
`ContiguousFolding` (both directions) and `ContiguousElimination`. A graph is
built node by node, given outputs, lowered and finished; what a caller would read
from the buffers is compared with the graph's own meaning.

### Nhwc

`Insertion`, `SinkAndFold` and `Lowering` are the three passes that give convolutions
NHWC outputs, move the conversions back to NCHW towards readers that can do without
them, and turn the rest into transposing copies; `Score` is `SinkMarker`, `DoSink` one
round of `do_sink` with a branch per kind of reader. A Conv or a pooling is told by the
layouts it reads and writes, every other operator by whether it is element-wise, a view,
or anything else (`Opaque`: Concat, Gemm, ...). A Conv keeps the dimensions and a pooling
leaves one pixel, which is enough to tell the axes apart. `Meaning` gives each value
as a term with the order of its axes, so that an operator which reads a tensor in the wrong
layout means something else. `AllReaders` says whether anything may read what a
pooling makes; without it (`PoolsReadWell`) only what the conversion behind a pooling can
be sunk into.

### KernelFusion

`TryFuse` and `Groups` are the union-find of `schedule/kernel.rs`, run over
the nodes in the order of the code; `Bundle` numbers inputs and results as
`build_bundled_ops` does; `BuildKernels` puts each kernel where its group's last
member stood. All graphs of up to four operators with one or two operands, two
outputs and scratch memory are built for both targets.

### The kernels

`Layout` says what a loop nest leaves in memory: a function from iterations to
pairs of an address and what was computed. Each module translates the loop nests
and index computations of some of the translator's functions and of the CUDA
kernels, and compares what they leave with the operator's definition:

| module | code | reference |
|-|-|-|
| `CpuWindows` | `build_im2col`, `build_conv`, `build_depthwise_conv`, `build_pool_*`, workspaces | the sum over the window |
| `CpuMoves` | `build_flat_loop`, `build_concat`, `build_split`, `build_slice`, `build_expand`, `build_where`, `build_gather`, `build_one_hot`, `build_resize` | coordinates of the output; inverse operators |
| `CpuElementwise` | `build_operation`, `build_single_op`, casts, bf16 rounding | the operators one by one, at their types |
| `Matrices` | `build_gemm`, `build_batched_gemm`, `build_dequant_matmul*`, `dynquant`, cuBLAS calls, `ReduceDecomposition` | sums of products; the rows' scales |
| `Attention` | `build_attention`, `build_kv_cache_update`, `attention`, `attention_tc`, `attention_decode`, `kvcache_update` | the softmax of the scores of the visible rows |
| `Rows` | `build_softmax`, `build_layer_norm`, `build_rms_norm`, `build_rope`, the block reductions of CUDA | statistics of the row; the graph of the rotation |

Numbers are symbolic (which addresses were read and multiplied) where only the
indexing matters, whole numbers with the powers of two for `exp` where the
algorithm does (online softmax, rescaling, quantisation). `Wrap` stands for 2^64.
`CpuLoops` is different: the loop that OpenMP's threads share, thread by thread,
cell by cell, with the static schedule's open ends, as a state machine.

### Sessions

`Sessions` is the building of CUDA and hybrid sessions from one thread each:
`CUDA_LOCK`, the lock of each cache of `PersistentBuffers`, hits, allocation and
filling, the weights that the plan keeps in host memory, the pointers `model_init`
captures, runs, an upload that fails, the end of a session and of a cache. `stage`
is where a session's thread is, `persistent` the contents of the caches, `got` the
`Arc`s a session holds, `mem` the allocated buffers; a buffer lives as long as
something holds it (`Kept`). `told` and `last` are history.

### Rendezvous and CommHub

`CommHub` has one action per blocking call of `uds.rs`, per process: binding
and connecting (with retries that end after a while), `accept`, frames of a header
and a payload over streams of bounded capacity, and a `Kill` at any moment. Values
are abstracted to the set of processes that contributed. The processes' ranks and
programs come from the environment and may be wrong. `Rendezvous` is the promise.

### LlmSession

A cache row is a pair of a token and the position it was fed at. One action per
model run (`PrefillChunk`, `PromptToken`, `DecodeToken`, `RunFails`), with the
bookkeeping the code does after it; which token the logits favour is open, except
that it depends on nothing but the rows attended to, which `view` records. The
mapping of ranks to slots (`ring_start`, `ring_phys_index`) is that of the kernels.
`config` is how the session was built and never changes. The stop strings handed to a
call are not empty (`LlmAssumption`): the callers' tables have none, and an empty one
would end every answer before it starts.

### ChatService and ModelRegistry

A `create` or a chat runs on a blocking thread of its own (`spawn_blocking`): it waits
for the mutex over all sessions, a chat evicts idle ones and keeps the mutex for the
whole turn. `Token`, `Over` and `Send` are the turn and its stream through a bounded
channel, `Read` and `HangUp` the client's side. `TokenFails` (what was fed of a prompt,
or of the answer, stays in the cache) and `TokenPanics` are the ways a turn can break.
`LlmSession` is used through what it promises (all but the newest token of an answer are
in the cache).

A destroy has no thread of its own: `destroy_chat_session` locks the mutex on the async
worker that polls it. `Poll` takes a destroy up and needs a worker that is not `Blocked`
in another; `Read` and `HangUp`, the polling and dropping of a stream, need one as well
(`Idle`). `scenario.workers` is their number. As tokio's workers steal tasks from each
other, any of them may do what is to be done, as long as one is left; what keeps a
worker for a moment only (handing a request to a blocking thread) needs no state.
When all are blocked in destroys while the holder of the mutex waits for room in its
channel, nothing moves any more: `Starved`.

`ModelRegistry` is the map of loaded models behind a first-come readers-writer lock that
is awaited, not blocked on; its part of the run assumes a worker.

## 3. The runs

| run | checks | states |
|-|-|-|
| `chunk_allocator` | the allocator under any caller that keeps the discipline: 2 arenas, 2 streams, sizes 1-3, at most `MaxChunks` = 3 chunks and `MaxLive` = 2 uses | 28 579 |
| `memory_aware` | the scheduler on two-device graphs and on one-device graphs that spread over two streams | 21 854 |
| `plan_runs` | planning and running on the CPU, one CUDA stream, and both with one stream beside the host | 41 385 |
| `streaming` | plans that stream weights under every policy; runs of such plans; runs of the memory-aware scheduler's plans on two CUDA streams | 74 292 |
| `llm` | calls on a session (dense, with prefill chunks, streaming), sessions sharing buffers, collectives of three ranks | 37 862 |
| `services` | chats that race, that follow each other, that fill the cache or fail, and a chat among destroys that take all workers; requests for models | 201 443 |
| `kernels` | every kernel body on small tensors; threads sharing a loop | 176 124 |
| `graph` | edits, comparisons, reshapes, the view passes, NHWC, fusion | 213 864 |
| `rewrites` | all optimising passes in order on 8 families of graphs | 112 845 |
| `stream_race`, `llm_ring`, `nhwc_pool` | expected violations, see section 6 | |

The scheduler's runs use two tiers, alignment 2 and value sizes 1 and 3 (aligned and
unaligned, larger and smaller than the slot that is reused).

### What the properties say

A run checks a few conjunctions, one for each thing the component promises; their
conjuncts are the properties described below. A configuration that names a
conjunct as its INVARIANT or PROPERTY checks it alone.

| run | checked | conjuncts |
|-|-|-|
| `chunk_allocator` | `FreeListsTrue` | `FreeChunksAreDead`, `NoDoubleFree`, `DeadChunksAreFree`, `FreshIsDead` |
| `memory_aware` | `OperandsWellPlaced` | `ChunkHoldsOneValue`, `OperandsApart`, `ValuesFit`, `OperandsOnTier`, `StatesStayPut` |
| | `PlanIsExecutable` | `PlanIsComplete`, `WaitsWellPlaced` |
| `streaming` | `StreamedReadsIntact` | `RunningReadsIntact`, `SlotsExclusive` |
| | `StagingKept` | `PTypeOK`, `BudgetKept`, `PanicsOnlyWhenTooMany`, `StagingBounded`, `RingUsesAccounted` |
| | `StepsOrdered` | `WaitsWellPlaced`, `WritesExclusive`, `ProducersFirst` |
| `llm` | `CacheKept` | `TypeOK`, `CacheIsHistory`, `StaysInside`, `OneTokenShort`, `AnswerIsClean` |
| | `BuffersGood` | `STypeOK`, `PointersGood`, `StatesContinue`, `OneCopy` of `Sessions` |
| | `CollectivesWhole` | `WorldIsWhole`, `NobodyPassesAlone`, `SumsAreWhole` |
| | `NobodyWaitsForever` | `Settles` and `Runs` of `Sessions`, `EveryoneEnds` and `AllDone` of `CommHub` |
| `services` | `TurnsTrue` | `TurnsExclude`, `EveryMessageAsked`, `StreamsSpellAnswers`, `EndsWithVerdict`, `EndedIsTrue`, `Alternates` |
| | `BackendsExclusive` | `OneCopy`, `RunsAreExclusive` of `ModelRegistry` |
| | `EveryoneAnswered` | `RequestsEnd` of `ChatService`, `RequestsAnswered` of `ModelRegistry` |
| `kernels` | `WindowsCompute`, `ElementsCompute`, `ProductsCompute`, `RowsCompute`, `AttentionComputes` | the properties of the modules in section 2's table |
| | `LoopsShared`, `EveryRegionEnds` | `RowsApart`, `NothingWrong`, `RegionComplete`; `RegionEnds`, `ResultsStay` |
| `graph` | `IndicesTrue` | `TypeOK`, `UsedTrue`, `DefinedTrue`, `ReadsDefined`, `OutputsKept` of `GraphEdit` |
| | `GraphsCompared` | `EqualComputeTheSame`, `RenamingsAreEqual`, `OrderRespectsReads`, `DeletionKeepsOutputs` |
| | `ViewsShowElements` | the properties of `Layout` and `Views` |
| | `ConversionsKeep` | `OutputsMeanTheSame`, `DeclaredTypesHold`, `NeverPanics`, `ConversionsEarnTheirPlace` |
| | `KernelsCompute` | `KernelsComputeGraph`, `EachOperatorOnce`, `WorkspacesApart`, `FusesAllItCan` |
| `rewrites` | `PassesSound` | `TypeOK`, `DeclaredTypes`, `NothingRefused`, `PatternsFused` |

The others (`SlotsDisjoint`, `ChunksOnlyGrow`, `LiveUsesAccounted`,
`AllocatorDiscipline`, `RunningReadsIntact`, `ImplementsDataflow`, `RingDiscipline`,
`EveryRunEnds`, `AttendsHistory`, `CallsEnd`, `MeetsTheOthers`, `OutputsKept` and the
type invariants) are checked as they stand.

**Planning and running** (`chunk_allocator`, `memory_aware`, `plan_runs`, `streaming`)

* `LiveUsesAccounted`: between two kernels a chunk's live uses equal the reads
  still to come of all values placed in it, plus one per read of a cross-tier
  copy. The second term is a leak: a copy's uses are never consumed, so its
  slot is never recycled.
* `ChunkHoldsOneValue`, `OperandsApart`: two different values with readers never
  share a chunk, and a kernel's outputs and scratch share none with its other operands.
* `OperandsOnTier`, `StatesStayPut`: every operand is on its kernel's device, and
  a session state is never read or updated through a copy.
* `WaitsWellPlaced`: a wait names an event already recorded and the step it gets
  attached to runs on the stream it was meant for.
* `PlanIsComplete`, `EveryRunEnds`: every kernel is in the plan once, in order, and
  every run ends: two streams never wait for each other's events.
* `AllocatorDiscipline`, `RingDiscipline`: refinements of `ChunkAllocator`, so the
  theorems about that module speak about both schedulers.
* `RunningReadsIntact`, `StreamedReadsIntact`: from the beginning to the end of a
  step each place it reads holds the value it was bound for. This is the memory
  planner's purpose.
* `SlotsExclusive`, `RingUsesAccounted`, `StagingBounded`, `BudgetKept`: a staging
  slot is not overwritten while a kernel may read it, its uses are those of
  its reader, the ring has its size, resident weights fit in the budget; and
  planning panics only when a kernel has more weights than slots.
* `WritesExclusive`, `ProducersFirst`: overlapping steps write different places;
  cross-stream waits are enough to order producers before consumers.
* `ImplementsDataflow`: the caller gets its outputs (that each is in its buffer at
  the end, `OutputsDelivered`, is what the last step of `Dataflow` asks).

**The compiler** (`graph`, `rewrites`)

* `UsedTrue`, `DefinedTrue`, `ReadsDefined`, `OutputsKept` (of `graph`): after any
  sequence of edits the indices are the graph's own relation, no live node reads a
  swept value, an output's operator names what it reads.
* `EqualComputeTheSame`, `RenamingsAreEqual`: equality of graphs implies equal
  terms at the outputs and is blind to node numbers. `OrderRespectsReads`,
  `DeletionKeepsOutputs`: sorting and cutting down change no term.
* `OutputsInPlace`: after all view passes the n-th element the caller reads is the
  one the graph means; `StridesAgree`, `LinearReadsDense`, `CopiesFolded`: what the
  passes owe each other on the way.
* `OutputsMeanTheSame`, `DeclaredTypesHold`: after each NHWC pass the outputs are the
  tensors they were, in the layout they had, and every value has the type, strides and
  all, that its operator gives it. `NeverPanics`: no assertion of the sinking fails.
  `ConversionsEarnTheirPlace`: a conversion that is left has a reader that needs it.
* `NestedReshapeKeeps`, `NoNeedlessCopy`, `ContiguousIsLinear`, `StorageFits`,
  `BroadcastReads`: the operations on strides, against the element they address.
* `KernelsComputeGraph`, `EachOperatorOnce`, `WorkspacesApart`, `FusesAllItCan`:
  kernels run in order compute every output's term.
* `OutputsKept` (of `rewrites`), `DeclaredTypes`, `NothingRefused`, `PatternsFused`:
  after each pass the outputs are what they were, each value has the type it is
  declared with (inference is not run again), no pass panics, and at the end the
  pattern is gone in every form exporters write it.

**The kernels** (`kernels`): each of the names in section 2's table against its
reference, and of the shared loop `RowsApart` (no two threads write one row),
`NothingWrong`, `RegionComplete`, `ResultsStay` (a finished cell is not written
again) and `RegionEnds`.

**Sessions and services** (`llm`, `services`)

* `AttendsHistory`, `CacheIsHistory`: the last query of a step attends to the tokens
  fed so far, in order, at the positions they were fed at; the cache holds just
  them. `StaysInside`: no row is written behind the cache's end. `OneTokenShort`:
  between calls the cache lacks the newest token and no other. `AnswerIsClean`:
  no stop string is left in an answer.
* `PointersGood`: at a run every captured pointer leads to a live buffer with the
  right contents; `StatesContinue`: a run finds the state the last run of any of
  the model's sessions left; `OneCopy`: no weight twice in a cache; `Settles`,
  `Runs`: the building threads do not deadlock.
* `WorldIsWhole`, `NobodyPassesAlone`, `SumsAreWhole`, `MeetsTheOthers` (refinement of
  `Rendezvous`): nobody returns from a collective that another rank has not
  entered, with a killed process and wrong environments too. `EveryoneEnds`,
  `AllDone`: who terminates.
* `TurnsExclude`, `EndsWithVerdict`, `StreamsSpellAnswers`: turns on the sessions do
  not overlap; a stream that is read to its end closes with its verdict and spells
  the answer, stop strings taken out. `EndedIsTrue`, `EveryMessageAsked`,
  `Alternates`: the history and what the cache holds agree from turn to turn, in
  scenarios that are `Untroubled` (section 4).
* `OneCopy`, `RunsAreExclusive`: a model is loaded once at a time and runs for one
  request at a time. `RequestsEnd`: every request to the chat service comes to its
  end, unless the server is `Starved`. `RequestsAnswered`: every request for a model
  comes to an answer.
* `CallsEnd`: a call on a session returns.

### Bounds and why they are enough

**Scheduler.** `MC_MemoryAware` enumerates every graph of a few
families of three to five kernels: diamonds and chains (values read once, twice,
along two paths; forwards of chunks with one reader and with more; kernels that
read only stored values), tails (forwards of outputs), caches (a decoding step:
update of a cache with or without scales, attention with scratch memory, scalar
arguments), splits (two outputs, one or both unread) and crossing chains (two
streams that read each other's values). For the hybrid target each family is
placed by the code's own two splitting strategies, the budget's cut falling at
every kernel. These families contain each branch of the scheduler, in pairs and
mostly in triples; all its decisions about a value look at that value, its
producer and its readers, so longer graphs repeat these situations. Two streams
show every cross-stream order; more only spread the same kernels more thinly.
Plans that stream weights: the layers of a decoder with one to three weights a
kernel, a weight used twice, a ring of three slots, which wraps in each of them.

Runs of plans use the *regular* graphs: no two outputs forwarded from
one value (`ForwardsApart`), no unread output before another output of its
kernel (`NoDeadSibling`), outputs computed by kernels (`OutputsComputed`). Each
condition is needed (section 6). `streaming` does not state
`RunningReadsIntact` for two compute streams, where it fails (`stream_race`).

**Compiler.** Graphs of four nodes and four values show every way an index
can be left behind by one edit and read by the next; equality, order and
deletion look at a node and its neighbours. Tensors of sizes 1 to 12 with up to
three dimensions contain each case of `try_reshape` (merging, splitting, ones,
broadcasts); three views in a row contain each pair and triple of reshape,
transpose and reader. The NHWC passes get every graph of a Conv and up to three more
operators with up to two operands, one value with two readers among them, so that a
conversion is sunk through a pooling, a view and an element-wise operator, alone and
after one another. The optimising passes get each pattern in every form the code takes
(operands swapped, `Pow` or `Mul`, `Div` or `Reciprocal`, mask added, multiplied
or none, ...) and every chain of up to three of 14 operators. The prime 13 and
two sets of tensors make a wrong formula agree by chance only if it does for
every element of both.

**Kernels.** Dimensions up to 3, kernels up to 3, all strides, paddings and
dilations of one or two: below that boundary cases do not occur, above it they
repeat. Warps of two lanes and blocks of eight keep the CUDA reductions' three
regimes (less than a block, a block, several rounds). Tiles of two with three
queries and four rows have partial tiles on both sides. Five bits for wide
integers keep sign, carry and truncation. Teams of three threads on up to five rows
have threads with none, one and two.

**Sessions and services.** Caches of 6 to 8 rows are overrun by answers of three
tokens in three calls; the ring has a sink of one and a window of four; chunks of
two leave padding. Three ranks give the hub a first and a last peer; a socket that
holds one item makes every write wait; one process may be killed. Two chats race
with a `destroy` and an eviction on two sessions, with two workers, so that one is
always left; two turns of one session are what a history needs to go wrong, with room in
the cache and without (3 rows), and behind a turn that fails. One chat meets two destroys
on two workers: there the server can starve, and the other requests still end when it
does not. A channel of one event is full at once, as the code's 64 are after 64 chunks.
Five requests for two models queue behind readers and
writers. One failure of each kind: the code has no state that counts them.

`CHECK_DEADLOCK FALSE` stands where behaviours end: a kernel that has run, a graph
that is lowered, requests that are all answered. Liveness properties cover those runs
instead (`EveryRegionEnds`, `CallsEnd`, `NobodyWaitsForever`, `EveryoneAnswered`).

### Fairness

* `plan_runs`, `streaming`: weak fairness of the planner (a loop in one thread)
  and of the execution as a whole (some step that can begin or end eventually
  does: the host thread is not suspended for ever and a GPU stream makes progress
  on the work at its head). No fairness is asked of a single stream or step.
  `Planned`, `Returned` and `Stopped` let a finished plan and a finished run
  stutter, so that the deadlock check sees every other standstill.
* `llm`: weak fairness of the model runs within a call, not of the calls; of each
  building thread's own steps (`std::sync::Mutex` hands a free lock to someone who
  waits), not of failures or drops; of each process's blocking calls, which return
  when data or a closed socket is there, not of kills.
* `services`: weak fairness of each request's steps, those of its blocking thread or,
  of a destroy, of a worker while one is idle; and of `Read`: a client that has not hung
  up takes what it is sent, as long as there is a worker to poll its stream.
  Hanging up is never forced. `RequestsEnd` needs the reading, as a client who neither
  reads nor goes holds the mutex for ever (a hazard, `crates/ui/src/llm.rs`). The mutex of
  the sessions needs no strong fairness, as each request takes it a bounded number
  of times. The registry's lock serves its waiters in order (tokio's `RwLock`).
* `kernels`: weak fairness of each thread of a team.

### Mutants

Each property a run checks has a mutant in `PROJECT.json`: a plausible slip in a
mapped definition (a wait on the wrong stream, a use not registered, a cut not
snapped, an index not updated, a clamp before the shift, a lock not released) that
TLC shows it to catch; that of a conjunction breaks one of its conjuncts. They
stand beside the definitions they change, as `Definition_Slip`.

## 4. Proofs

Proved for every value of the constants: all graphs, sizes, numbers of streams,
ranks, threads, tokens. A property in the last column is one a run checks; the
run shows it on a small instance, the theorem in general.

| module | theorem | what it states |
|-|-|-|
| `ChunkAllocator_proofs` | `TypeCorrect` | `[]TypeOK` |
| | `FreeChunksDead`, `NeverFreedTwice`, `NoSlotLost` | the parts of `FreeListsTrue`: what `alloc` may hand out has no reader left, is on one list only, and every dead slot is on one |
| | `FreeListsAreTrue` | `[]FreeListsTrue` |
| | `SlotsNeverShrink` | `ChunksOnlyGrow` |
| | `SlotsAreDisjoint` | `[]SlotsDisjoint`: the offsets laid out for an arena leave every chunk its own bytes |
| `MemoryAware_proofs` | `TypeCorrect` | `[]TypeOK`: no use count falls below zero, every kernel gets a stream |
| | `PlansAreExecutable` | `[]PlanIsExecutable`: every kernel once and in order; every wait on a recorded event, in front of a step of its stream |
| `MemoryAware_accounts` | `LiveUsesAlwaysAccounted` | `[]LiveUsesAccounted` |
| | `KeepsTheDiscipline` | `AllocatorDiscipline`: the scheduler implements `ChunkAllocator` |
| | `OperandsAlwaysWellPlaced` | `[]OperandsWellPlaced`: no chunk has two tenants that are still read, operands are apart, fit, and are on their kernel's tier |
| `CpuLoops_proofs` | `TypeCorrect`, `LoopsAreShared` | `[]TypeOK`, `[]LoopsShared` |
| | `ResultsAreKept` | `ResultsStay`, the safety half of `EveryRegionEnds` |
| `CommHub_proofs` | `TypeCorrect`, `WorldIsAlwaysWhole`, `NobodyEverPassesAlone`, `SumsAreAlwaysWhole`, `CollectivesAlwaysWhole` | the parts of `CollectivesWhole`, and `[]CollectivesWhole` |
| | `CollectivesAreRendezvous` | `MeetsTheOthers`: the sockets implement `Rendezvous` |
| `Services_proofs` | `StreamsAreTrue` | of chats, whatever goes wrong: `TurnsExclude`, `StreamsSpellAnswers`, `EndsWithVerdict` |
| | `TurnsAreTrue` | `[]TurnsTrue` |
| | `StarvedForGood` | a server that is `Starved` stays so |
| | `WorkersLeft` | `[]NobodyStarves`, with fewer destroys than workers |
| | `OneCopyAlways`, `RunsAlone`, `BackendsNeverShared` | the parts of `BackendsExclusive`, and `[]BackendsExclusive` |
| `LlmSession_proofs` | `SessionInvariant` | the inductive invariant `LInv` |
| | `CacheAlwaysKept` | `[]CacheKept` |
| | `HistoryAlwaysAttended` | `[]AttendsHistory` |
| | `BuffersInvariant` | the inductive invariant `SInv` of `Sessions` |
| | `BuffersAlwaysGood` | `[]BuffersGood` |

`Induction` has the two facts the library states with an operator for a
parameter, which the provers cannot instantiate: a set of naturals that has 0
and the successor of each of its members has them all (`UpTo`), and a set of
naturals that is not empty has a least member (`LeastNatural`).

### Assumptions

Stated with the constants: sizes, use counts and limits are natural numbers, an
alignment is positive, there are the two tiers and at least one stream, ranks
and threads are numbered from 0 (`SizeAssumption`, `UseAssumption`,
`AlignAssumption`, `TierAssumption`, `StreamAssumption`, `WorldAssumption`,
`TeamAssumption`, ...); a chat asks for at least one token (`chat_stream` replaces a
`max_tokens` of 0), and a stop string is of plain tokens and not empty
(`ChatAssumption`); graphs are `WellFormed` (`GraphsAssumption`); a session is
built as the assertions of `for_llama_streaming` demand (`LlmAssumption`). What
`Sessions` is told of a session's plan (`SessionsAssumption`) is what compiling gives:
the values of a graph have distinct names, a weight the scheduler streams is not also
read in place or handed out (`host_resident_initializer_indices`), and sessions that
are given one cache come from one model and one target, so that a name stands for one
weight and a state for one device. TLC evaluates them on every run. Stated with a theorem:

* `OperandsAlwaysWellPlaced`: the graphs are `Placeable`. An unread output stands
  behind the other outputs of its kernel (else the chunk of the first is handed to the
  next, `deadfirst` in section 6). A state is no input, initializer or output (as an
  output it would be copied out like any value). The kernels that read a state are on
  one device, which all three placements see to: `uniform`, `structural_kv_touch`, and
  `resident_budget`, which snaps its cut off a state's span (`placement.rs` 106). No workspace is forwarded, and a scalar, which
  kernels of both devices read where it is, only on the host. TLC evaluates this on the
  graphs of `memory_aware` and `plan_runs` (`PlacementAssumption`);
* `CollectivesAreRendezvous`: there are as many processes as ranks. With more, a
  process whose rank is taken is left out of the world and the collectives return
  without it, while the rendezvous is one of all processes;
* `LlmSession_proofs`: `RingOnCuda`, a session with a ring runs on kernels that know it
  (those of the CPU do not: `StaysInside` in section 6 fails), and `NothingDropped`, a
  run fails only in a session that has a prefill graph (one that fails while the prompt
  is fed token by token drops the token, section 5). The configurations of `llm`
  satisfy both, and `CacheKept` needs them;
* `WorkersLeft`: a scenario has fewer destroys than workers. Without it the server may
  starve (`NobodyStarves` in section 6).

`TurnsTrue` itself asks for the conversation's order only where the scenario is
`Untroubled`: the cache has room for what all turns on a session may render to (`Roomy`: a
message's two tokens, an answer's `max` and one more for each), and either no run fails or
no session has a second turn. Each half is needed: without the first `EndedIsTrue` fails,
without the second `EveryMessageAsked`, both findings of section 6. `services` has
scenarios of either kind.

### The arguments

**Allocator.** None of the invariants is inductive alone. Pushing a chunk keeps
`NoDoubleFree` only if the chunk is on no list, which for `Consume` follows from
its having had a use (`FreeChunksAreDead`) and for `ReleaseIfDead` from its being
`fresh` (`FreshIsDead`); popping keeps `DeadChunksAreFree` only if no chunk was
fresh before, which is the guard of `Alloc`. `IInv` is their conjunction with
`TypeOK` and `FreshIsDead`. The lemmas `PushKeeps` and `PopKeeps` say what a
push and a pop do to the lists, `StayKeeps` and `FreedKeeps` what that does to
`IInv`, and each operation has one lemma on top of these. `SlotsNeverShrink` uses
`IInv` too: the slot a pop reopens exists. `SlotsAreDisjoint` is about
`OffsetOf`, the sum of the aligned sizes before a chunk: by induction over the
chunks, a later chunk starts no earlier than an earlier one ends.

**Scheduler.** `IInv` of `MemoryAware_proofs` ties the tables to the work that is left.
`Counts` is why `consume` never goes below zero (the code subtracts without a
check): `remaining[v]` *is* the number of operand slots that read `v` and have not
been consumed, `pending[k]` the number of producers not in the plan. `KernelSteps`
says that the plan's kernels are those scheduled, each once, after their
predecessors. That the plan is complete when nothing is ready is not in the
invariant; it follows from it: the least kernel that is not scheduled has all
predecessors scheduled, so `pending` is zero and it is ready. `Waits` describes the
stretch from the waits emitted for a kernel to its own step: their events were
recorded by steps before, and only a step of the stream they are for may follow.

`AInv` of `MemoryAware_accounts` adds the accounts. A chunk's live uses are counted by
a set of *claims*: the slots that read a value placed on it and are not consumed,
deliveries of outputs that are pending, and the reads of copies, in the plan or
bound for the kernel in hand (`UsesOf`). Each action adds to or takes from both sides the same
number (`BindingsTrue` and `CopiesTrue` say that what is bound is where the plan will
look for it, `Unplaced` that a value has no place before its producer runs). The
same accounts give the refinement: every call the scheduler makes meets the
allocator's guards, as the chunk it names has the claim the guard asks for.

`OInv` says where values are. A value is placed where it fits (`SoundAt`), a state only
at its own place, what an output's buffer holds is that output's bytes (`Homes`), and
two values that a chunk must keep at once are one value, forwarded (`HeldApart`,
`Origin`). The step that could break it gives a chunk to a new value. If the chunk comes
from the allocator, it had no live use: by `AInv` no claim on it is left, so no value on
it is to be read, no copy on it is cached for the rest of the plan, and no operand of
the kernel in hand is bound to it (`NothingOn`), which gives `OperandsApart` too. If
it comes from `try_in_place_identity`, one use of the input was left, so the only other
tenants are those it was forwarded from itself; that `Origin` climbs to the same value
for both is by induction on the chain (`OriginIsClimb`). That an output delivered by a
transfer is the value its alias names (`AliasTrue`) is an induction over the walk of
`OutputAliases`.

**Loop.** A thread's rows are an interval of the static schedule; two intervals
are disjoint by arithmetic on the bound divided by the team (`ResultsStay` follows from
`CellsExpected`, which says of each cell how far its owner is with it).

**Collectives.** For each socket the invariant says what is in it: what a spoke has
entered and the hub has not heard (`UpOf`), what the hub has answered and the spoke not
read (`DownOf`), for as long as the hub serves that spoke (`LinksTrue`). `Agreed` is the
fact that travels: all ranks have entered the k-th collective as the same operation.
The hub establishes it by hearing each rank and comparing headers (`RoundOf`); a spoke
that has been told an answer may rely on it (`SpokeOf`), even if the hub has died since.
`Kill` is harmless as it only ever shortens what is true of the living.

**Chats.** `CInv` holds whatever fails. It says who holds the mutex at each place of a
request (`HolderTrue`; a panic under it poisons it, and nobody gets in again), that the
message of a turn stands at the end of its session's history (`InHistory`), and what
a client that reads has been sent, is being sent and will be sent, taken together
(`StreamTrue`): the first `emitted` tokens of the answer during the turn, the recorded
answer from then on, and no verdict before the last event. That a stop string is never
streamed needs the tokens that are held back because they may begin one: what is
sent is a prefix of an answer without a stop string (`TurnClean`), and when the string is
completed the answer is cut in front of it, behind all that was sent. `OInv` adds
the conversation (`Orderly`), in `Untroubled` scenarios. Between turns a session is `Settled`: user and assistant
alternate in pairs and the cache has every message; in a turn it is `Fed`: cache and
delta have every message and the delta ends with the request to answer. The cache may
lag behind what the history renders to (finding `CacheIsConversation`) but is
never longer, and that is at most a budget for each turn begun, so that `Roomy`
leaves room for the answer: it never ends because the cache is full, and `ended` is
what it should be. A turn that fails leaves neither; no turn of its session is left to see it
(`NoneLeft`). What `render_full` yields for a history with one more message, and
that it has no request's token but the messages', is by induction over sequences
(`Joins`). A `Starved` server stays so because every step needs the mutex, an idle
worker, an empty `pending` or room in the channel of the holder, or is of a turn that
has already failed.

**Registry.** A writer excludes everyone, and an evicted session that still runs is
known to its runner: the invariant names who may hold a session at each place
of a request.

**Session.** `LInv` says what a call has fed: `fed` is the tokens up to `past_len`, a
prefix of what was there, the prompt and the answer (`Follows`), and in the prompt phase
what is left is the rest of it (`Prompting`), with room for it in the cache, padding of
the last chunk included. The padding is overwritten before it is read, since the
mask hides everything behind `past_len`. `ring_start` stays 0 until a ring is full,
so that a rank is its own slot for the rows the history covers. That stop strings
are popped whole (`PoppedEnough`) takes the least number of pops that makes the
answer clean.

**Sessions.** `SInv` hangs on one equality: the allocated buffers *are* those that a
session holds, a cache holds or a closure has just opened (`Allocated`). Nothing that
a run's pointers name can then be freed under it, since its session holds them in the
order of its names (`GotInOrder`), and what a buffer holds follows from its name alone
(`MemTrue`): the contents of the weight once the closure is done, the last value written
for a state. `OneCopy` is the hard part. A closure runs with the lock of its cache and
only for a name that is missing (`LockHeld`), but a name could be missing because the
cache was dropped: `CacheKeeps` says that, as long as one session of the model is being
built, the cache has every buffer its sessions got. For the same reason a session that
comes late still finds the states that runs of the others have written (`Remembered`),
and `StatesContinue` follows as only one of them runs at a time (`OneRuns`).

### Only model-checked

* Liveness, and everything about fairness: `EveryRunEnds`, `CallsEnd`,
  `NobodyWaitsForever`, `EveryoneAnswered`, the liveness half of `EveryRegionEnds`.
* What the pure algorithms compute: kernels, layouts, views, passes, fusion. They are
  recursive over graphs and tensors, or about a reference definition that is;
  their theorems would be inductions over data.
* Safety of the other state machines: the execution of plans, the streaming scheduler,
  the graph editor. Of the memory-aware scheduler's plans, what is proved ends at the
  plan (`PlansAreExecutable`, `OperandsAlwaysWellPlaced`).

## 5. What is not modelled

* Reading and writing ONNX files, Hugging Face configurations, weights and chat
  templates; the tokenizer; the front end, benchmarks and test tools: parsing and
  printing without state.
* Loading of shared objects, compiling and linking, arena allocation, cuBLAS and cuDNN
  handles, the text of generated programs.
* `is_first_use`, which no code reads; the scheduler's branch for explicit
  `Operator::Transfer` kernels, which no pass creates.
* Floating-point error. Registers, shared memory and the occupancy of a CUDA block.
* Of the passes: `CseReshape`, `QuantizeActivations`, `EarlyBroadcast`, opset
  adaptation, `NHWC2NCHWDetection` (it looks for a transposing copy, and the folding in
  front of it leaves none: `BackwardFolds` in section 6), shape inference except for the types passes declare. Of
  constant folding: index and shape operators (`Range`, `Gather`, `Slice`, `Split`,
  `Shape`, `Concat`, `OneHot`, `Clip`, `Resize`). Of canonicalization: products with
  vectors, transposes without `perm`.
* Of sessions: the CPU target's refusal of initializer caches and the conversions of
  tensors handed in and out.

Hazards of this code that no property covers:

* integers: a counted loop of the translator compares after its body, so that an
  empty dimension runs it 2^64 times (`translator.rs`, `finalize_counted_loop`); a
  shared loop counts in 32 bits; `ldim - 2` underflows for vectors
  (`canonicalization.rs`); a rank-0 tensor has size 0 and a flat loop over it
  computes nothing; a softmax axis of one element has stride 0, by which the CUDA
  kernel divides; with `ceil_mode` the last window of a pooling may lie in the
  padding alone. The instances have no empty, scalar or huge tensors;
* types: the type of an intermediate of a fused kernel is taken to be the output's
  (`codegen/cpu.rs`, a TODO there); an operator that changes the element type behind a
  view is moved in front of it with the types as they were (`nodes_reorder.rs` 47, the
  graphs of `rewrites` have no such pair); a division of integers becomes a product with a
  reciprocal, which is for floating point only;
* names: the decode and the prefill graph give one name to shape tensors of
  different contents (`decoder.rs`); the shared cache keeps the first. No kernel
  reads a shape at run time, so nothing shows it;
* a step that fails in the middle of a prompt drops its token without a word
  (`crates/llm/src/session.rs`); runs fail on malformed inputs only, which the loop
  never makes;
* `memory_aware.rs` 519 takes any persistent place for safe to alias; the graphs of the
  LLM builder read a cache only in its update and in kernels after it (`StatesOwned`).

## 6. Findings

Three are runs that TLC must find violated, on the model of the code as it is:

1. **`stream_race`** (`RunningReadsIntact`): on more than one stream
   (`num_cuda_streams`, 16 by default) a chunk goes to the free list of the stream of
   its last reader *in plan order* (`memory_aware.rs` 441-447). A later kernel of that
   stream reuses it although an earlier reader on another stream may still be
   running; no wait is emitted for it.
2. **`llm_ring`** (`WindowIsRecent`): once the ring is full the row of the newest token
   is placed by a start that already counts it (`crates/llm/src/session.rs` 579): it is
   read as the oldest of the window, and half of an even ring is never written again.
3. **`nhwc_pool`** (`NeverPanics`): the conversion that is put behind a pooling is taken
   for one worth sinking whoever reads it (`nhwc2nchw_sink_and_fold.rs` 139), and a reader
   it cannot be sunk into stops an assertion (237): a Conv, a pooling, and a Concat or a
   Gemm. The conversion to NHWC is on by default when a model has a Conv and inputs of
   four dimensions. (`tests/` has models whose pools are read by a Concat, but the Concat
   also reads what the pools do, which keeps the marker from sinking to the pools.)

The others are properties of the same modules which hold nowhere or only under the
restrictions the passing runs make. To see one, run TLC with a configuration that
names the property and differs in what the table says:

| property | configuration | what happens |
|-|-|-|
| `OutputsDelivered` | `MC_PlannedRun.cfg`, `MCFamily = "twiceforwarded"` | A value that is an output and is forwarded to another output loses its own alias (`schedule.rs` 302); its buffer is never written. On CUDA, where the copy in front of an output is elided, `x` and `Reshape(x)` are enough. |
| `RunningReadsIntact` | `MC_PlannedRun.cfg`, `MCFamily = "deadfirst"` | The chunk of an unread output is released before the kernel's next output is placed, which then gets it (`memory_aware.rs` 611-618): a `Split` whose first part is unused. |
| `OutputsDelivered` | `MC_PlannedRun.cfg`, `MCFamily = "passedthrough"` | An output no kernel computes is delivered by a transfer, and CPU code performs none (`cpu.rs` 569-580). |
| `SlotsExclusive` | `MC_PrefetchRun.cfg`, `MCParts = {"forwarded"}` | A reshaped weight's staging slot waits for the reshape, not for its reader (`prefetch.rs` 661). |
| `StaysInside` | `MC_LlmSession_ring.cfg`, `Configs <- MCRingOnCpu` | The CPU's cache update knows no ring and writes behind the cache (`translator.rs` 4374). |
| `PromptStays` | `MC_LlmSession.cfg`, `MCParts = {"generate"}` | An answer that is popped whole takes the prompt's last token with it (`session.rs` 428). |
| `CacheIsConversation` | `MC_ChatService.cfg` | After a turn that ended by itself the cache lacks the answer's last token and the end of turn (`ui/src/llm.rs` 334). |
| `EveryMessageAsked` | `MC_ChatService.cfg` | A message whose turn failed stays in the history and never reaches the model (`ui/src/llm.rs` 324). |
| `EndedIsTrue` | `MC_ChatService.cfg` | A full cache is taken for the end of an answer; the session is never reset (`ui/src/llm.rs` 384). |
| `NobodyStarves` | `MC_ChatService.cfg` | A destroy waits for the sessions' mutex on an async worker (`grpc_service.rs` 299, `llm.rs` 277). When destroys have all workers, nobody polls the stream of the chat that holds it, whose `blocking_send` (`grpc_service.rs` 283, which 261-262 call safe) waits for that: the server stands still for ever. One destroy is enough on a host with one core. |
| `IdentityForwards` | `KernelFusion`, `SPECIFICATION SpecIdentity` | `Identity` is element-wise, gets a fused body and is never forwarded; the CPU has no code for it (`kernel.rs` 218, `cpu.rs` 853). |
| `ReshapeKeepsElements` | `Layout`, bounds as in `MC_Graph` | `try_reshape` gives dimensions that it multiplies together one stride: (2, 3) becomes (3, 2) with strides (1, 1) (`types.rs` 531). |
| `BackwardFolds` | `Views`, `SPECIFICATION SpecBackward` | Folding backward only, as the NHWC lowering does, changes nothing (`utils.rs` 459). |
| `SameIsConvolution` | `CpuWindows`, bounds as in `MC_Kernels` | SAME padding with a stride that skips the last cells: `pad_len` wraps (`translator.rs` 1117). |
| `UnsignedTyped` | `CpuElementwise` | Division and comparison of unsigned integers are those of signed ones (`translator.rs` 532): 200 / 2 in U8 is 228. |
| `IsNaNGetsFloat` | `CpuElementwise` | `IsNaN` behind another operator in a fused kernel is given the output's type, which is Bool (`cpu.rs` 1173). |
| `CpuTransposes` | `Matrices` | `k` is taken from dimension 1 of a transposed operand (`translator.rs` 2443). |
| `GpuNoBias` | `Matrices` | A Gemm of two inputs keeps ONNX's beta of 1, and cuBLAS adds an output nobody wrote (`cuda.rs` 1969). |
| `GpuBias` | `Matrices` | A bias that is a transposed view is copied in the order of its memory (`cuda.rs` 2042). |
| `MaskedFirst` | `Attention` | A first score of -inf makes the rescaling exp(-inf + inf) (`translator.rs` 4898). |
| `GuardKept` | `Attention` | The fusion takes the NaN guard of a softmax in and does not guard (`translator.rs` 4984). |
| `GpuAddsMask` | `Attention` | A mask that broadcasts over heads or columns is read with the strides of one that does not; `attention_decode` has no mask (`cuda.rs` 1312). |
| `ShortMask` | `Attention` | A bf16 mask is loaded as two neighbours in one f32 (`translator.rs` 4879). |
| `NeverPanics`, `DeclaredTypesHold` | `MC_Graph_pool.cfg`, the instance `Pool` with `AllReaders <- FALSE`, `MaxNodes <- 4`, `Views <- {<<"Transpose", <<1, 2, 4, 3>>>>}` or `{<<"Reshape", <<1, 1, 6, 5>>>>}` | A view between two Convs that keeps four dimensions: sinking declares a contiguous result where the view leaves a strided one, or fails to reshape the NHWC data (`nhwc2nchw_sink_and_fold.rs` 173, 218). |
| `OutputsKept` | `MC_Rewrites.cfg`, `Families = {"wide bias"}` | Something added to a product becomes its bias although it is larger than the product (`gemm_add_fusion.rs` 58). |
| `OutputsKept` | the same, `{"half gelu"}` | A GeLU without its factor x is fused into one with it (`fast_gelu_fusion.rs` 160). |
| `NothingRefused` | the same, `{"default gemm"}` | A two-input Gemm with ONNX's default beta followed by an Add trips an assertion (`gemm_add_fusion.rs` 72). |
| `OutputsKept` | the same, `{"computed bias"}` | A computed convolution bias is dropped when the normalisation is folded in (`conv_bn_fusion.rs` 63). |
| `OutputsKept` | the same, `{"finite penalty"}` | A multiplied mask with a finite penalty becomes another, additive one (`canonicalization.rs` 303). |
| `OutputsKept` | the same, `{"turned twice"}` | Two transposes that cancel turn a product's operand once (`gemm_transpose_fusion.rs` 124). |

A further observation is a hazard only: `need_to_generate` (`cpu.rs` 132-146)
compares the *last* place each value has in the plan, which with a placement that
alternates devices around a forward would elide a copy that is needed. The
strategies of `placement.rs` never alternate that way, and `plan_runs` passes.

## 7. Plan

Done: every module of section 2, and the proofs of section 4. Open are proofs of what
the runs check on their instances only:

1. `Prefetch`: `StepsOrdered` and `StagingKept`, with the lemmas of `MemoryAware_proofs` for
   the actions the schedulers share, then `RingDiscipline`;
2. `UsedTrue` and `DefinedTrue` of `GraphEdit`;
3. `RunningReadsIntact` of `PlannedRun` on one stream, from `OperandsWellPlaced`.
