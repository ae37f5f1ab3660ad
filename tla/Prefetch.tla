------------------------------ MODULE Prefetch ------------------------------
(***************************************************************************)
(* The prefetching scheduler (src/schedule/scheduler/prefetch.rs), taken   *)
(* for a CUDA build that streams weights.  All kernels stay on the GPU, in *)
(* kernel order, on one compute stream; a weight chosen to stay in host    *)
(* memory is copied, for each kernel that reads it, into a staging chunk   *)
(* by a copy stream of its own.  At most RingDepth staging chunks are in   *)
(* use: before one is used again the copy stream waits for the kernel that *)
(* read it, and a kernel waits for the copies of its own weights.          *)
(*                                                                         *)
(* What the scheduler has in common with MemoryAware (the code is a second *)
(* copy of it) is written with that module's actions.  Here "ready" is the *)
(* kernels still to be scheduled, and "pending" is not used.               *)
(***************************************************************************)
EXTENDS MemoryAware
LOCAL INSTANCE SequencesExt
LOCAL INSTANCE FiniteSetsExt

CONSTANTS
  Policies,   (* PrefetchPolicy: records [kind, min, resident, reserve]      *)
  Vram,       (* what the query for the VRAM may answer; NoAnswer when it    *)
              (* cannot be asked                                             *)
  RingDepth   (* STAGING_RING_DEPTH                                          *)

ASSUME RingAssumption == RingDepth \in Nat \ {0}

NoAnswer == -1
NoEvent == -1

VARIABLES
  policy, vram,
  host_resident,  (* the weights to be streamed                              *)
  staging_fifo,   (* the staging chunks in use, oldest first, each with the  *)
                  (* event of the kernel that reads it                       *)
  war_event,      (* what the next copy has to wait for                      *)
  copy_events     (* of the kernel being bound                               *)

choice == <<policy, vram, host_resident>>
ring   == <<staging_fifo, war_event, copy_events>>
pvars  == <<vars, choice, ring>>

-----------------------------------------------------------------------------
(* select_host_resident *)

Monus(a, b) == IF a > b THEN a - b ELSE 0

(* The weights a CUDA kernel reads that are large enough. *)
Candidates(g, p) ==
  {v \in g.initializers : /\ p.min <= g.size[v]
                          /\ \E k \in Kernels(g) : g.kernels[k].dev = "CUDA" /\ Reads(g, k, v)}

KvBytes(g) == MapThenSumSet(LAMBDA v : g.size[v], g.states)

(* What may stay in VRAM. *)
ResidentBytes(g, p, answer) ==
  CASE p.kind = "ResidentBudget" -> p.resident
    [] p.kind = "AutoResidentBudget" ->
         IF answer = NoAnswer THEN 0 ELSE Monus(Monus(answer, KvBytes(g)), p.reserve)

(* The largest weights come first; one that still fits stays, even after   *)
(* one that did not.                                                       *)
StreamedBeyond(g, weights, bytes) ==
  LET by_size == SetToSortSeq(weights, LAMBDA v, w : \/ g.size[v] > g.size[w]
                                                     \/ g.size[v] = g.size[w] /\ v < w)
      scan == FoldLeft(LAMBDA st, v :
                         IF st.acc + g.size[v] <= bytes
                         THEN [st EXCEPT !.acc = @ + g.size[v]]
                         ELSE [st EXCEPT !.streamed = @ \cup {v}],
                       [acc |-> 0, streamed |-> {}], by_size)
  IN  scan.streamed

SelectHostResident(g, p, answer) ==
  CASE p.kind = "Disabled"      -> {}
    [] p.kind = "SizeThreshold" -> Candidates(g, p)
    [] OTHER -> StreamedBeyond(g, Candidates(g, p), ResidentBytes(g, p, answer))

-----------------------------------------------------------------------------

(* PrefetchScheduler::new: the copy stream comes after the compute streams. *)
ComputeStreams == IF host_resident # {} THEN 1 ELSE StreamCount(graph)
CopyStream == ComputeStreams

PInit ==
  /\ Init
  /\ policy \in Policies /\ vram \in Vram
  /\ host_resident = SelectHostResident(graph, policy, vram)
  /\ staging_fifo = <<>> /\ war_event = NoEvent /\ copy_events = <<>>

PrefetchStream(k) == IF ComputeStreams = 1 THEN 0 ELSE PickStream(k)

(* run and the head of schedule_kernel: kernels go in the order of their   *)
(* ids; the waits of a kernel come after its transfers (EmitKernel).       *)
ScheduleNext ==
  /\ phase = "pick" /\ kid < Len(graph.kernels)
  /\ kid' = kid + 1
  /\ LET s == PrefetchStream(kid + 1)
     IN  /\ info' = [info EXCEPT ![kid + 1] =
                       [order |-> kid, stream |-> s, event |-> next_event, scheduled |-> TRUE]]
         /\ load' = [load EXCEPT ![s] = @ + 1]
  /\ ready' = {k \in Kernels(graph) : k > kid + 1}
  /\ next_event' = next_event + 1
  /\ phase' = "bind" /\ pos' = 1 /\ bindings' = <<>> /\ post_transfers' = <<>>
  /\ copy_events' = <<>>
  /\ UNCHANGED <<input, alloc, value2place, remaining, value_on_tier, pending, steps,
                 choice, staging_fifo, war_event>>

-----------------------------------------------------------------------------
(* bind_kernel: an input that is a streamed weight. *)

Streamed == BindingInput /\ Ins[pos] \in host_resident /\ TierNow = "GpuArena"

RingFull == RingDepth <= Len(staging_fifo)

(* Mutants of RetireSlot: the slot keeps its use; it is freed whoever      *)
(* reads it; it goes to the back of the ring.                              *)
RetireSlot_Keep ==
  /\ Streamed /\ RingFull /\ Head(staging_fifo).consumer # info[kid].event
  /\ war_event' = Head(staging_fifo).consumer
  /\ staging_fifo' = Tail(staging_fifo)
  /\ UNCHANGED <<input, phase, kid, pos, bindings, post_transfers, alloc, value2place, remaining,
                 value_on_tier, order, next_event, steps, choice, copy_events>>

RetireSlot_Free ==
  /\ Streamed /\ RingFull /\ Head(staging_fifo).consumer # info[kid].event
  /\ free' = FreeOn(free, chunks, Head(staging_fifo).chunk, CopyStream)
  /\ war_event' = Head(staging_fifo).consumer
  /\ staging_fifo' = Tail(staging_fifo)
  /\ UNCHANGED <<input, phase, kid, pos, bindings, post_transfers, chunks, value2place, remaining,
                 value_on_tier, order, next_event, steps, choice, copy_events>>

RetireSlot_Rotate ==
  /\ Streamed /\ RingFull /\ Head(staging_fifo).consumer # info[kid].event
  /\ war_event' = Head(staging_fifo).consumer
  /\ staging_fifo' = Append(Tail(staging_fifo), Head(staging_fifo))
  /\ UNCHANGED <<input, phase, kid, pos, bindings, post_transfers, alloc, value2place, remaining,
                 value_on_tier, order, next_event, steps, choice, copy_events>>

(* The oldest staging chunk gives way; one this very kernel reads cannot.  *)
RetireSlot ==
  /\ Streamed /\ RingFull /\ Head(staging_fifo).consumer # info[kid].event
  /\ LET old == Head(staging_fifo)
     IN  /\ chunks' = ConsumeIn(chunks, old.chunk)
         /\ free' = FreeIfDead(free, chunks', old.chunk, CopyStream)
         /\ war_event' = old.consumer
  /\ staging_fifo' = Tail(staging_fifo)
  /\ UNCHANGED <<input, phase, kid, pos, bindings, post_transfers, value2place, remaining,
                 value_on_tier, order, next_event, steps, choice, copy_events>>

RingTooSmall ==
  /\ Streamed /\ RingFull /\ Head(staging_fifo).consumer = info[kid].event
  /\ phase' = "panicked"
  /\ UNCHANGED <<input, kid, pos, bindings, post_transfers, alloc, value2place, remaining,
                 value_on_tier, order, next_event, steps, choice, ring>>

StageWeight ==
  /\ Streamed /\ ~ RingFull
  /\ LET v == Ins[pos]
         p == ChunkPlace(NextChunk(chunks, free, TierNow, CopyStream))
         wait == IF war_event = NoEvent THEN <<>>
                 ELSE <<SyncWait(DeviceNow, CopyStream, war_event)>>
     IN  /\ chunks' = AllocChunks(chunks, free, TierNow, CopyStream, graph.size[v], 1)
         /\ free' = PopFree(free, TierNow, CopyStream)
         /\ steps' = steps \o Append(wait, Transfer(DeviceNow, CopyStream, next_event,
                                                    Binding(v, "Input", Initializer(v)),
                                                    Binding(v, "Output", p)))
         /\ staging_fifo' = Append(staging_fifo, [chunk |-> p.id, consumer |-> info[kid].event])
         /\ Bind(v, "Input", p)
  /\ copy_events' = Append(copy_events, next_event)
  /\ next_event' = next_event + 1 /\ war_event' = NoEvent
  /\ UNCHANGED <<input, phase, kid, post_transfers, value2place, remaining, value_on_tier,
                 order, choice>>

-----------------------------------------------------------------------------
(* bind_kernel and ensure_value_on_tier, as in MemoryAware. *)

BindResident ==
  /\ ~ Streamed
  /\ BindInitializer \/ BindWorkspace \/ BindStored
  /\ UNCHANGED <<choice, ring>>

BindOnGpu == (UseCopy \/ MakeCopy) /\ UNCHANGED <<choice, ring>>

PlaceOutput ==
  /\ PlaceInPlace \/ PlaceOnOutput \/ PlaceOnChunk \/ DeliverOutput \/ ReleaseOutput
  /\ UNCHANGED <<choice, ring>>

(* Mutant of EmitKernel: the kernel does not wait for its weights. *)
EmitKernel_NoRaw ==
  /\ phase = "bind" /\ pos > Len(Ins) + Len(Outs)
  /\ \E waits \in WaitsFor(kid, StreamNow) :
        steps' = Append(steps \o waits,
                        KernelStep(kid, DeviceNow, StreamNow, info[kid].event, bindings))
  /\ phase' = "post" /\ pos' = 1
  /\ UNCHANGED <<input, kid, bindings, post_transfers, alloc, value2place, remaining,
                 value_on_tier, order, next_event, choice, ring>>

(* The kernel waits for its predecessors on other streams, then for the    *)
(* copies of its weights.                                                  *)
EmitKernel ==
  /\ phase = "bind" /\ pos > Len(Ins) + Len(Outs)
  /\ LET copies == [i \in DOMAIN copy_events |-> SyncWait(DeviceNow, StreamNow, copy_events[i])]
     IN  \E waits \in WaitsFor(kid, StreamNow) :
           steps' = Append(steps \o waits \o copies,
                           KernelStep(kid, DeviceNow, StreamNow, info[kid].event, bindings))
  /\ phase' = "post" /\ pos' = 1
  /\ UNCHANGED <<input, kid, bindings, post_transfers, alloc, value2place, remaining,
                 value_on_tier, order, next_event, choice, ring>>

AfterKernel == (PostTransfer \/ ConsumeInput) /\ UNCHANGED <<choice, ring>>

KernelDone ==
  /\ phase = "post" /\ pos > Len(post_transfers) + Len(Ins)
  /\ phase' = "pick" /\ pos' = 1
  /\ UNCHANGED <<input, kid, bindings, post_transfers, alloc, value2place, remaining,
                 value_on_tier, order, next_event, steps, choice, ring>>

Finalize ==
  /\ kid = Len(graph.kernels)
  /\ FinalizeOutput \/ FinishPlan
  /\ UNCHANGED <<choice, ring>>

PNext ==
  \/ ScheduleNext
  \/ RetireSlot \/ RingTooSmall \/ StageWeight
  \/ BindResident \/ BindOnGpu \/ PlaceOutput
  \/ EmitKernel \/ AfterKernel \/ KernelDone \/ Finalize

PSpec == PInit /\ [][PNext]_pvars

-----------------------------------------------------------------------------
(* Properties. *)

StagedSteps ==
  {i \in DOMAIN steps : steps[i].kind = "Transfer" /\ steps[i].stream = CopyStream
                        /\ host_resident # {}}

PTypeOK ==
  /\ phase \in {"pick", "bind", "deliver", "release", "post", "planned", "panicked"}
  /\ host_resident \subseteq graph.initializers
  /\ staging_fifo \in Seq([chunk : DOMAIN chunks, consumer : 0..(next_event - 1)])
  /\ war_event \in {NoEvent} \cup Nat
  /\ copy_events \in Seq(Nat)
  /\ steps \in Seq(StepType)

(* The weights left in VRAM fit the budget the policy allows them          *)
(* (ResidentBudget, "keep the largest resident up to resident_bytes"), and *)
(* no streamed weight would still fit beside them.                         *)
BudgetKept ==
  policy.kind \in {"ResidentBudget", "AutoResidentBudget"} =>
    LET budget == ResidentBytes(graph, policy, vram)
        kept == MapThenSumSet(LAMBDA v : graph.size[v], Candidates(graph, policy) \ host_resident)
    IN  /\ kept <= budget
        /\ \A v \in host_resident : kept + graph.size[v] > budget

(* The scheduler gives up only on a kernel that names more streamed        *)
(* weights than the ring has slots; a slot another kernel used never       *)
(* stands in the way.                                                      *)
PanicsOnlyWhenTooMany ==
  phase = "panicked" =>
    Cardinality({i \in DOMAIN Ins : Ins[i] \in host_resident}) > RingDepth

(* Staging takes at most RingDepth chunks of VRAM, whatever the number of  *)
(* weights, as long as no staged weight is forwarded to another value      *)
(* ("at the cost of K * max_slot VRAM", 17-19).                            *)
WeightForwarded ==
  \E k \in Kernels(graph) : graph.kernels[k].op = "Forward" /\ graph.kernels[k].ins[1] \in host_resident

StagingBounded ==
  ~ WeightForwarded =>
    Cardinality({steps[i].bindings[2].place : i \in StagedSteps}) <= RingDepth

(* Between two kernels the live uses of a chunk are the reads to come of   *)
(* the values placed there, one for each slot of the ring, and one for     *)
(* every read of a copied activation.                                      *)
RingUsesAccounted ==
  phase = "pick" =>
    \A c \in DOMAIN chunks :
      chunks[c].live =
        MapThenSumSet(LAMBDA v : remaining[v], {v \in Values(graph) : value2place[v] = ChunkPlace(c)})
        + Cardinality({i \in DOMAIN staging_fifo : staging_fifo[i].chunk = c})
        + Cardinality({u \in CopyReads(c) : steps[u[1]].bindings[u[2]].value \notin host_resident})

(* The chunk allocator's discipline is kept with two streams' free lists.  *)
(* A retired slot goes to the copy stream, which is the one to fill it.    *)
RingDiscipline == CA!Spec

(* What is streamed is chosen within the budget, and staged through a ring *)
(* that is bounded, counted and never in the way (select_host_resident,    *)
(* ensure_value_on_tier, bind_kernel).                                     *)
StagingKept ==
  PTypeOK /\ BudgetKept /\ PanicsOnlyWhenTooMany /\ StagingBounded /\ RingUsesAccounted
=============================================================================
