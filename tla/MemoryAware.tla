----------------------------- MODULE MemoryAware -----------------------------
(***************************************************************************)
(* The memory-aware list scheduler                                         *)
(* (src/schedule/scheduler/memory_aware.rs).  It orders the kernels of a   *)
(* graph, gives each a stream, binds every value a kernel touches to a     *)
(* place (a chunk of an arena or a buffer that outlives the run), inserts  *)
(* the transfers between the host and the device and the waits between     *)
(* streams, and so produces the execution plan.                            *)
(*                                                                         *)
(* The scheduler is sequential; one action is one pass of its innermost    *)
(* loops, so that the chunk allocator sees one call per action.  "phase"   *)
(* and "pos" say where it stands:                                          *)
(*   pick     run: the next kernel is to be picked; when none is ready,    *)
(*            finalize_outputs stands at output pos                        *)
(*   bind     bind_kernel stands at operand pos: the inputs come first,    *)
(*            then the outputs                                             *)
(*   deliver  the place of the output at pos is chosen (577-609)           *)
(*   release  its uses are registered (611-618)                            *)
(*   post     the kernel's step is emitted; pos counts the post-transfers  *)
(*            and then the inputs (428-448)                                *)
(*   planned  the plan is complete                                         *)
(***************************************************************************)
EXTENDS KernelGraph, Chunks
LOCAL INSTANCE Functions

CONSTANTS
  Graphs,      (* the graphs to schedule                     *)
  NumStreams   (* options.num_cuda_streams                   *)

ASSUME GraphsAssumption == \A g \in Graphs : WellFormed(g)
ASSUME StreamAssumption == NumStreams \in Nat \ {0} /\ Stream = 0..(NumStreams - 1)
ASSUME TierAssumption   == Tier = {"HostArena", "GpuArena"}

VARIABLES
  graph, deps, output_alias,  (* what is scheduled, and its derived tables    *)
  phase, kid, pos,            (* where the scheduler stands                   *)
  bindings, post_transfers,   (* of the kernel being bound                    *)
  chunks, free,               (* allocator                                    *)
  value2place, remaining,     (* remaining is value_remaining_uses            *)
  value_on_tier,              (* the copy of a value on a tier                *)
  pending, ready,             (* kernel_pending: predecessors still to come   *)
  info, load,                 (* kernel_info and stream_load                  *)
  next_event, steps

input  == <<graph, deps, output_alias>>
alloc  == <<chunks, free>>
order  == <<pending, ready, info, load>>
vars == <<graph, deps, output_alias, phase, kid, pos, bindings, post_transfers,
          chunks, free, value2place, remaining, value_on_tier, pending, ready,
          info, load, next_event, steps>>

-----------------------------------------------------------------------------
(* Places, bindings and steps (src/schedule/ir.rs). *)

NoPlace          == [kind |-> "None", id |-> 0]
ChunkPlace(c)    == [kind |-> "Chunk", id |-> c]
OutputPlace(v)   == [kind |-> "Output", id |-> v]
Initializer(v)   == [kind |-> "Initializer", id |-> v]
SessionState(v)  == [kind |-> "SessionState", id |-> v]
InputPlace(v)    == [kind |-> "Input", id |-> v]
IsChunk(p)       == p.kind = "Chunk"

TierOfDevice(d) == IF d = "CPU" THEN "HostArena" ELSE "GpuArena"
DeviceOfTier(t) == IF t = "HostArena" THEN "CPU" ELSE "CUDA"

Binding(v, role, p) == [value |-> v, role |-> role, place |-> p]

(* A wait names the event it waits for; the other steps record theirs. *)
SyncWait(dev, s, e) ==
  [kind |-> "SyncWait", kernel |-> NoKernel, device |-> dev, stream |-> s,
   event |-> e, bindings |-> <<>>]
Transfer(dev, s, e, src, dst) ==
  [kind |-> "Transfer", kernel |-> NoKernel, device |-> dev, stream |-> s,
   event |-> e, bindings |-> <<src, dst>>]
KernelStep(k, dev, s, e, bs) ==
  [kind |-> "Kernel", kernel |-> k, device |-> dev, stream |-> s,
   event |-> e, bindings |-> bs]

-----------------------------------------------------------------------------
(* The kernel being scheduled. *)

Kernel    == graph.kernels[kid]
Ins       == Kernel.ins
Outs      == Kernel.outs
StreamNow == info[kid].stream
DeviceNow == Kernel.dev
TierNow   == TierOfDevice(DeviceNow)

NoInfo == [order |-> 0, stream |-> 0, event |-> 0, scheduled |-> FALSE]

StreamCount(g) ==
  IF \E k \in Kernels(g) : g.kernels[k].dev = "CUDA" THEN NumStreams ELSE 1

(* session_state_tier: the GPU if any CUDA kernel touches the state. *)
StateTier(v) ==
  IF \E k \in Kernels(graph) :
        graph.kernels[k].dev = "CUDA" /\ (Reads(graph, k, v) \/ Writes(graph, k, v))
  THEN "GpuArena" ELSE "HostArena"

(* pick_best: the least growth of the arenas, then the least kernel id. *)
Score(k) ==
  LET kernel == graph.kernels[k]
  IN  SumFunction([i \in DOMAIN kernel.outs |-> graph.size[kernel.outs[i]]])
      - SumFunctionOnSet([i \in DOMAIN kernel.ins |-> graph.size[kernel.ins[i]]],
                         {i \in DOMAIN kernel.ins : remaining[kernel.ins[i]] = 1})
IsBest(k) ==
  k \in ready /\ \A j \in ready : Score(k) < Score(j) \/ (Score(k) = Score(j) /\ k <= j)

(* pick_stream: the stream of the latest scheduled predecessor, or the     *)
(* least loaded one for a kernel that has none.                            *)
PickStream(k) ==
  LET latest == CHOOSE p \in deps.preds[k] : \A q \in deps.preds[k] : info[q].order <= info[p].order
      least  == CHOOSE s \in 0..(StreamCount(graph) - 1) :
                  \A r \in 0..(StreamCount(graph) - 1) :
                     load[s] < load[r] \/ (load[s] = load[r] /\ s <= r)
  IN  IF deps.preds[k] = {} THEN least ELSE info[latest].stream

(* Mutants of WaitsFor: no kernel waits for another stream; the wait is    *)
(* put on the stream of the predecessor.                                   *)
WaitsFor_None(k, s) == {<<>>}

WaitsFor_Swapped(k, s) ==
  LET others == {p \in deps.preds[k] : info[p].stream # s}
      orders == {f \in [1..Cardinality(others) -> others] : \A p \in others : \E i \in DOMAIN f : f[i] = p}
  IN  {[i \in DOMAIN f |-> SyncWait(graph.kernels[k].dev, info[f[i]].stream, info[f[i]].event)] :
         f \in orders}

(* The waits emitted before a kernel on stream s, one per predecessor on   *)
(* another stream.  The code meets the predecessors in hash order: any     *)
(* order is possible.                                                      *)
WaitsFor(k, s) ==
  LET others == {p \in deps.preds[k] : info[p].stream # s}
      orders == {f \in [1..Cardinality(others) -> others] : \A p \in others : \E i \in DOMAIN f : f[i] = p}
  IN  {[i \in DOMAIN f |-> SyncWait(graph.kernels[k].dev, s, info[f[i]].event)] : f \in orders}

(* ensure_value_on_tier: must the value be copied to be read on tier t?    *)
(* Scalars are passed to kernels as launch arguments.                      *)
NeedsTransfer(v, p, t) ==
  /\ CASE p.kind = "Chunk"               -> chunks[p.id].tier # t
       [] p.kind \in {"Input", "Output"} -> t # "HostArena"
       [] p.kind = "SessionState"        -> StateTier(p.id) # t
       [] p.kind = "Initializer"         -> FALSE
  /\ v \notin graph.scalars

(* The place the kernel being bound reads value v at. *)
BoundPlace(v) ==
  bindings[CHOOSE i \in DOMAIN bindings :
             bindings[i].value = v /\ \A j \in 1..(i - 1) : bindings[j].value # v].place

(* try_in_place_identity: a forward hands its input's place on, unless     *)
(* that is a chunk someone else still reads.                               *)
ForwardPlace ==
  IF /\ Kernel.op = "Forward"
     /\ IsChunk(BoundPlace(Ins[1])) => remaining[Ins[1]] = 1
  THEN BoundPlace(Ins[1]) ELSE NoPlace

(* must_in_place_place *)
InPlacePlace ==
  IF InPlaceInput(graph, kid) # NoValue THEN BoundPlace(InPlaceInput(graph, kid)) ELSE NoPlace

(* Where the outputs must go whatever their own needs. *)
GivenPlace == IF ForwardPlace # NoPlace THEN ForwardPlace ELSE InPlacePlace

-----------------------------------------------------------------------------

(* Scheduler::new *)
Init ==
  /\ graph \in Graphs
  /\ deps = Deps(graph)
  /\ output_alias = OutputAliases(graph)
  /\ phase = "pick" /\ kid = NoKernel /\ pos = 1
  /\ bindings = <<>> /\ post_transfers = <<>>
  /\ chunks = <<>> /\ free = NoFree
  /\ value2place = [v \in Values(graph) |->
                      IF v \in graph.inputs THEN InputPlace(v)
                      ELSE IF v \in graph.states THEN SessionState(v)
                      ELSE IF v \in graph.initializers THEN Initializer(v)
                      ELSE NoPlace]
  /\ remaining = deps.uses
  /\ value_on_tier = [x \in Values(graph) \X Tier |-> [place |-> NoPlace, event |-> 0, stream |-> 0]]
  /\ pending = [k \in Kernels(graph) |-> Cardinality(deps.preds[k])]
  /\ ready = {k \in Kernels(graph) : deps.preds[k] = {}}
  /\ info = [k \in Kernels(graph) |-> NoInfo]
  /\ load = [s \in Stream |-> 0]
  /\ next_event = 0
  /\ steps = <<>>

(* run and the head of schedule_kernel: the best ready kernel gets its     *)
(* stream and its event, and waits for its predecessors on other streams.  *)
PickKernel ==
  /\ phase = "pick"
  /\ \E k \in ready :
       LET s == PickStream(k)
       IN
         /\ IsBest(k)
         /\ kid' = k
         /\ ready' = ready \ {k}
         /\ info' = [info EXCEPT ![k] = [order |-> Cardinality({j \in Kernels(graph) : info[j].scheduled}),
                                         stream |-> s, event |-> next_event, scheduled |-> TRUE]]
         /\ load' = [load EXCEPT ![s] = @ + 1]
         /\ \E waits \in WaitsFor(k, s) : steps' = steps \o waits
  /\ next_event' = next_event + 1
  /\ phase' = "bind" /\ pos' = 1 /\ bindings' = <<>> /\ post_transfers' = <<>>
  /\ UNCHANGED <<input, alloc, value2place, remaining, value_on_tier, pending>>

-----------------------------------------------------------------------------
(* bind_kernel: the inputs. *)

BindingInput == phase = "bind" /\ pos <= Len(Ins)

Bind(v, role, p) ==
  /\ bindings' = Append(bindings, Binding(v, role, p))
  /\ pos' = pos + 1

(* Every value but a workspace has a place before it is read: the code     *)
(* panics otherwise.                                                       *)
Stored(v) == v \notin graph.initializers /\ v \notin Workspaces(graph) /\ value2place[v] # NoPlace

BindInitializer ==
  /\ BindingInput /\ Ins[pos] \in graph.initializers
  /\ Bind(Ins[pos], "Input", Initializer(Ins[pos]))
  /\ UNCHANGED <<input, phase, kid, post_transfers, alloc, value2place, remaining,
                 value_on_tier, order, next_event, steps>>

BindWorkspace ==
  /\ BindingInput /\ Ins[pos] \in Workspaces(graph)
  /\ LET v == Ins[pos]
         c == NextChunk(chunks, free, TierNow, StreamNow)
     IN  /\ chunks' = AllocChunks(chunks, free, TierNow, StreamNow, graph.size[v], remaining[v])
         /\ free' = PopFree(free, TierNow, StreamNow)
         /\ value2place' = [value2place EXCEPT ![v] = ChunkPlace(c)]
         /\ Bind(v, "Workspace", ChunkPlace(c))
  /\ UNCHANGED <<input, phase, kid, post_transfers, remaining, value_on_tier, order,
                 next_event, steps>>

(* The value is where it is needed (ensure_value_on_tier, first returns). *)
BindStored ==
  /\ BindingInput /\ Stored(Ins[pos])
  /\ ~ NeedsTransfer(Ins[pos], value2place[Ins[pos]], TierNow)
  /\ Bind(Ins[pos], "Input", value2place[Ins[pos]])
  /\ UNCHANGED <<input, phase, kid, post_transfers, alloc, value2place, remaining,
                 value_on_tier, order, next_event, steps>>

Copied(v) == value_on_tier[<<v, TierNow>>].place # NoPlace
MustCopy(v) == Stored(v) /\ NeedsTransfer(v, value2place[v], TierNow)

(* ensure_value_on_tier: an earlier copy is used again. *)
UseCopy ==
  /\ BindingInput /\ MustCopy(Ins[pos]) /\ Copied(Ins[pos])
  /\ LET copy == value_on_tier[<<Ins[pos], TierNow>>]
     IN  /\ chunks' = AddUsesTo(chunks, copy.place.id, 1)
         /\ steps' = IF copy.stream # StreamNow
                     THEN Append(steps, SyncWait(DeviceNow, StreamNow, copy.event))
                     ELSE steps
         /\ Bind(Ins[pos], "Input", copy.place)
  /\ UNCHANGED <<input, phase, kid, post_transfers, free, value2place, remaining,
                 value_on_tier, order, next_event>>

(* ensure_value_on_tier: the value is copied to a chunk of the tier. *)
MakeCopy ==
  /\ BindingInput /\ MustCopy(Ins[pos]) /\ ~ Copied(Ins[pos])
  /\ LET v == Ins[pos]
         p == ChunkPlace(NextChunk(chunks, free, TierNow, StreamNow))
     IN  /\ chunks' = AllocChunks(chunks, free, TierNow, StreamNow, graph.size[v], 1)
         /\ free' = PopFree(free, TierNow, StreamNow)
         /\ steps' = Append(steps, Transfer(DeviceOfTier(TierNow), StreamNow, next_event,
                                            Binding(v, "Input", value2place[v]),
                                            Binding(v, "Output", p)))
         /\ value_on_tier' = [value_on_tier EXCEPT ![<<v, TierNow>>] =
                                [place |-> p, event |-> next_event, stream |-> StreamNow]]
         /\ Bind(v, "Input", p)
  /\ next_event' = next_event + 1
  /\ UNCHANGED <<input, phase, kid, post_transfers, value2place, remaining, order>>

-----------------------------------------------------------------------------
(* bind_kernel: the outputs. *)

BindingOutput == phase = "bind" /\ pos > Len(Ins) /\ pos <= Len(Ins) + Len(Outs)
Out == Outs[pos - Len(Ins)]

PutOutput(p) ==
  /\ value2place' = [value2place EXCEPT ![Out] = p]
  /\ phase' = "deliver"
  /\ UNCHANGED <<input, kid, pos, bindings, post_transfers, remaining, value_on_tier,
                 order, next_event, steps>>

(* The output takes the place of the input it forwards or updates, and its *)
(* readers are added to that chunk's.                                      *)
PlaceInPlace ==
  /\ BindingOutput /\ GivenPlace # NoPlace
  /\ chunks' = IF IsChunk(GivenPlace) THEN AddUsesTo(chunks, GivenPlace.id, remaining[Out]) ELSE chunks
  /\ UNCHANGED free
  /\ PutOutput(GivenPlace)

(* A host kernel writes straight into the buffer of a graph output. *)
ToOutputBuffer == output_alias[Out] # NoValue /\ TierNow = "HostArena"

PlaceOnOutput ==
  /\ BindingOutput /\ GivenPlace = NoPlace /\ ToOutputBuffer
  /\ UNCHANGED alloc
  /\ PutOutput(OutputPlace(output_alias[Out]))

PlaceOnChunk ==
  /\ BindingOutput /\ GivenPlace = NoPlace /\ ~ ToOutputBuffer
  /\ chunks' = AllocChunks(chunks, free, TierNow, StreamNow, graph.size[Out], remaining[Out])
  /\ free' = PopFree(free, TierNow, StreamNow)
  /\ PutOutput(ChunkPlace(NextChunk(chunks, free, TierNow, StreamNow)))

(* A graph output that is not in its buffer is transferred there after the *)
(* kernel, and the transfer is one more use of its chunk.                  *)
MustDeliver == output_alias[Out] # NoValue /\ value2place[Out].kind # "Output"

(* Mutant of DeliverOutput: the post-transfer's use is not registered. *)
DeliverOutput_NoUse ==
  /\ phase = "deliver"
  /\ post_transfers' = IF MustDeliver
                       THEN Append(post_transfers,
                                   [src |-> Binding(Out, "Input", value2place[Out]),
                                    dst |-> Binding(Out, "Output", OutputPlace(output_alias[Out]))])
                       ELSE post_transfers
  /\ bindings' = Append(bindings, Binding(Out, "Output", value2place[Out]))
  /\ phase' = "release"
  /\ UNCHANGED <<input, kid, pos, chunks, free, value2place, remaining, value_on_tier, order,
                 next_event, steps>>

DeliverOutput ==
  /\ phase = "deliver"
  /\ chunks' = IF MustDeliver /\ IsChunk(value2place[Out])
               THEN AddUsesTo(chunks, value2place[Out].id, 1) ELSE chunks
  /\ post_transfers' = IF MustDeliver
                       THEN Append(post_transfers,
                                   [src |-> Binding(Out, "Input", value2place[Out]),
                                    dst |-> Binding(Out, "Output", OutputPlace(output_alias[Out]))])
                       ELSE post_transfers
  /\ bindings' = Append(bindings, Binding(Out, "Output", value2place[Out]))
  /\ phase' = "release"
  /\ UNCHANGED <<input, kid, pos, free, value2place, remaining, value_on_tier, order,
                 next_event, steps>>

(* An output nobody reads gives its chunk back at once. *)
ReleaseOutput ==
  /\ phase = "release"
  /\ free' = IF IsChunk(value2place[Out])
             THEN FreeIfDead(free, chunks, value2place[Out].id, StreamNow) ELSE free
  /\ phase' = "bind" /\ pos' = pos + 1
  /\ UNCHANGED <<input, kid, bindings, post_transfers, chunks, value2place, remaining,
                 value_on_tier, order, next_event, steps>>

-----------------------------------------------------------------------------
(* The rest of schedule_kernel. *)

EmitStep ==
  /\ phase = "bind" /\ pos > Len(Ins) + Len(Outs)
  /\ steps' = Append(steps, KernelStep(kid, DeviceNow, StreamNow, info[kid].event, bindings))
  /\ phase' = "post" /\ pos' = 1
  /\ UNCHANGED <<input, kid, bindings, post_transfers, alloc, value2place, remaining,
                 value_on_tier, order, next_event>>

ConsumePlace(p) ==
  IF IsChunk(p)
  THEN /\ chunks' = ConsumeIn(chunks, p.id)
       /\ free' = FreeIfDead(free, chunks', p.id, StreamNow)
  ELSE UNCHANGED alloc

PostTransfer ==
  /\ phase = "post" /\ pos <= Len(post_transfers)
  /\ LET pt == post_transfers[pos]
     IN  /\ steps' = Append(steps, Transfer(DeviceNow, StreamNow, next_event, pt.src, pt.dst))
         /\ ConsumePlace(pt.src.place)
  /\ next_event' = next_event + 1 /\ pos' = pos + 1
  /\ UNCHANGED <<input, phase, kid, bindings, post_transfers, value2place, remaining,
                 value_on_tier, order>>

ConsumeInput ==
  /\ phase = "post" /\ pos > Len(post_transfers) /\ pos <= Len(post_transfers) + Len(Ins)
  /\ LET v == Ins[pos - Len(post_transfers)]
     IN  /\ remaining' = [remaining EXCEPT ![v] = @ - 1]
         /\ ConsumePlace(value2place[v])
  /\ pos' = pos + 1
  /\ UNCHANGED <<input, phase, kid, bindings, post_transfers, value2place, value_on_tier,
                 order, next_event, steps>>

AdvanceReady ==
  /\ phase = "post" /\ pos > Len(post_transfers) + Len(Ins)
  /\ pending' = [k \in Kernels(graph) |->
                   IF k \in deps.consumers[kid] THEN pending[k] - 1 ELSE pending[k]]
  /\ ready' = ready \cup {k \in deps.consumers[kid] : pending'[k] = 0}
  /\ phase' = "pick" /\ pos' = 1
  /\ UNCHANGED <<input, kid, bindings, post_transfers, alloc, value2place, remaining,
                 value_on_tier, info, load, next_event, steps>>

-----------------------------------------------------------------------------
(* finalize_outputs, for the output at pos: one that no step has brought   *)
(* to a host buffer is transferred at the end.                             *)

Delivered(v) ==
  \E i \in DOMAIN steps :
     /\ steps[i].kind = "Transfer"
     /\ steps[i].bindings[2].place.kind = "Output"
     /\ steps[i].bindings[2].value = v

FinalizeOutput ==
  /\ phase = "pick" /\ ready = {} /\ pos <= Len(graph.outputs)
  /\ LET v == graph.outputs[pos]
         p == deps.producer[v]
     IN  IF Delivered(v) \/ value2place[v] = NoPlace \/ value2place[v].kind = "Output"
         THEN UNCHANGED <<steps, next_event>>
         ELSE /\ steps' = Append(steps,
                   Transfer(
                            IF p = NoKernel THEN "CPU" ELSE graph.kernels[p].dev,
                            IF p = NoKernel THEN 0 ELSE info[p].stream,
                            next_event,
                            Binding(v, "Input", value2place[v]),
                            Binding(v, "Output", OutputPlace(v))))
              /\ next_event' = next_event + 1
  /\ pos' = pos + 1
  /\ UNCHANGED <<input, phase, kid, bindings, post_transfers, alloc, value2place, remaining,
                 value_on_tier, order>>

(* into_plan *)
FinishPlan ==
  /\ phase = "pick" /\ ready = {} /\ pos > Len(graph.outputs)
  /\ phase' = "planned"
  /\ UNCHANGED <<input, kid, pos, bindings, post_transfers, alloc, value2place, remaining,
                 value_on_tier, order, next_event, steps>>

Next ==
  \/ PickKernel
  \/ BindInitializer \/ BindWorkspace \/ BindStored \/ UseCopy \/ MakeCopy
  \/ PlaceInPlace \/ PlaceOnOutput \/ PlaceOnChunk
  \/ DeliverOutput \/ ReleaseOutput
  \/ EmitStep \/ PostTransfer \/ ConsumeInput \/ AdvanceReady
  \/ FinalizeOutput \/ FinishPlan

Spec == Init /\ [][Next]_vars

-----------------------------------------------------------------------------
(* Properties. *)

Place == [kind : {"None", "Chunk", "Output", "Initializer", "SessionState", "Input"}, id : Nat]
BindingType == [value : Nat, role : {"Input", "Output", "Workspace"}, place : Place]
StepType == [kind : {"SyncWait", "Kernel", "Transfer"}, kernel : Nat, device : Device,
             stream : Stream, event : Nat, bindings : Seq(BindingType)]

TypeOK ==
  /\ phase \in {"pick", "bind", "deliver", "release", "post", "planned"}
  /\ kid \in Kernels(graph) \cup {NoKernel} /\ pos \in Nat
  /\ bindings \in Seq(BindingType)
  /\ post_transfers \in Seq([src : BindingType, dst : BindingType])
  /\ chunks \in Seq(ChunkState) /\ free \in [FreeList -> Seq(Nat)]
  /\ value2place \in [Values(graph) -> Place]
  /\ remaining \in [Values(graph) -> Nat]
  /\ value_on_tier \in [Values(graph) \X Tier -> [place : Place, event : Nat, stream : Stream]]
  /\ pending \in [Kernels(graph) -> Nat] /\ ready \subseteq Kernels(graph)
  /\ info \in [Kernels(graph) -> [order : Nat, stream : Stream, event : Nat, scheduled : BOOLEAN]]
  /\ load \in [Stream -> Nat] /\ next_event \in Nat
  /\ steps \in Seq(StepType)

(* The scheduler keeps the discipline of the chunk allocator: it consumes, *)
(* releases and adds uses only to chunks it holds, and allocates no second *)
(* chunk while a dead one is in its hands.  The chunk in its hands is the  *)
(* one of the output just placed.                                          *)
Fresh ==
  IF /\ phase \in {"deliver", "release"}
     /\ IsChunk(value2place[Out])
     /\ chunks[value2place[Out].id].live = 0
  THEN value2place[Out].id ELSE NoChunk

Sizes == UNION {{g.size[v] : v \in Values(g)} : g \in Graphs}
UseCounts == {0, 1} \cup UNION {{UsesCount(g, v) : v \in Values(g)} : g \in Graphs}

CA == INSTANCE ChunkAllocator WITH Size <- Sizes, Use <- UseCounts, fresh <- Fresh
AllocatorDiscipline == CA!Spec

(* The bindings of kernel steps that read a copy, not the value's place.   *)
CopyReads(c) ==
  {u \in UNION {{i} \X DOMAIN steps[i].bindings : i \in DOMAIN steps} :
     /\ steps[u[1]].kind = "Kernel"
     /\ LET b == steps[u[1]].bindings[u[2]]
        IN  b.role = "Input" /\ b.place = ChunkPlace(c) /\ value2place[b.value] # b.place}

(* The reads of a chunk by the kernels still to be scheduled. *)
ReadsToCome(c) ==
  {u \in Slots(graph) : ~ info[u[1]].scheduled /\ value2place[ReadAt(graph, u)] = ChunkPlace(c)}

(* Between two kernels the live uses of a chunk are exactly the reads      *)
(* still to come of the values placed there, plus one for every read of a  *)
(* copy: a copy's uses are never consumed (ensure_value_on_tier, consume). *)
LiveUsesAccounted ==
  phase = "pick" =>
    \A c \in DOMAIN chunks :
      chunks[c].live = Cardinality(ReadsToCome(c)) + Cardinality(CopyReads(c))

(* The values a chunk must keep: those placed there that are still to be   *)
(* read, and those it is the copy of.                                      *)
Held(c) ==
  {v \in Values(graph) : value2place[v] = ChunkPlace(c) /\ remaining[v] > 0}
  \cup {v \in Values(graph) : \E t \in Tier : value_on_tier[<<v, t>>].place = ChunkPlace(c)}

(* No chunk is to keep two different values at once.                       *)
ChunkHoldsOneValue ==
  phase = "pick" =>
    \A c \in DOMAIN chunks : \A v, w \in Held(c) : Origin(graph, v) = Origin(graph, w)

(* A kernel's outputs and workspaces share no chunk with each other or     *)
(* with an input, unless the kernel only forwards or updates that input.   *)
OperandsApart ==
  \A i \in DOMAIN steps : steps[i].kind = "Kernel" =>
    LET bs == steps[i].bindings
    IN  \A b, d \in DOMAIN bs :
          /\ b # d /\ bs[b].role # "Input" /\ bs[b].place = bs[d].place
          => /\ bs[d].role = "Input"
             /\ graph.kernels[steps[i].kernel].op \in {"Forward", "InPlace"}
             /\ bs[d].value = graph.kernels[steps[i].kernel].ins[1]

(* Every value fits the chunk it is bound to (ChunkInfo.size is the largest  *)
(* size the chunk was asked for).                                            *)
ValuesFit ==
  \A i \in DOMAIN steps : \A b \in DOMAIN steps[i].bindings :
    LET x == steps[i].bindings[b]
    IN  IsChunk(x.place) => graph.size[x.value] <= chunks[x.place.id].size

(* A kernel step finds every operand on its own tier, a scalar apart.      *)
OperandsOnTier ==
  \A i \in DOMAIN steps : steps[i].kind = "Kernel" =>
    \A b \in DOMAIN steps[i].bindings :
      LET x == steps[i].bindings[b]
          t == TierOfDevice(steps[i].device)
      IN  x.value \notin graph.scalars =>
            CASE x.place.kind = "Chunk"        -> chunks[x.place.id].tier = t
              [] x.place.kind = "SessionState" -> StateTier(x.place.id) = t
              [] x.place.kind = "Initializer"  -> TRUE
              [] OTHER                         -> t = "HostArena"

(* A session state is read and updated where it is kept, never in a copy:  *)
(* the hybrid runtime cannot move a state (placement.rs, 82-83), and an    *)
(* update of a copy would be lost when the run is over.                    *)
StatesStayPut ==
  \A i \in DOMAIN steps : \A b \in DOMAIN steps[i].bindings :
    LET x == steps[i].bindings[b]
    IN  x.value \in graph.states => x.place = SessionState(x.value)

StepOf(k) == {i \in DOMAIN steps : steps[i].kind = "Kernel" /\ steps[i].kernel = k}

(* The complete plan runs every kernel once, after its predecessors.       *)
PlanIsComplete ==
  phase = "planned" =>
    \A k \in Kernels(graph) :
      /\ Cardinality(StepOf(k)) = 1
      /\ \A p \in deps.preds[k] : \A i \in StepOf(p), j \in StepOf(k) : i < j

(* A wait names an event some earlier step records (cudaStreamWaitEvent    *)
(* does nothing for an event not recorded yet), and the step it is for     *)
(* runs on the stream it was meant for: codegen gives a wait to whatever   *)
(* step comes next (HostCodeGenerator::new).                               *)
WaitsWellPlaced ==
  \A i \in DOMAIN steps : steps[i].kind = "SyncWait" =>
    /\ \E j \in 1..(i - 1) : steps[j].kind # "SyncWait" /\ steps[j].event = steps[i].event
    /\ \A j \in (i + 1)..Len(steps) :
         (\A m \in (i + 1)..(j - 1) : steps[m].kind = "SyncWait") => steps[j].stream = steps[i].stream

(* Every binding is one the kernel can use: of a chunk that is large       *)
(* enough, on its device, which nothing else still needs (bind_kernel,     *)
(* ensure_value_on_tier).                                                  *)
OperandsWellPlaced ==
  ChunkHoldsOneValue /\ OperandsApart /\ ValuesFit /\ OperandsOnTier /\ StatesStayPut

(* The steps can be run as codegen reads them: each kernel once, after     *)
(* those it depends on, with waits that stand before what they guard       *)
(* (schedule_kernel).                                                      *)
PlanIsExecutable == PlanIsComplete /\ WaitsWellPlaced
=============================================================================
