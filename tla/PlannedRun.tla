----------------------------- MODULE PlannedRun -----------------------------
(***************************************************************************)
(* A run of the execution plan MemoryAware makes.  Once the plan is        *)
(* complete its steps run as the generated code runs them:                 *)
(*                                                                         *)
(*   CPU     one function calls the kernels one after the other and        *)
(*           ignores the other steps (src/codegen/cpu.rs, compile_main)    *)
(*   CUDA    every kernel and transfer is launched on its stream; streams  *)
(*           run on their own, in launch order, and wait for the events    *)
(*           of SyncWait steps (src/codegen/cuda.rs)                       *)
(*   Hybrid  the host walks the steps (src/session/hybrid.rs, run): a CPU  *)
(*           kernel runs on the spot, a CUDA kernel is launched on its     *)
(*           stream, a transfer is a blocking cudaMemcpy, which waits for  *)
(*           every stream                                                  *)
(*                                                                         *)
(* A step has a beginning and an end, so that two steps on different       *)
(* streams can overlap.  The contents of a place is the value it holds;    *)
(* forwarded values count as the value they are copies of (Origin).        *)
(***************************************************************************)
EXTENDS MemoryAware

VARIABLES
  running, finished,  (* the steps under way and those over      *)
  mem                 (* what each place written or stored holds *)

xvars == <<running, finished, mem>>
allvars == <<vars, xvars>>

Undefined == 0

-----------------------------------------------------------------------------
(* The steps as the code generators take them. *)

Target == graph.target

Runs == {i \in DOMAIN steps : steps[i].kind # "SyncWait"}
IsForward(i) == steps[i].kind = "Kernel" /\ graph.kernels[steps[i].kernel].op = "Forward"
IsInPlace(i) == steps[i].kind = "Kernel" /\ graph.kernels[steps[i].kernel].op = "InPlace"

(* The place an operand has in a step; the last binding of a value wins    *)
(* (bindings_by_value).                                                    *)
PlaceIn(i, v) ==
  LET bs == steps[i].bindings
      b  == CHOOSE n \in DOMAIN bs : bs[n].value = v /\ \A m \in DOMAIN bs : bs[m].value = v => m <= n
  IN  bs[b].place

(* CodeGenContext::value2place: the place of a value in the last kernel    *)
(* step that binds it.                                                     *)
LastPlace(v) ==
  LET binders == {i \in Runs : steps[i].kind = "Kernel" /\
                    \E b \in DOMAIN steps[i].bindings : steps[i].bindings[b].value = v}
  IN  PlaceIn(CHOOSE i \in binders : \A j \in binders : j <= i, v)

(* need_to_generate, for a forward on the CPU *)
CopiesOnCpu(i) ==
  LET k == graph.kernels[steps[i].kernel]
      a == LastPlace(k.ins[1])
      b == LastPlace(k.outs[1])
  IN  IsChunk(a) /\ IsChunk(b) /\ a # b

(* call_kernel, for a forward on CUDA *)
CopiesOnCuda(i) ==
  LET k == graph.kernels[steps[i].kernel]
  IN  PlaceIn(i, k.ins[1]) # PlaceIn(i, k.outs[1])

(* emit_transfer: only these transfers have a body, and one from a host    *)
(* buffer to a host buffer gets the kind of a copy to the device.          *)
TransferredOnCuda(i) ==
  LET src == steps[i].bindings[1].place
      dst == steps[i].bindings[2].place
  IN  \/ src.kind \in {"Input", "Initializer"} /\ dst.kind # "Output"
      \/ src.kind # "Input" /\ dst.kind = "Output"

(* Does the step touch memory at all? *)
Performed(i) ==
  CASE steps[i].kind = "Transfer" -> \/ Target = "Hybrid"
                                     \/ Target = "CUDA" /\ TransferredOnCuda(i)
    [] IsForward(i)               -> IF steps[i].device = "CPU" THEN CopiesOnCpu(i) ELSE CopiesOnCuda(i)
    [] OTHER                      -> TRUE

(* The bindings of a step by role.  A cache update also writes the scales  *)
(* it reads.                                                               *)
Bound(i, roles) == {b \in DOMAIN steps[i].bindings : steps[i].bindings[b].role \in roles}
ReadsAt(i)  == IF Performed(i) THEN {steps[i].bindings[b] : b \in Bound(i, {"Input"})} ELSE {}
WritesAt(i) ==
  IF Performed(i)
  THEN {steps[i].bindings[b] : b \in Bound(i, {"Output", "Workspace"})}
       \cup {r \in ReadsAt(i) : IsInPlace(i) /\ r.value = ScaleInput(graph, steps[i].kernel)}
  ELSE {}

PlacesWritten(i) == {w.place : w \in WritesAt(i)}
PlacesRead(i)    == {r.place : r \in ReadsAt(i)}

-----------------------------------------------------------------------------
(* When a step may begin. *)

(* Steps a stream runs; the host runs the others and goes on after them.   *)
Async(i) ==
  \/ Target = "CUDA"
  \/ Target = "Hybrid" /\ steps[i].kind = "Kernel" /\ steps[i].device = "CUDA"

(* HostCodeGenerator::new: a step waits for the events of the SyncWait     *)
(* steps just before it.                                                   *)
WaitedEvents(i) ==
  {steps[w].event : w \in {w \in 1..(i - 1) : \A j \in w..(i - 1) : steps[j].kind = "SyncWait"}}

(* The stream has done what was launched on it before, and the events the  *)
(* step waits for.  Only a step on a stream records its event.             *)
StreamReaches(i) ==
  /\ \A j \in Runs : j < i /\ Async(j) /\ steps[j].stream = steps[i].stream => j \in finished
  /\ \A j \in Runs : j < i /\ Async(j) /\ steps[j].event \in WaitedEvents(i) => j \in finished

HostReaches(i) == \A j \in Runs : j < i /\ ~ Async(j) => j \in finished

(* Mutant of CanBegin: a hybrid transfer does not wait for the streams. *)
CanBegin_Async(i) ==
  /\ i \notin running \cup finished
  /\ HostReaches(i)
  /\ Async(i) => StreamReaches(i)

CanBegin(i) ==
  /\ i \notin running \cup finished
  /\ HostReaches(i)
  /\ Async(i) => StreamReaches(i)
  /\ Target = "Hybrid" /\ steps[i].kind = "Transfer" => \A j \in Runs : j < i => j \in finished

-----------------------------------------------------------------------------

Holds(p) == IF p \in DOMAIN mem THEN mem[p] ELSE Undefined

(* What a step must find where it reads v.  The scales of a cache come     *)
(* with the cache: whoever but the update reads them reads them updated.   *)
Expected(i, v) ==
  IF \E u \in Kernels(graph) : ScaleInput(graph, u) = v /\ u # steps[i].kernel /\ v # NoValue
  THEN graph.kernels[CHOOSE u \in Kernels(graph) : ScaleInput(graph, u) = v].outs[1]
  ELSE Origin(graph, v)

StoredPlaces ==
  {InputPlace(v) : v \in graph.inputs} \cup {Initializer(v) : v \in graph.initializers}
  \cup {SessionState(v) : v \in graph.states}

XInit ==
  /\ Init
  /\ running = {} /\ finished = {}
  /\ mem = [p \in StoredPlaces |-> p.id]

(* A place is overwritten from the beginning of the step that writes it,   *)
(* unless the step updates or copies that place itself.                    *)
Begin(i) ==
  /\ CanBegin(i)
  /\ running' = running \cup {i}
  /\ mem' = [p \in DOMAIN mem \cup PlacesWritten(i) |->
               IF p \in PlacesWritten(i) /\ ~ ((IsForward(i) \/ IsInPlace(i)) /\ p \in PlacesRead(i))
               THEN Undefined ELSE Holds(p)]
  /\ UNCHANGED <<vars, finished>>

(* What a step leaves in a place it writes: a copy of what it read, or the *)
(* value it computed.  Of two outputs in one place either may be last.     *)
Result(i, p) ==
  IF steps[i].kind = "Transfer" \/ IsForward(i)
  THEN {Holds(r.place) : r \in ReadsAt(i)}
  ELSE IF IsInPlace(i) THEN {graph.kernels[steps[i].kernel].outs[1]}
  ELSE {IF w.role = "Output" THEN w.value ELSE Undefined : w \in {w \in WritesAt(i) : w.place = p}}

End(i) ==
  /\ i \in running
  /\ running' = running \ {i}
  /\ finished' = finished \cup {i}
  /\ \E result \in [PlacesWritten(i) -> UNION {Result(i, p) : p \in PlacesWritten(i)}] :
       /\ \A p \in PlacesWritten(i) : result[p] \in Result(i, p)
       /\ mem' = [p \in DOMAIN mem |-> IF p \in PlacesWritten(i) THEN result[p] ELSE mem[p]]
  /\ UNCHANGED vars

RunOver == phase = "planned" /\ finished = Runs

(* The plan has been carried out; the caller has its outputs. *)
Returned == RunOver /\ UNCHANGED allvars

Step == phase = "planned" /\ \E i \in Runs : Begin(i) \/ End(i)

XNext ==
  \/ Next /\ UNCHANGED xvars
  \/ Step
  \/ Returned

XSpec == XInit /\ [][XNext]_allvars /\ WF_allvars(Next /\ UNCHANGED xvars) /\ WF_allvars(Step)

-----------------------------------------------------------------------------
(* Properties. *)

(* No step ever loses an operand: from its beginning to its end every      *)
(* place it reads holds the value it was bound for.                        *)
RunningReadsIntact ==
  \A i \in running : \A r \in ReadsAt(i) : Holds(r.place) = Expected(i, r.value)

(* Two overlapping steps never write the same place.                       *)
WritesExclusive ==
  \A i, j \in running : i # j => PlacesWritten(i) \cap PlacesWritten(j) = {}

(* When the run is over every graph output is in its buffer.               *)
OutputsDelivered ==
  RunOver =>
    \A n \in DOMAIN graph.outputs :
      Holds(OutputPlace(graph.outputs[n])) = Origin(graph, graph.outputs[n])

(* A kernel begins when its predecessors have finished, whatever streams   *)
(* they are on (the cross-stream waits of schedule_kernel).                *)
ProducersFirst ==
  \A i \in running : steps[i].kernel # NoKernel =>
    \A p \in deps.preds[steps[i].kernel] : StepOf(p) \subseteq finished

(* The steps are ordered by the waits the plan has: producers first, and   *)
(* no two writers at once (schedule_kernel, HostCodeGenerator::new).       *)
StepsOrdered == WaitsWellPlaced /\ WritesExclusive /\ ProducersFirst

(* Planning and running a graph implement the data flow the graph stands   *)
(* for: nothing starts before what it reads from is finished, every kernel *)
(* gets its turn, and the outputs arrive.                                  *)
KernelOfStep(S) == {steps[i].kernel : i \in S} \ {NoKernel}

DF == INSTANCE Dataflow WITH
        active <- KernelOfStep(running),
        done <- KernelOfStep(finished),
        delivered <- IF RunOver
                     THEN {t \in {graph.outputs[n] : n \in DOMAIN graph.outputs} :
                             Holds(OutputPlace(t)) = Origin(graph, t)}
                     ELSE {}
ImplementsDataflow == DF!Spec
=============================================================================
