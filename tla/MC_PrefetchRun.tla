---------------------------- MODULE MC_PrefetchRun ----------------------------
(* Plans and runs with two CUDA streams, in three parts:                     *)
(*   plans    plans that stream weights, under every policy; not run         *)
(*   runs     plans that stream every large weight, and their runs           *)
(*   streams  plans of the memory-aware scheduler for two compute streams,   *)
(*            and their runs                                                 *)
(* The graphs of the first two are a GPU build's with weights to stream.     *)
(* Their values: 1 is an input, 2 to 6 weights (of sizes 1 to 3), 7 a        *)
(* session state, 8 to 12 what the kernels compute.                          *)
EXTENDS PlannedRun, Prefetch, MC_MemoryAware

CONSTANTS MCParts

VARIABLES part

KU(op, ins, outs) == [op |-> op, ins |-> ins, outs |-> outs, dev |-> "CUDA"]

GU(kernels, outputs) ==
  [kernels |-> kernels, outputs |-> outputs, inputs |-> {1}, initializers |-> 2..6,
   states |-> {v \in {7} : \E k \in DOMAIN kernels : \E i \in DOMAIN kernels[k].ins : kernels[k].ins[i] = v},
   scalars |-> {}, target |-> "CUDA",
   size |-> [v \in 1..12 |-> IF v \in {2, 6} THEN 3 ELSE IF v \in {3, 8} THEN 2 ELSE 1]]

(* Layers of a decoder: one or two weights a kernel, a weight used twice. *)
Layers ==
  {GU(<< KU("Compute", <<1>> \o w1, <<8>>), KU("Compute", <<8>> \o w2, <<9>>),
         KU("Compute", <<9, 1>> \o w3, <<10>>), KU("Compute", i4, <<11>>) >>, outs) :
     w1 \in {<<2>>, <<2, 3>>}, w2 \in {<<4>>, <<4, 2>>, <<>>}, w3 \in {<<5, 6>>, <<5, 5>>, <<4, 5, 6>>},
     i4 \in {<<10, 6>>, <<8, 10, 3>>}, outs \in {<<11>>, <<9, 11>>}}

Cached ==
  {GU(<< KU("Compute", <<1, 2>>, <<8>>), KU("InPlace", <<7, 8>>, <<9>>), KU("Compute", <<9, 8, 3>>, <<10>>),
         KU("Compute", <<10, 4, 5>>, <<11>>), KU("Forward", <<11>>, <<12>>) >>, <<12>>)}

(* Kernels with as many weights as the ring has slots, and one more. *)
Heavy ==
  {GU(<< KU("Compute", <<1>> \o w, <<8>>), KU("Compute", <<8, 2, 3>> \o w, <<9>>) >>, <<9>>) :
     w \in {<<4, 5>>, <<5>>, <<4, 5, 6>>}}

(* A weight that is reshaped before it is read: here SlotsExclusive fails. *)
Forwarded ==
  {GU(<< KU("Forward", <<3>>, <<8>>), KU("Compute", <<1, 8>>, <<9>>), KU("Compute", <<9, 2>>, <<10>>),
         KU("Compute", <<10, 4>>, <<11>>), KU("Compute", <<11, 5>>, <<12>>) >>, <<12>>)}

GraphsOf(p) ==
  CASE p = "plans"     -> Layers \cup Cached \cup Heavy
    [] p = "runs"      -> Cached \cup {g \in Layers : g.outputs = <<11>> /\ Len(g.kernels[1].ins) = 2}
    [] p = "streams"   -> Regular(Family("CUDA") \cup Crossings)
    [] p = "forwarded" -> Forwarded

Families == [p \in MCParts |-> GraphsOf(p)]
MCGraphs == UNION {Families[p] : p \in MCParts}

Policy(kind, min, resident, reserve) ==
  [kind |-> kind, min |-> min, resident |-> resident, reserve |-> reserve]

PoliciesOf(p) ==
  CASE p = "plans"   -> {Policy("SizeThreshold", m, 0, 0) : m \in {1, 2}}
                        \cup {Policy("ResidentBudget", 1, r, 0) : r \in {2, 4}}
                        \cup {Policy("AutoResidentBudget", 1, 0, 1)}
    [] p = "streams" -> {Policy("Disabled", 0, 0, 0)}
    [] OTHER         -> {Policy("SizeThreshold", 1, 0, 0)}

MCPolicies == UNION {PoliciesOf(p) : p \in MCParts}

VramOf(p) == IF p = "plans" THEN {NoAnswer, 0, 5} ELSE {NoAnswer}
MCVram == UNION {VramOf(p) : p \in MCParts}

-----------------------------------------------------------------------------
(* A run of a plan the prefetching scheduler makes.  The plan's steps run as *)
(* CUDA code runs any plan (PlannedRun): the copies of the weights on the    *)
(* copy stream, the kernels on the compute stream.                           *)
RInit == PInit /\ running = {} /\ finished = {} /\ mem = [p \in StoredPlaces |-> p.id]

Scheduling == PNext /\ UNCHANGED xvars
Running == Step /\ UNCHANGED <<choice, ring>>

mcvars == <<part, allvars, choice, ring>>

MCInit ==
  /\ part \in MCParts /\ graph \in Families[part]
  /\ policy \in PoliciesOf(part) /\ vram \in VramOf(part)
  /\ RInit

MCScheduling ==
  /\ UNCHANGED part
  /\ IF part = "streams" THEN Next /\ UNCHANGED <<xvars, choice, ring>> ELSE Scheduling

MCRunning == part # "plans" /\ Running /\ UNCHANGED part

Stopped ==
  /\ phase = "panicked" \/ (phase = "planned" /\ (part = "plans" \/ finished = Runs))
  /\ UNCHANGED mcvars

MCSpec ==
  /\ MCInit /\ [][MCScheduling \/ MCRunning \/ Stopped]_mcvars
  /\ WF_mcvars(part # "plans" /\ MCScheduling) /\ WF_mcvars(MCRunning)

-----------------------------------------------------------------------------
(* What PlannedRun and Prefetch promise, for the parts it is about. *)

(* A weight reaches the kernel before the slot is filled again: whenever a *)
(* copy into a staging chunk is under way, no kernel bound to that chunk   *)
(* for another weight runs.                                                *)
SlotsExclusive ==
  \A i \in running \cap StagedSteps : \A j \in running \ {i} :
     PlacesWritten(i) \cap (PlacesRead(j) \cup PlacesWritten(j)) = {}

(* PlannedRun's RunningReadsIntact with staged weights: no kernel loses an *)
(* operand, staged or not, while the copy stream runs beside it, and no    *)
(* slot is filled while a kernel is bound to it.  On two compute streams   *)
(* the first fails (the run stream_race).                                  *)
StreamedReadsIntact ==
  /\ part \in {"runs", "forwarded"} => RunningReadsIntact
  /\ SlotsExclusive

(* With two compute streams every kernel gets its step (AdvanceReady); and *)
(* no two streams, compute or copy, ever wait for each other's events, so  *)
(* that the run of every plan comes to its end, unless planning panicked   *)
(* for want of a staging slot.                                             *)
EveryRunEnds ==
  part # "plans" =>
    <>(\/ RunOver /\ \A k \in Kernels(graph) : StepOf(k) # {}
       \/ part = "runs" /\ phase = "panicked")
=============================================================================
