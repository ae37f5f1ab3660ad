---------------------------- MODULE MC_MemoryAware ----------------------------
(* The graphs the schedulers are checked on, and the plans the memory-aware   *)
(* scheduler makes of some of them.  Values: 1 is an input, 2 an initializer, *)
(* 3 and 11 session states (a cache and its scales), 4..7 and 10 what the     *)
(* kernels compute, 8 a scalar input, 9 a workspace.                          *)
EXTENDS MemoryAware, Placement

K(op, ins, outs) == [op |-> op, ins |-> ins, outs |-> outs, dev |-> "CPU"]

G(kernels, outputs, big) ==
  [kernels |-> kernels, outputs |-> outputs, inputs |-> {1, 8}, initializers |-> {2},
   states |-> {v \in {3, 11} : \E k \in DOMAIN kernels : \E i \in DOMAIN kernels[k].ins : kernels[k].ins[i] = v},
   scalars |-> {8}, target |-> "CPU",
   size |-> [v \in 1..11 |-> IF v \in big THEN 3 ELSE 1]]

(* A kernel with one input forwards it or computes from it. *)
OpsFor(ins) == IF Len(ins) = 1 THEN {"Compute", "Forward"} ELSE {"Compute"}

(* Chains and diamonds of four kernels: values 4 to 7.  A value read by    *)
(* several kernels, a forward of a chunk with one reader or with more, two *)
(* kernels that read only stored values, an output read inside.            *)
Diamonds ==
  UNION {
    {G(<< K("Compute", <<1>>, <<4>>), K(o2, i2, <<5>>), K(o3, i3, <<6>>), K("Compute", i4, <<7>>) >>,
       outs, big) :
       o2 \in OpsFor(i2), o3 \in OpsFor(i3), outs \in {<<7>>, <<5, 7>>}, big \in {{4, 5, 6}, {7}}} :
    i2 \in {<<1, 2>>, <<4>>}, i3 \in {<<4>>, <<5>>}, i4 \in {<<4, 6>>, <<5, 6>>}}

(* The last kernel forwards an output. *)
Tails ==
  UNION {
    {G(<< K("Compute", <<1>>, <<4>>), K("Compute", i2, <<5>>), K(o3, i3, <<6>>), K("Forward", i4, <<7>>) >>,
       outs, {1, 4}) :
       o3 \in OpsFor(i3), outs \in {<<7>>, <<4, 7>>, <<7, 6>>}} :
    i2 \in {<<1, 1>>, <<4>>}, i3 \in {<<4, 5>>, <<5>>}, i4 \in {<<5>>, <<6>>}}

(* A decoding step: kernel 2 updates a cache, with its scales or without   *)
(* any, and takes a scalar launch argument; kernel 3, the attention, has   *)
(* scratch memory.                                                         *)
Caches ==
  UNION {
    {G(<< K("Compute", <<1, 8>>, <<4>>), K("InPlace", i2, <<5>>), K("Compute", i3, <<6>>), K(o4, i4, <<7>>) >>,
       outs, {9}) :
       o4 \in OpsFor(i4), outs \in {<<7>>, <<6, 7>>}} :
    i2 \in {<<3, 4, 8>>, <<3, 11, 4, 8>>}, i3 \in {<<5, 9, 2>>, <<4, 5, 11, 9>>},
    i4 \in {<<6>>, <<5, 6>>, <<6, 4>>}}

(* A kernel with two outputs, some of which nobody reads. *)
Splits ==
  UNION {
    {G(<< K("Compute", <<1>>, <<4, 5>>), K(o2, i2, <<6>>), K("Compute", i3, <<7>>) >>, outs, {5}) :
       o2 \in OpsFor(i2), outs \in {<<7>>, <<4, 7>>}} :
    i2 \in {<<4>>, <<4, 5>>}, i3 \in {<<6>>, <<5, 6>>}}

(* Two chains on streams of their own that read each other's values. *)
Crosses ==
  {G(<< K("Compute", <<1>>, <<4>>), K("Compute", <<2>>, <<5>>), K("Compute", i3, <<6>>),
        K("Compute", i4, <<7>>), K("Compute", i5, <<10>>) >>, outs, {}) :
     i3 \in {<<4>>, <<5>>, <<4, 5>>}, i4 \in {<<1, 4>>, <<6>>, <<5, 6>>},
     i5 \in {<<7>>, <<6, 7>>}, outs \in {<<10>>, <<4, 10>>}}

Shapes == Diamonds \cup Tails \cup Caches \cup Splits

-----------------------------------------------------------------------------
(* The graphs of a target, their kernels placed. *)

On(target, graphs) == {g \in {[h EXCEPT !.target = target] : h \in graphs} : WellFormed(g)}

(* Kernel k reads a weight as well, if it can. *)
Weighted(g, k) ==
  IF g.kernels[k].op = "Compute" THEN [g EXCEPT !.kernels[k].ins = Append(@, 2)] ELSE g

(* Offloaded graphs: the budget has no room for any weight, so that the    *)
(* first kernel with a weight is where the CPU takes over.                 *)
Hybrids ==
  {StructuralKvTouch(g) : g \in Caches}
  \cup UNION {{ResidentBudget(Weighted(g, k), 1, 0) : k \in Kernels(g) \ {1}} : g \in Shapes}

Family(target) ==
  CASE target = "CPU"    -> On("CPU", {Uniform(g, "CPU") : g \in Shapes})
    [] target = "CUDA"   -> On("CUDA", {Uniform(g, "CUDA") : g \in Shapes})
    [] target = "Hybrid" -> On("Hybrid", Hybrids)

Crossings == On("CUDA", {Uniform(g, "CUDA") : g \in Crosses})

(* The graphs on which a run loses nothing.  The findings show each of the *)
(* three conditions to be needed.                                          *)
Regular(graphs) == {g \in graphs : ForwardsApart(g) /\ NoDeadSibling(g) /\ OutputsComputed(g)}

-----------------------------------------------------------------------------
(* A value that is a graph output and is forwarded to another one. *)
TwiceForwarded ==
  {G(<< K("Compute", <<1>>, <<4>>), K("Forward", <<4>>, <<5>>), K("Compute", <<4>>, <<7>>) >>, outs, {}) :
     outs \in {<<4, 5, 7>>, <<5, 4>>}}

(* A kernel whose first output nobody reads. *)
DeadFirst ==
  {G(<< K("Compute", <<1>>, <<4, 5>>), K("Compute", <<5>>, <<6>>), K("Compute", <<6>>, <<7>>) >>,
     <<7>>, big) : big \in {{}, {5}}}

(* A folded initializer that is a graph output. *)
PassedThrough ==
  {G(<< K("Compute", <<1>>, <<4>>), K("Compute", <<4, 2>>, <<5>>) >>, outs, {}) :
     outs \in {<<2, 5>>, <<5, 2>>}}

-----------------------------------------------------------------------------
(* Plans of graphs placed on two devices, and of graphs whose kernels spread  *)
(* over two streams.  The scheduler stops when the plan is complete.          *)

PlanGraphs == {g \in Family("Hybrid") : NoDeadSibling(g)} \cup Crossings

Planned == phase = "planned" /\ UNCHANGED vars

PlanSpec == Init /\ [][Next \/ Planned]_vars
=============================================================================
